--------------------------- MODULE RequestLedger ---------------------------
(***************************************************************************)
(* What the request queue promises its clients, whatever happens to the    *)
(* daemon in between: a request takes effect at most once, it is answered  *)
(* at most once, and it never takes effect after it was answered.          *)
(***************************************************************************)
CONSTANT Request

VARIABLES
    applied,    \* requests whose transition is in the database
    answered    \* requests a result was published for

Init == applied = {} /\ answered = {}

Apply(r) ==
    /\ r \notin applied \cup answered
    /\ applied' = applied \cup {r}
    /\ UNCHANGED answered

Answer(r) ==
    /\ r \notin answered
    /\ answered' = answered \cup {r}
    /\ UNCHANGED applied

Next == \E r \in Request : Apply(r) \/ Answer(r)

Spec == Init /\ [][Next]_<<applied, answered>>
=============================================================================
