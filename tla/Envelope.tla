------------------------------ MODULE Envelope ------------------------------
(***************************************************************************)
(* The interpretation envelope of start.py and its readers in runner.py:   *)
(* what the intake resolver's untrusted reply is turned into, the payload  *)
(* rendered into the execution input, and the schema every reader applies. *)
(*                                                                         *)
(* A reply proposes one entry per axis: a state, members and the quotes    *)
(* offered for them.  `ceiling' stands for the three axes whose default is *)
(* empty.  A quote is a span; src.spans are the spans found verbatim in    *)
(* the immutable sources, src.scope those of the task's own scope.  The    *)
(* state "misshapen" stands for every entry of the wrong keys or types.    *)
(***************************************************************************)
EXTENDS Integers, Sequences, SequencesExt, FiniteSetsExt, Functions

CONSTANTS
    PathOf,        \* member -> the path _normalise_write_target makes of it
    NotAPath,      \* ... or this value
    Marked,        \* members that carry a marker of the envelope themselves
    MAX_MEMBERS    \* ENVELOPE_MAX_MEMBERS, small here

\* A marker holds no path separator, so no normalisation makes one; the
\* engine's own paths carry none.
ASSUME MembersAssumption ==
    /\ MAX_MEMBERS \in Nat
    /\ \A m \in DOMAIN PathOf : PathOf[m] \in Marked => m \in Marked
    /\ {"reports", "gate-review-output"} \cap Marked = {}

SET_AXES == {"surface", "targets", "ceiling"}
ENUM_AXIS == "expansion"
AXES == SET_AXES \cup {ENUM_AXIS}
USER_DECISION == <<"user_decision">>

-----------------------------------------------------------------------------
(* One proposed axis: an engine value, "unresolved", or a raise that fails  *)
(* the whole resolution closed.                                             *)

Value(state, members, default, provenance) ==
    [state |-> state, value |-> members, default_applied |-> default,
     source |-> [x \in ToSet(members) |-> provenance]]
Unresolved == Value("unresolved", <<>>, FALSE, "none")
Raised == Value("raised", <<>>, FALSE, "none")
Declared(members) == Value("declared", members, FALSE, "requirement_sources")
SafeDefault(members) == Value("semantically_silent", members, TRUE, "safe_default")

Grounded(quotes, spans) == ToSet(quotes) \subseteq spans

\* The one axis with an enumerated value; nothing else can be honoured.
ExpansionAxis(e, src) ==
    IF e.value # USER_DECISION THEN Unresolved
    ELSE IF e.state = "semantically_silent" THEN SafeDefault(USER_DECISION)
    ELSE IF e.evidence = <<>> \/ ~Grounded(e.evidence, src.spans) THEN Raised
    ELSE Declared(USER_DECISION)

\* Silence: no default for write targets, none but [] for the ceilings, and
\* for the surface the behaviours the scope itself names.
SilentAxis(axis, e, src) ==
    CASE axis = "targets" -> Unresolved
      [] axis = "ceiling" -> IF e.value = <<>> THEN SafeDefault(<<>>) ELSE Raised
      [] axis = "surface" ->
            IF IF e.value = <<>> THEN src.scope = {} ELSE Grounded(e.value, src.scope)
            THEN SafeDefault(e.value) ELSE Raised

\* A path joins the list unless the list holds it.
Adding(paths, p) == IF Contains(paths, p) THEN paths ELSE Append(paths, p)

\* Normalised targets, each once, in the order of the reply.
Normalised(members) == FoldLeft(Adding, <<>>, [i \in DOMAIN members |-> PathOf[members[i]]])

\* A declared write set may only be empty when nothing in the task or its
\* sources contradicts that.
EmptyDeclared(axis, src) ==
    CASE axis # "targets" -> Raised
      [] axis = "targets" /\ (src.apply \/ src.paths) -> Unresolved
      [] OTHER -> Declared(<<>>)

\* Mutant: the quotes are counted but not looked up in the sources.
MutantDeclaredAxis(axis, e, src) ==
    IF e.value = <<>> THEN EmptyDeclared(axis, src)
    ELSE IF Len(e.evidence) # Len(e.value) THEN Raised
    ELSE IF axis # "targets" THEN Declared(e.value)
    ELSE IF \E m \in ToSet(e.value) : PathOf[m] = NotAPath THEN Unresolved
    ELSE Declared(Normalised(e.value))

DeclaredAxis(axis, e, src) ==
    IF e.value = <<>> THEN EmptyDeclared(axis, src)
    ELSE IF Len(e.evidence) # Len(e.value) \/ ~Grounded(e.evidence, src.spans) THEN Raised
    ELSE IF axis # "targets" THEN Declared(e.value)
    ELSE IF \E m \in ToSet(e.value) : PathOf[m] = NotAPath THEN Unresolved
    ELSE Declared(Normalised(e.value))

\* The bounds on proposed members.
MembersRefused(e) == Len(e.value) > MAX_MEMBERS \/ ~IsInjective(e.value)

AxisFromProposal(axis, e, src) ==
    CASE e.state = "misshapen" -> Raised
      [] e.state = "unresolved" -> Unresolved
      [] axis = ENUM_AXIS /\ e.state \in {"declared", "semantically_silent"} ->
            ExpansionAxis(e, src)
      [] axis # ENUM_AXIS /\ e.state \in {"declared", "semantically_silent"} ->
            IF MembersRefused(e) THEN Raised
            ELSE IF e.state = "declared" THEN DeclaredAxis(axis, e, src)
            ELSE SilentAxis(axis, e, src)

-----------------------------------------------------------------------------
(* The reply as a whole.                                                    *)

\* No usable proposal: a failed, slow or oversized call, or not exactly one
\* well-formed object between the markers.
NoProposal == "no proposal"

\* The tool-less review reads the task's own text only and may grant nothing.
ResolverSources(src) ==
    IF src.review THEN [src EXCEPT !.spans = src.own, !.paths = FALSE] ELSE src

ParsedAxes(reply, src) ==
    [axis \in AXES |-> AxisFromProposal(axis, reply.axes[axis], ResolverSources(src))]

\* candidates are display only, and only where they mean something.
ReplyRefused(reply, src) ==
    \/ src.review /\ reply.axes["targets"].value # <<>>
    \/ \E axis \in AXES : ParsedAxes(reply, src)[axis].state = "raised"
    \/ reply.candidates /\ ParsedAxes(reply, src)["targets"].state # "unresolved"

\* Is there an envelope, or the fail-closed stop at waiting_user?
Resolves(reply, src) ==
    /\ reply.shape # NoProposal
    /\ ~ReplyRefused(reply, src)
    /\ \A axis \in AXES : ParsedAxes(reply, src)[axis].state # "unresolved"

-----------------------------------------------------------------------------
(* Emission, and the schema of the readers.                                 *)

EngineOwned(gated) ==
    IF gated THEN <<"reports", "gate-review-output">> ELSE <<"reports">>

\* The task's own outputs are sourced to the engine, declared or not.
EngineSource(source, owned) ==
    [x \in DOMAIN source \cup ToSet(owned) |->
        IF x \in ToSet(owned) THEN "engine_owned" ELSE source[x]]

\* Mutant: an engine-owned path is appended even when it was declared.
MutantWithEngineTargets(axis, gated) ==
    [axis EXCEPT !.value = @ \o EngineOwned(gated),
                 !.source = EngineSource(@, EngineOwned(gated))]

WithEngineTargets(axis, gated) ==
    [axis EXCEPT !.value = FoldLeft(Adding, @, EngineOwned(gated)),
                 !.source = EngineSource(@, EngineOwned(gated))]

EnvelopePayload(reply, src, gated) ==
    [ParsedAxes(reply, src) EXCEPT !["targets"] = WithEngineTargets(@, gated)]

ValidAxis(axis, a) ==
    /\ a.state \in {"declared", "semantically_silent"}
    /\ a.default_applied <=> a.state = "semantically_silent"
    /\ axis = "targets" => a.state = "declared"
    /\ axis = ENUM_AXIS => a.value = USER_DECISION
    /\ IsInjective(a.value)
    /\ DOMAIN a.source = ToSet(a.value)
    /\ axis \in SET_AXES /\ a.state = "declared" /\ a.value # <<>>
        => \E x \in ToSet(a.value) : a.source[x] # "safe_default"

\* The block is rendered only when it is valid, and accepted only when the
\* one pair of markers of the whole input is its own.
ReadsBack(payload) ==
    \A axis \in AXES : ValidAxis(axis, payload[axis]) /\ ToSet(payload[axis].value) \cap Marked = {}
=============================================================================
