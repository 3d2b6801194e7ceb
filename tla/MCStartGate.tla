---------------------------- MODULE MCStartGate ----------------------------
(* Start commands, sources and resolver replies for StartGate.  A reply is a *)
(* usable one with a single axis replaced by each of its variants; only the  *)
(* asks of Followed are executed, and those with the first few replies.     *)
EXTENDS StartGate

MCPathOf ==
    [m \in {"a.py", "./a.py", "b.py", "..", "reports", "marked", "s1", "s2"} |->
        CASE m = "./a.py" -> "a.py" [] m = ".." -> "not a path" [] OTHER -> m]

Sources(apply, review, paths, scope) ==
    [spans |-> {"q", "own"}, own |-> {"own"}, scope |-> scope, paths |-> paths,
     apply |-> apply, review |-> review]

Plain ==
    [type |-> "review", draft |-> FALSE, config |-> "none", executor |-> "none",
     ambiguous |-> FALSE, spec |-> "none", worktree |-> "none", high |-> FALSE,
     formal |-> FALSE, mentions |-> FALSE, gateword |-> FALSE, source |-> "rule",
     marker |-> "none", session |-> FALSE, dry |-> FALSE,
     src |-> Sources(FALSE, FALSE, FALSE, {"s1"})]
Apply ==
    [Plain EXCEPT !.type = "apply", !.spec = "approved", !.worktree = "ok",
                  !.src = Sources(TRUE, FALSE, TRUE, {})]
External ==
    [Plain EXCEPT !.draft = TRUE, !.config = "ok", !.session = TRUE,
                  !.src = Sources(FALSE, TRUE, TRUE, {})]

MCFacts ==
    [gated    |-> [Plain EXCEPT !.gateword = TRUE],
     mixed    |-> [Plain EXCEPT !.source = "mixed"],
     review   |-> [Plain EXCEPT !.src = Sources(FALSE, FALSE, TRUE, {})],
     apply    |-> Apply,
     risky    |-> [Apply EXCEPT !.high = TRUE, !.executor = "codex"],
     external |-> External,
     dry      |-> [Apply EXCEPT !.dry = TRUE],
     unknown  |-> [Plain EXCEPT !.type = "unknown", !.source = "model"],
     raises   |-> [Plain EXCEPT !.executor = "claude"],
     unmarked |-> [Apply EXCEPT !.spec = "unmarked"],
     nospec   |-> [Apply EXCEPT !.spec = "none"],
     nowhere  |-> [Apply EXCEPT !.worktree = "missing"],
     vague    |-> [Plain EXCEPT !.ambiguous = TRUE],
     formal   |-> [Plain EXCEPT !.formal = TRUE],
     planned  |-> [Apply EXCEPT !.marker = "plan"],
     framed   |-> [Apply EXCEPT !.marker = "envelope"],
     misdraft |-> [External EXCEPT !.spec = "approved"],
     config   |-> [Apply EXCEPT !.config = "ok", !.executor = "codex", !.session = TRUE],
     refused  |-> [Plain EXCEPT !.config = "ok"],
     orphan   |-> [External EXCEPT !.session = FALSE]]
MCAsk == DOMAIN MCFacts
Followed == {"gated", "mixed"}

Entry(state, value, evidence) == [state |-> state, value |-> value, evidence |-> evidence]
Usable ==
    [surface   |-> Entry("declared", <<"s1">>, <<"q">>),
     targets   |-> Entry("declared", <<"a.py">>, <<"q">>),
     ceiling   |-> Entry("semantically_silent", <<>>, <<>>),
     expansion |-> Entry("semantically_silent", <<"user_decision">>, <<>>)]

Pure ==
    [Usable EXCEPT !.surface.evidence = <<"own">>, !.targets = Entry("declared", <<>>, <<>>)]

\* The states, members and quotes tried on one axis; as many quotes as
\* members, and none.
Members(axis) ==
    CASE axis = "targets" ->
            {<<>>, <<"a.py">>, <<"a.py", "./a.py">>, <<"a.py", "a.py">>, <<"reports">>,
             <<"..", "a.py">>, <<"a.py", "b.py", "marked">>, <<"marked">>}
      [] axis = "expansion" -> {<<"user_decision">>, <<"s1">>}
      [] OTHER -> {<<>>, <<"s1">>, <<"s1", "s2">>, <<"marked">>}
Quotes(members) ==
    {<<>>} \cup (IF Len(members) = 1 THEN {<<"q">>, <<"own">>, <<"made up">>}
                 ELSE {<<"q", "q">>, <<"q", "made up">>})
Entries(axis) ==
    {<<"misshapen", <<>>, <<>> >>, <<"unresolved", <<>>, <<>> >>}
    \cup UNION {{<<s, v, q>> : s \in {"declared", "semantically_silent"}, q \in Quotes(v)}
                : v \in Members(axis)}

\* A reply by name: its base, the axis replaced, the entry, and candidates.
Follow == {<<"usable", "none", <<"declared", <<>>, <<>> >>, FALSE>>,
           <<"no proposal", "none", <<"declared", <<>>, <<>> >>, FALSE>>}
MCReply ==
    Follow
    \cup {<<"usable", axis, <<"unresolved", <<>>, <<>> >>, TRUE>> : axis \in {"targets", "ceiling"}}
    \cup UNION {{<<base, axis, e, FALSE>> : e \in Entries(axis), base \in {"usable", "pure"}}
                : axis \in {"surface", "targets"}}
    \cup UNION {{<<"usable", axis, e, FALSE>> : e \in Entries(axis)} : axis \in {"ceiling", "expansion"}}
MCSays ==
    [y \in MCReply |->
        LET base == IF y[1] = "pure" THEN Pure ELSE Usable IN
        [shape |-> IF y[1] = "no proposal" THEN NoProposal ELSE "object",
         candidates |-> y[4],
         axes |-> IF y[2] = "none" THEN base
                  ELSE [base EXCEPT ![y[2]] = Entry(y[3][1], y[3][2], y[3][3])]]]

\* The daemon answers what the asks of Followed enqueued with the usable reply,
\* and only they try again; every reply is tried by the first attempt.
Tried == IF attempts = <<>> THEN Reply ELSE Follow
Watched == ask \in Followed /\ \A i \in DOMAIN attempts : attempts[i].reply \in Follow
MCNext ==
    \/ \E a \in Ask : Start(a)
    \/ \E y \in Tried : AutoStarts(y)
    \/ (attempts = <<>> \/ Watched) /\ \E y \in Tried : StartGo(y)
    \/ StartSync
    \/ GateRun
    \/ GateSync
    \/ \E d \in {"ALLOW", "BLOCK"} : GateDecision(d)
    \/ Perform
    \/ Die
    \/ Watched
       /\ \/ \E r \in 1..Len(requests), s \in Statuses,
                o \in {"allow", "block", "needs_user_decision", None} : Publish(r, s, o)
          \/ \E t \in 1..Len(requests) : ResumeTask(t)
MCSpec == Init /\ [][MCNext]_vars
=============================================================================
