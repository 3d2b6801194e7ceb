-------------------------- MODULE MCKanbanCards --------------------------
(***************************************************************************)
(* An instance of KanbanCards: the requests a few clients may have queued. *)
(* A behaviour plays one of two scenes, each with requests of its own: two *)
(* cards and one closeout, or the worker reports on one card.              *)
(***************************************************************************)
EXTENDS KanbanCards, Sequences

CONSTANTS c1, c2, gated, plain, v1, draft, x, att1, att2

Req(op, command, c, expected, arg) ==
    [op |-> op, command |-> command, card |-> c, expected |-> expected, arg |-> arg]

Fields(scope) == [scoped |-> TRUE, scope |-> scope]
Text == [scoped |-> FALSE]

\* What approving c in generation gen under the gated scope freezes.
Approval(c, gen) ==
    [card |-> c, gen |-> gen, scope |-> gated, content |-> v1, gate_required |-> TRUE]

Binding(c, gen, evidence) ==
    [card |-> c, gen |-> gen, hash |-> Approval(c, gen), evidence |-> evidence, closeout |-> x]

\* Two cards, one closeout; c1 goes through two generations.
CardList ==
    <<Req("create1", "create", c1, 0, Fields(gated)),
     Req("create2", "create", c2, 0, Fields(gated)),
     Req("approve1", "approve", c1, 0, None),
     Req("approve2", "approve", c2, 0, None),
     Req("edit0", "edit", c1, 0, Fields(None)),
     Req("edit1", "edit", c1, 1, Fields(plain)),
     Req("edit1", "withdraw", c1, 1, None),
     Req("return1", "return", c1, 1, None),
     Req("approve3", "approve", c1, 2, None),
     Req("done1", "done", c1, 3, Binding(c1, 1, "complete")),
     Req("done2", "done", c1, 3, Binding(c1, 2, "complete")),
     Req("done3", "done", c2, 1, Binding(c2, 1, "complete")),
     Req("return2", "return", c2, 2, None),
     Req("withdraw3", "withdraw", c1, 3, None)>>

\* Worker attempts and reports on one card whose scope moves and moves back.
Observation(attempt, supersedes, previous, state, handoff) ==
    [attempt |-> attempt, supersedes |-> supersedes, previous |-> previous,
     state |-> state, handoff |-> handoff, thread |-> attempt]

Report(status, observation) == [status |-> status, observation |-> observation]

WorkerList ==
    <<Req("create", "create", c1, 0, Fields(plain)),
     Req("submit", "report-progress", c1, 0,
         Report("in_progress", Observation(att1, None, None, "submitted", "none"))),
     Req("run", "report-progress", c1, 1,
         Report("in_progress", Observation(att1, None, "submit", "running", "none"))),
     Req("edit1", "edit", c1, 1, Fields(gated)),
     Req("approve1", "approve", c1, 1, None),
     Req("fail", "report-progress", c1, 2,
         Report("blocked", Observation(att1, None, "submit", "failed", "pending"))),
     Req("edit2", "edit", c1, 2, Fields(plain)),
     Req("retitle", "edit", c1, 1, Text),
     Req("pause", "pause", c1, 2, None),
     Req("run2", "report-progress", c1, 2,
         Report("in_progress", Observation(att1, None, "submit", "running", "none"))),
     Req("complete", "report-progress", c1, 3,
         Report("reported_done", Observation(att1, None, "fail", "completed", "acknowledged"))),
     Req("hand", "report-progress", c1, 3,
         Report("blocked", Observation(att1, None, "fail", "failed", "acknowledged"))),
     Req("submit2", "report-progress", c1, 3,
         Report("in_progress", Observation(att2, att1, "fail", "submitted", "none"))),
     Req("backlog", "place", c1, 3, [destination |-> "backlog"]),
     Req("submit3", "report-progress", c1, 4,
         Report("in_progress", Observation(att2, att1, "hand", "submitted", "none"))),
     Req("backlog4", "place", c1, 4, [destination |-> "backlog"]),
     Req("board", "place", c1, 4, Malformed),
     Req("fail2", "report-progress", c1, 4,
         Report("blocked", Observation(att1, None, "submit2", "failed", "acknowledged"))),
     Req("last", "report-progress", c1, 5,
         Report("in_progress", None)),
     Req("archive", "archive", c1, 5, None),
     Req("beyond", "report-progress", c1, 6, Report("in_progress", None))>>

MCAsk == CardList \o WorkerList
Requests == DOMAIN MCAsk
Ops == {MCAsk[r].op : r \in Requests}

VARIABLE scene     \* the scene that is played

Played == {r \in Requests : (scene = "cards") <=> (r <= Len(CardList))}

MCInit ==
    /\ Init
    /\ scene \in {"cards", "worker"}
    /\ disk = [s \in Scope |-> v1]

\* Files change and closeouts are decided where cards are closed; reports
\* may be refused twice.
MCNext ==
    /\ UNCHANGED scene
    /\ \/ \E r \in Played : Handle(r)
       \/ /\ scene = "cards"
          /\ \/ \E s \in Scope, content \in Content : Rewrite(s, content)
             \/ \E lifecycle \in Closeout, carried \in SUBSET DoneRequests :
                   Allow(lifecycle, carried)
    /\ scene = "cards" => Cardinality(Refused') < MaxRefused

MCSpec == MCInit /\ [][MCNext]_<<vars, scene>>
=============================================================================
