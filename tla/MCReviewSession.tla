-------------------------- MODULE MCReviewSession --------------------------
(* Tasks, series and reviewer answers for ReviewSession.                     *)
EXTENDS ReviewSession

MCSeriesOf == [t \in Task |-> IF t = "other" THEN "b" ELSE "a"]
MCKindOf == [t \in Task |-> IF t = "impl" THEN "implementation" ELSE "spec"]

Says0(product, verification, blocking, remaining, outcome) ==
    [wellformed |-> TRUE, sha |-> "packet", blocking |-> blocking, remaining |-> remaining,
     outcome |-> outcome,
     axes |-> [a \in Axis |-> CASE a = "product_spec" -> product
                                [] a = "verification" -> verification [] OTHER -> "PASS"]]

MCSays ==
    [passed   |-> Says0("PASS", "PASS", FALSE, FALSE, "ready"),
     deferred |-> Says0("PASS", "DEFERRED", FALSE, TRUE, "ready"),
     unowned  |-> Says0("PASS", "DEFERRED", FALSE, FALSE, "ready"),
     unknown  |-> Says0("UNKNOWN", "PASS", FALSE, TRUE, "ready"),
     untested |-> Says0("PASS", "UNKNOWN", FALSE, TRUE, "ready"),
     blocking |-> Says0("PASS", "PASS", TRUE, FALSE, "ready"),
     decide   |-> Says0("FAIL", "PASS", TRUE, FALSE, "needs_user_decision"),
     another  |-> [Says0("PASS", "PASS", FALSE, FALSE, "ready") EXCEPT !.sha = "other"],
     garbled  |-> [Says0("PASS", "PASS", FALSE, FALSE, "ready") EXCEPT !.wellformed = FALSE]]
MCAnswer == DOMAIN MCSays

\* Every answer is tried by the first run, and a task goes on from the first two
\* only; the other series begins after a rehydration of the first, by importing
\* a session, and an edit is made while its candidate is under review.
Tried == IF Len(runs) = 1 THEN Answer ELSE {"passed", "deferred"}
Watched == \A r \in DOMAIN runs : runs[r].answer \in {"passed", "deferred", None}

MCNext ==
    /\ Watched
    /\ \/ RegisterNew("a") \/ Rehydrate("a")
       \/ \E x \in Receipted : RegisterImport("a", x)
       \/ record["a"] # None /\ record["a"].rehydrated
          /\ \E x \in Receipted \ Imported : RegisterImport("b", x)
       \/ \E t \in Task :
             \/ Intake(t) \/ BindSession(t) \/ Call(t) \/ Return(t, Tried) \/ Seal(t)
             \/ Finish(t) \/ Reconcile(t) \/ Crash(t) \/ BlockOrphan(t)
             \/ task[t].at \in {"bound", "calling"} /\ EditCandidate(t)
MCSpec == Init /\ [][MCNext]_vars
=============================================================================
