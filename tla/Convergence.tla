---------------------------- MODULE Convergence ----------------------------
(***************************************************************************)
(* How one envelope task with lifted caps leaves its review loops: every   *)
(* run of a branching stage must carry a convergence record, and the       *)
(* record of a repeat review is scored against the sealed records of the   *)
(* runs before it (controller.py _convergence_context, _apply_convergence; *)
(* runner.py extract_convergence, validate_convergence).                   *)
(*                                                                         *)
(* A record is what later runs can read of it: its shape, the identities   *)
(* still live and those it declares resolved.  The other declarations are  *)
(* compared with computed sets once, and are only right or wrong.  Runs    *)
(* that end without being committed (pauses, blocks) leave no history.     *)
(***************************************************************************)
EXTENDS ProfileGraph, Sequences, FiniteSetsExt

CONSTANTS
    Profile,       \* the frozen profile
    Reviewers,     \* stages an execution plan gave the reviewer role
    Identity,      \* failure-scenario identities
    MaxRuns,       \* bound: committed runs
    MaxResumes,    \* bound: decisions of the user
    MaxTampers     \* bound: artifacts deleted or edited after sealing

ASSUME ProfileAssumption == ValidProfile(Profile) /\ GateReachable(Profile)
ASSUME ReviewersAssumption == Reviewers \subseteq StageNames(Profile)
ASSUME FiniteAssumption == IsFiniteSet(StageNames(Profile)) /\ IsFiniteSet(Identity)
ASSUME BoundAssumption == MaxRuns \in Nat /\ MaxResumes \in Nat /\ MaxTampers \in Nat

VARIABLES
    stage,         \* tasks.current_stage
    status,        \* tasks.status
    history,       \* committed runs: [stage, record, reason, moved, intact]
    resumes,       \* decisions so far
    tampers        \* artifacts lost so far

vars == <<stage, status, history, resumes, tampers>>

-----------------------------------------------------------------------------
\* Records.

NoRecord == [shape |-> "none", live |-> {}, resolved |-> {}]   \* missing or malformed
First(live) == [shape |-> "first", live |-> live, resolved |-> {}]
Repeat(live, resolved) == [shape |-> "repeat", live |-> live, resolved |-> resolved]
Records ==
    {NoRecord} \cup {First(l) : l \in SUBSET Identity}
        \cup {Repeat(l, r) : l \in SUBSET Identity, r \in SUBSET Identity}

\* The declarations nobody reads again (new, repeated and the verdict): all
\* as computed, or not.
Declarations == {"right", "wrong"}

\* The rule, in its order: what was resolved is live again; strictly less is
\* live than before; anything else.
MutantVerdict(prior, resolved, current) ==             \* no progress is enough
    IF current \cap resolved # {} THEN "oscillating"
    ELSE IF current \subseteq prior THEN "improved" ELSE "stalled"

ConvergenceVerdict(prior, resolved, current) ==
    IF current \cap resolved # {} THEN "oscillating"
    ELSE IF current \subseteq prior /\ current # prior THEN "improved" ELSE "stalled"

-----------------------------------------------------------------------------
\* The sealed history, as the next branching run reads it.

MutantUnestablished == {"convergence_unverifiable"}    \* an invalid record is no excuse
CONVERGENCE_UNESTABLISHED_REASONS ==
    {"convergence_record_invalid", "convergence_unverifiable"}

Arity == [s \in StageNames(Profile) |-> StageArity(Profile, s)]
OfArity(arity) == {k \in DOMAIN history : Arity[history[k].stage] = arity}

Usable == {k \in OfArity("branching") : history[k].record.shape # "none"}

\* Tampered with, or without a record that its own hold would excuse.
Unreadable(k) ==
    \/ ~history[k].intact
    \/ /\ history[k].record.shape = "none"
       /\ history[k].reason \notin CONVERGENCE_UNESTABLISHED_REASONS

ReadError == \E k \in OfArity("branching") : Unreadable(k)

\* A branching run that corrections followed.
MutantQualifying == Usable                             \* the last review, whatever followed
Qualifying == {k \in Usable : \E c \in OfArity("correction") : c > k}

RepeatReview == Qualifying # {} /\ ~ReadError
PriorLive == history[Max(Qualifying)].record.live

MutantHistoricalResolved == history[Max(Qualifying)].record.resolved    \* the last ones
HistoricalResolved == UNION {history[k].record.resolved : k \in Usable}

Verdict(record) == ConvergenceVerdict(PriorLive, HistoricalResolved, record.live)

\* validate_convergence: the declared partition and verdict are the computed ones.
Consistent(record, declared) ==
    declared = "right" /\ record.resolved = PriorLive \ record.live

RequiredShape == IF RepeatReview THEN "repeat" ELSE "first"

\* _apply_convergence: why the run of a branching stage that answered with
\* outcome o is held, or "none".  The provider's own hold keeps its reason.
HoldReason(o, record, declared) ==
    IF ReadError THEN "convergence_unverifiable"
    ELSE IF record.shape # RequiredShape THEN "convergence_record_invalid"
    ELSE IF ~RepeatReview THEN "none"
    ELSE IF ~Consistent(record, declared) THEN "convergence_contradictory"
    ELSE IF o = HOLD_OUTCOME THEN "none"
    ELSE CASE Verdict(record) = "improved" -> "none"
           [] Verdict(record) = "stalled" -> "convergence_stalled"
           [] Verdict(record) = "oscillating" -> "convergence_oscillating"

-----------------------------------------------------------------------------
\* One stage run, from its claim to its commit.

StatusAt(s) == IF IsTerminal(Profile, s) THEN Profile.stages[s].terminal ELSE "queued"

\* The answer is committed: an accepted ordinary outcome moves the task, a
\* hold and a reviewer's anything-but-ready leave it to the user.
Commit(o, record, reason) ==
    LET outcome == IF reason = "none" THEN o ELSE HOLD_OUTCOME
        waits == stage \in Reviewers /\ outcome # "ready"
        moved == outcome # HOLD_OUTCOME /\ ~waits
    IN  /\ history' = Append(history,
              [stage |-> stage, record |-> record, moved |-> moved, intact |-> TRUE,
               reason |-> IF waits THEN "review_requires_astra_decision" ELSE reason])
        /\ stage' = IF moved THEN Target(Profile, stage, outcome) ELSE stage
        /\ status' = IF moved THEN StatusAt(stage') ELSE "waiting_user"
        /\ UNCHANGED <<resumes, tampers>>

Claimed ==
    /\ status = "queued"
    /\ Len(history) < MaxRuns

AllowedOutcomes == OutcomesOf(Profile, stage) \cup {HOLD_OUTCOME}

ReviewRun ==
    /\ Claimed
    /\ Arity[stage] = "branching"
    /\ \E o \in AllowedOutcomes, record \in Records, declared \in Declarations :
          Commit(o, record, HoldReason(o, record, declared))

CorrectionRun ==
    /\ Claimed
    /\ Arity[stage] = "correction"
    /\ \E o \in AllowedOutcomes : Commit(o, NoRecord, "none")

\* A run that is paused or blocked, or a cap on attempts: nothing committed.
RunFails ==
    /\ Claimed
    /\ status' = "blocked"
    /\ UNCHANGED <<stage, history, resumes, tampers>>

Resume ==
    /\ status \in {"waiting_user", "blocked"}
    /\ resumes < MaxResumes
    /\ resumes' = resumes + 1
    /\ status' = "queued"
    /\ UNCHANGED <<stage, history, tampers>>

\* A sealed artifact is deleted or edited behind the controller's back.
Tamper(k) ==
    /\ tampers < MaxTampers
    /\ history[k].intact
    /\ history' = [history EXCEPT ![k] = [@ EXCEPT !.intact = FALSE]]
    /\ tampers' = tampers + 1
    /\ UNCHANGED <<stage, status, resumes>>

Init ==
    /\ stage = Profile.initial
    /\ status = "queued"
    /\ history = <<>>
    /\ resumes = 0
    /\ tampers = 0

Work == ReviewRun \/ CorrectionRun \/ RunFails

Next == Work \/ Resume \/ \E k \in OfArity("branching") : Tamper(k)

Spec == Init /\ [][Next]_vars
-----------------------------------------------------------------------------
\* Properties.

MovedReviews == {k \in OfArity("branching") : history[k].moved}

\* j is the review the correction c answers.
LastBefore(j, c) == j < c /\ \A m \in MovedReviews : m < c => m <= j

\* Every review that moves the task on has strictly
\* fewer live failures than each review an earlier correction answered, over
\* user decisions, holds and unreadable runs in between.
ReviewsShrink ==
    \A c \in OfArity("correction") : \A j, k \in MovedReviews :
        c < k /\ LastBefore(j, c) =>
            /\ history[k].record.live \subseteq history[j].record.live
            /\ history[k].record.live # history[j].record.live

\* A failure that an accepted review declared resolved is not live in any
\* later accepted review, also of another branching stage of the same cycle.
ResolvedStaysResolved ==
    \A j, k \in MovedReviews :
        j < k => history[j].record.resolved \cap history[k].record.live = {}

\* A repeat review is scored against a review that was accepted and moved
\* the task, never against the record of a run that was held.
BaselineAccepted == RepeatReview => history[Max(Qualifying)].moved

\* controller.py:1324-1331: skipping a run held without an established record
\* "lets a fresh valid review establish a baseline, which is otherwise
\* impossible": while no artifact was tampered with, no hold makes the
\* history unreadable.
HoldsStayReadable == tampers = 0 => ~ReadError

Working == {s \in StageNames(Profile) : ~IsTerminal(Profile, s)}

\* With the caps lifted the loop still comes to an end or to the user, soon:
\* all of the task's runs are at most a pass through the working stages before
\* the first review and one for each size the set of live failures can have,
\* and for each decision of the user one run that is held.
RunsBounded ==
    Len(history) <= (Cardinality(Identity) + 2) * Cardinality(Working) + resumes + 1

\* The loop gets somewhere: _apply_convergence lets only progress through,
\* and that alone bounds the task once the caps are lifted.
LoopProgresses == ReviewsShrink /\ RunsBounded
=============================================================================
