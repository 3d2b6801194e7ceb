------------------------- MODULE ConvergenceProofs -------------------------
(***************************************************************************)
(* What holds of Convergence for every gate-reachable profile, finite set  *)
(* of identities and bound: the reviews that move the task make progress,  *)
(* a resolved failure stays resolved, a repeat review is scored against an *)
(* accepted one, and the loop with its caps lifted is bounded.             *)
(***************************************************************************)
EXTENDS Convergence, FiniteSetTheorems, WellFoundedInduction, TLAPS

-----------------------------------------------------------------------------
\* The inductive invariant.

Arities == {"branching", "correction", "neither"}
Reasons ==
    CONVERGENCE_UNESTABLISHED_REASONS
        \cup {"none", "convergence_contradictory", "convergence_stalled",
              "convergence_oscillating", "review_requires_astra_decision"}

CommittedRuns ==
    [stage : StageNames(Profile), record : Records, moved : BOOLEAN, intact : BOOLEAN, reason : Reasons]

TypesFit ==
    /\ stage \in StageNames(Profile)
    /\ status \in {"queued", "waiting_user", "blocked"} \cup TERMINAL_STATUSES
    /\ history \in Seq(CommittedRuns)
    /\ resumes \in Nat
    /\ tampers \in Nat

Moves == {k \in DOMAIN history : history[k].moved}
Held == {k \in DOMAIN history : ~history[k].moved}

\* Where the task stands, and every stage that ran, an execution can enter;
\* what ran is a branching or a correction stage.
Entered ==
    /\ stage \in ReachableStages(Profile)
    /\ \A k \in DOMAIN history :
          /\ history[k].stage \in ReachableStages(Profile)
          /\ Arity[history[k].stage] \in {"branching", "correction"}

\* The runs that moved the task are a walk on the graph: the next of them, or
\* the task itself when there is none, is at a successor of the stage.
Walked ==
    \A m \in Moves : \E s \in Successors(Profile, history[m].stage) :
        \/ stage = s /\ \A k \in Moves : k <= m
        \/ \E k \in Moves :
              k > m /\ history[k].stage = s /\ \A i \in Moves : i <= m \/ k <= i

\* A branching stage is left only by a review that moves the task.
LeftByReview ==
    \A k \in OfArity("branching") :
        /\ Arity[stage] # "branching" => \E j \in MovedReviews : k <= j
        /\ \A c \in OfArity("correction") :
              k < c => \E j \in MovedReviews : k <= j /\ j < c

\* A review that moves the task carries a record, which resolves nothing
\* unless there was a baseline.
MovesOnRecord ==
    \A k \in MovedReviews :
        /\ history[k].record.shape # "none"
        /\ Qualifying = {} => history[k].record.resolved = {}

\* Every run that is held costs a decision, the last one excepted.
HoldsPaid ==
    Cardinality(Held) <= resumes + (IF status = "queued" THEN 0 ELSE 1)

IInv ==
    /\ TypesFit /\ Entered /\ Walked /\ LeftByReview /\ MovesOnRecord /\ HoldsPaid
    /\ ReviewsShrink /\ ResolvedStaysResolved

-----------------------------------------------------------------------------
\* Facts about the data.

\* The latest of a non-empty set of positions in the history exists.
LEMMA LatestExists ==
    ASSUME NEW n \in Nat, NEW S \in SUBSET (1..n), S # {}
    PROVE  \E k \in S : \A j \in S : j <= k
<1> DEFINE R == {ss \in Nat \X Nat : ss[1] < ss[2]}
           T == {n - k : k \in S}
<1>1. T \subseteq Nat /\ T # {}
  <2>1. \A k \in S : n - k \in Nat
    OBVIOUS
  <2>2. T # {}
    BY Zenon
  <2> QED BY <2>1, <2>2
<1>2. IsWellFoundedOn(R, Nat)
  BY NatLessThanWellFounded, Zenon DEF OpToRel
<1>3. PICK x \in T : \A y \in T : <<y, x>> \notin R
  <2> HIDE DEF R, T
  <2> QED BY <1>1, <1>2, WFMin
<1>4. \A y \in T : ~(y < x)
  BY <1>1, <1>3
<1>5. PICK k \in S : x = n - k
  OBVIOUS
<1>6. \A j \in S : n - j \in T /\ ~(n - j < n - k)
  BY <1>4, <1>5
<1> QED BY <1>6, <1>5

\* What Max returns of a set of positions.
LEMMA MaxLatest ==
    ASSUME NEW n \in Nat, NEW S \in SUBSET (1..n), S # {}
    PROVE  Max(S) \in S /\ \A j \in S : j <= Max(S)
<1>1. PICK k \in S : \A j \in S : j <= k
  BY LatestExists
<1>2. \A j \in S : k >= j
  BY <1>1
<1>3. Max(S) \in S /\ \A j \in S : Max(S) >= j
  BY <1>2, Zenon DEF Max
<1> QED BY <1>3

\* An execution stays among the stages it can enter.
LEMMA ReachableClosed ==
    /\ Profile.initial \in ReachableStages(Profile)
    /\ \A s \in ReachableStages(Profile) : \A t \in Successors(Profile, s) :
          t \in StageNames(Profile) => t \in ReachableStages(Profile)
<1>1. Profile.initial \in StageNames(Profile)
  BY ProfileAssumption DEF ValidProfile
<1> QED BY <1>1 DEF ReachableStages

\* Every outcome leads to a stage, and what has an arity is a working stage.
LEMMA GraphTypes ==
    ASSUME NEW s \in StageNames(Profile)
    PROVE  /\ Arity[s] \in Arities
           /\ Arity[s] # "neither" => ~IsTerminal(Profile, s)
           /\ Arity[s] = StageArity(Profile, s)
           /\ \A o \in OutcomesOf(Profile, s) :
                /\ Target(Profile, s, o) \in StageNames(Profile)
                /\ Target(Profile, s, o) \in Successors(Profile, s)
<1>1. Arity[s] = StageArity(Profile, s)
  BY DEF Arity
<1>2. Arity[s] \in Arities /\ (Arity[s] # "neither" => ~IsTerminal(Profile, s))
  <2> DEFINE several == Cardinality(OutcomesOf(Profile, s)) > 1
             one == Cardinality(OutcomesOf(Profile, s)) = 1
  <2>1. Arity[s] = CASE IsTerminal(Profile, s) -> "neither"
                     [] several -> "branching"
                     [] one -> "correction"
                     [] OTHER -> "neither"
    BY <1>1 DEF StageArity
  <2>2. IsTerminal(Profile, s) => ~several
    <3>1. IsTerminal(Profile, s) => OutcomesOf(Profile, s) = {}
      BY ProfileAssumption DEF ValidProfile
    <3>2. Cardinality({}) = 0
      BY FS_EmptySet
    <3> QED BY <3>1, <3>2
  <2>3. IsTerminal(Profile, s) => ~one
    <3>1. IsTerminal(Profile, s) => OutcomesOf(Profile, s) = {}
      BY ProfileAssumption DEF ValidProfile
    <3>2. Cardinality({}) = 0
      BY FS_EmptySet
    <3> QED BY <3>1, <3>2
  <2> HIDE DEF several, one
  <2> QED BY <2>1, <2>2, <2>3 DEF Arities
<1>3. ASSUME NEW o \in OutcomesOf(Profile, s)
      PROVE  /\ Target(Profile, s, o) \in StageNames(Profile)
             /\ Target(Profile, s, o) \in Successors(Profile, s)
  BY ProfileAssumption DEF ValidProfile, Successors
<1> QED BY <1>1, <1>2, <1>3

-----------------------------------------------------------------------------
\* The steps, by what they do to the history: a run is committed, or the rows
\* keep everything but their artifacts.

Commits(row) ==
    /\ status = "queued"
    /\ history' = Append(history, row)
    /\ UNCHANGED <<resumes, tampers>>
    /\ row \in CommittedRuns
    /\ row.stage = stage
    /\ row.intact
    /\ Arity[stage] \in {"branching", "correction"}
    /\ row.moved =>
          /\ stage' \in StageNames(Profile)
          /\ stage' \in Successors(Profile, stage)
          /\ status' \in {"queued"} \cup TERMINAL_STATUSES
    /\ ~row.moved => stage' = stage /\ status' = "waiting_user"

\* What lets a review move the task.
Accepted(record) ==
    IF Qualifying = {} THEN record.shape = "first"
    ELSE /\ record.shape = "repeat"
         /\ record.live \cap HistoricalResolved = {}
         /\ record.live \subseteq PriorLive /\ record.live # PriorLive

Scored(row) ==
    Arity[stage] = "branching" =>
        /\ row.moved => Accepted(row.record)
        /\ row.record.shape = "none" /\ stage \notin Reviewers
              => row.reason \in CONVERGENCE_UNESTABLISHED_REASONS

RowsStay ==
    /\ stage' = stage
    /\ history' \in Seq(CommittedRuns)
    /\ DOMAIN history' = DOMAIN history
    /\ \A k \in DOMAIN history :
          /\ history'[k].stage = history[k].stage
          /\ history'[k].record = history[k].record
          /\ history'[k].moved = history[k].moved
          /\ history'[k].reason = history[k].reason
    /\ \/ status' = status /\ resumes' = resumes
       \/ status = "queued" /\ status' # "queued" /\ resumes' = resumes
       \/ status # "queued" /\ status' = "queued" /\ resumes' = resumes + 1
    /\ tampers' = 0 => tampers = 0 /\ history' = history

LEMMA CommitRow ==
    ASSUME TypesFit, status = "queued", Arity[stage] \in {"branching", "correction"},
           NEW o \in AllowedOutcomes, NEW record \in Records, NEW reason \in Reasons,
           Commit(o, record, reason)
    PROVE  \E row \in CommittedRuns :
              /\ Commits(row)
              /\ row.record = record
              /\ row.moved => reason = "none" /\ o # HOLD_OUTCOME
              /\ stage \notin Reviewers => row.reason = reason
<1> DEFINE outcome == IF reason = "none" THEN o ELSE HOLD_OUTCOME
           waits == stage \in Reviewers /\ outcome # "ready"
           moved == outcome # HOLD_OUTCOME /\ ~waits
           row == [stage |-> stage, record |-> record, moved |-> moved, intact |-> TRUE,
                   reason |-> IF waits THEN "review_requires_astra_decision" ELSE reason]
<1>1. /\ history' = Append(history, row)
      /\ stage' = IF moved THEN Target(Profile, stage, outcome) ELSE stage
      /\ status' = IF moved THEN StatusAt(stage') ELSE "waiting_user"
      /\ UNCHANGED <<resumes, tampers>>
  BY DEF Commit
<1>2. row \in CommittedRuns
  BY DEF CommittedRuns, TypesFit, Reasons
<1>3. moved => reason = "none" /\ o # HOLD_OUTCOME /\ o \in OutcomesOf(Profile, stage)
  BY DEF AllowedOutcomes
<1>4. stage \in StageNames(Profile)
  BY DEF TypesFit
<1>5. moved => /\ stage' \in StageNames(Profile)
               /\ stage' \in Successors(Profile, stage)
  BY <1>1, <1>3, <1>4, GraphTypes
<1>6. moved => status' \in {"queued"} \cup TERMINAL_STATUSES
  <2> SUFFICES ASSUME moved PROVE status' \in {"queued"} \cup TERMINAL_STATUSES
    OBVIOUS
  <2>1. status' = StatusAt(stage') /\ stage' \in StageNames(Profile)
    BY <1>1, <1>5
  <2>2. ASSUME NEW s \in StageNames(Profile)
        PROVE  StatusAt(s) \in {"queued"} \cup TERMINAL_STATUSES
    BY ProfileAssumption DEF StatusAt, ValidProfile
  <2> QED BY <2>1, <2>2
<1>7. row.record = record /\ row.stage = stage /\ row.intact /\ row.moved = moved
  OBVIOUS
<1>8. stage \notin Reviewers => row.reason = reason
  OBVIOUS
<1> HIDE DEF row, moved, waits, outcome
<1>9. Commits(row)
  BY <1>1, <1>2, <1>5, <1>6, <1>7 DEF Commits
<1> QED BY <1>2, <1>3, <1>7, <1>8, <1>9

LEMMA VerdictImproved ==
    ASSUME NEW prior, NEW resolved, NEW current
    PROVE  /\ ConvergenceVerdict(prior, resolved, current) \in {"improved", "stalled", "oscillating"}
           /\ ConvergenceVerdict(prior, resolved, current) = "improved" =>
                /\ current \cap resolved = {}
                /\ current \subseteq prior /\ current # prior
BY DEF ConvergenceVerdict

\* The order of _apply_convergence: what it does not hold has made progress,
\* and a run without a record is held for a reason later reviews excuse.
LEMMA HoldScores ==
    ASSUME NEW o, NEW record, NEW declared
    PROVE  LET reason == HoldReason(o, record, declared) IN
           /\ reason \in Reasons
           /\ reason = "none" /\ o # HOLD_OUTCOME => Accepted(record)
           /\ record.shape = "none" => reason \in CONVERGENCE_UNESTABLISHED_REASONS
<1> DEFINE verdict == Verdict(record)
           scored == CASE verdict = "improved" -> "none"
                       [] verdict = "stalled" -> "convergence_stalled"
                       [] verdict = "oscillating" -> "convergence_oscillating"
           reason ==
             IF ReadError THEN "convergence_unverifiable"
             ELSE IF record.shape # RequiredShape THEN "convergence_record_invalid"
             ELSE IF ~RepeatReview THEN "none"
             ELSE IF ~Consistent(record, declared) THEN "convergence_contradictory"
             ELSE IF o = HOLD_OUTCOME THEN "none"
             ELSE scored
<1>1. HoldReason(o, record, declared) = reason
  BY DEF HoldReason
<1>2. /\ verdict \in {"improved", "stalled", "oscillating"}
      /\ verdict = "improved" => /\ record.live \cap HistoricalResolved = {}
                                 /\ record.live \subseteq PriorLive /\ record.live # PriorLive
  BY VerdictImproved DEF Verdict
<1>3. /\ scored \in {"none", "convergence_stalled", "convergence_oscillating"}
      /\ scored = "none" => verdict = "improved"
  <2> HIDE DEF verdict
  <2> QED BY <1>2
<1>4. RequiredShape = (IF RepeatReview THEN "repeat" ELSE "first")
  BY DEF RequiredShape
<1>5. RepeatReview <=> (Qualifying # {} /\ ~ReadError)
  BY DEF RepeatReview
<1> HIDE DEF scored, verdict
<1>6. reason \in Reasons
  BY <1>3 DEF Reasons, CONVERGENCE_UNESTABLISHED_REASONS
<1>7. reason = "none" /\ o # HOLD_OUTCOME => Accepted(record)
  BY <1>2, <1>3, <1>4, <1>5 DEF Accepted
<1>8. record.shape = "none" => reason \in CONVERGENCE_UNESTABLISHED_REASONS
  BY <1>4 DEF CONVERGENCE_UNESTABLISHED_REASONS
<1> HIDE DEF reason
<1> QED BY <1>1, <1>6, <1>7, <1>8, Zenon

\* Every step of the loop commits a run, or leaves all rows their columns.
LEMMA StepShapes ==
    ASSUME TypesFit, [Next]_vars
    PROVE  \/ \E row \in CommittedRuns : Commits(row) /\ Scored(row)
           \/ RowsStay
<1>1. CASE ReviewRun
  <2>1. PICK o \in AllowedOutcomes, record \in Records, declared \in Declarations :
          Commit(o, record, HoldReason(o, record, declared))
    BY <1>1 DEF ReviewRun
  <2> DEFINE reason == HoldReason(o, record, declared)
  <2>2. /\ reason \in Reasons
        /\ reason = "none" /\ o # HOLD_OUTCOME => Accepted(record)
        /\ record.shape = "none" => reason \in CONVERGENCE_UNESTABLISHED_REASONS
    BY HoldScores
  <2>3. status = "queued" /\ Arity[stage] \in {"branching", "correction"}
    BY <1>1 DEF ReviewRun, Claimed
  <2>4. Commit(o, record, reason)
    BY <2>1
  <2> HIDE DEF reason
  <2>5. PICK row \in CommittedRuns :
              /\ Commits(row)
              /\ row.record = record
              /\ row.moved => reason = "none" /\ o # HOLD_OUTCOME
              /\ stage \notin Reviewers => row.reason = reason
    BY <2>2, <2>3, <2>4, CommitRow
  <2>6. Scored(row)
    BY <2>2, <2>5 DEF Scored
  <2> QED BY <2>5, <2>6
<1>2. CASE CorrectionRun
  <2>1. PICK o \in AllowedOutcomes : Commit(o, NoRecord, "none")
    BY <1>2 DEF CorrectionRun
  <2>2. status = "queued" /\ Arity[stage] = "correction"
    BY <1>2 DEF CorrectionRun, Claimed
  <2>3. NoRecord \in Records /\ "none" \in Reasons
    BY DEF Records, Reasons
  <2>4. PICK row \in CommittedRuns : Commits(row)
    BY <2>1, <2>2, <2>3, CommitRow
  <2>5. Scored(row)
    BY <2>2 DEF Scored
  <2> QED BY <2>4, <2>5
<1>3. CASE RunFails \/ Resume \/ UNCHANGED vars
  <2>1. history' = history /\ stage' = stage /\ tampers' = tampers
    BY <1>3 DEF RunFails, Resume, vars
  <2>2. \/ status' = status /\ resumes' = resumes
        \/ status = "queued" /\ status' # "queued" /\ resumes' = resumes
        \/ status # "queued" /\ status' = "queued" /\ resumes' = resumes + 1
    BY <1>3 DEF RunFails, Claimed, Resume, vars
  <2> QED BY <2>1, <2>2 DEF RowsStay, TypesFit
<1>4. ASSUME NEW k \in OfArity("branching"), Tamper(k) PROVE RowsStay
  <2>1. k \in DOMAIN history
    BY DEF OfArity
  <2>2. history' = [history EXCEPT ![k] = [@ EXCEPT !.intact = FALSE]] /\ stage' = stage
      /\ status' = status /\ resumes' = resumes /\ tampers' # 0
    BY <1>4 DEF Tamper, TypesFit
  <2>3. [history[k] EXCEPT !.intact = FALSE] \in CommittedRuns
    <3>1. history[k] \in CommittedRuns
      BY <2>1 DEF TypesFit
    <3> QED BY <3>1 DEF CommittedRuns
  <2>4. history' \in Seq(CommittedRuns) /\ DOMAIN history' = DOMAIN history
    BY <2>1, <2>2, <2>3 DEF TypesFit
  <2>5. \A i \in DOMAIN history :
          history'[i] = IF i = k THEN [history[k] EXCEPT !.intact = FALSE] ELSE history[i]
    BY <2>2 DEF TypesFit
  <2>6. history[k] \in CommittedRuns
    BY <2>1 DEF TypesFit
  <2>7. /\ [history[k] EXCEPT !.intact = FALSE].stage = history[k].stage
        /\ [history[k] EXCEPT !.intact = FALSE].record = history[k].record
        /\ [history[k] EXCEPT !.intact = FALSE].moved = history[k].moved
        /\ [history[k] EXCEPT !.intact = FALSE].reason = history[k].reason
    BY <2>6 DEF CommittedRuns
  <2> QED BY <2>2, <2>4, <2>5, <2>7 DEF RowsStay
<1> QED BY <1>1, <1>2, <1>3, <1>4 DEF Next, Work

-----------------------------------------------------------------------------
\* What the sets of positions become.

Fresh == Len(history) + 1

LEMMA Positions ==
    ASSUME TypesFit
    PROVE  /\ Fresh \in Nat /\ DOMAIN history = 1..Len(history) /\ Len(history) \in Nat
           /\ \A k \in DOMAIN history : k \in Nat /\ k < Fresh /\ history[k] \in CommittedRuns
           /\ Moves \subseteq DOMAIN history /\ Held \subseteq DOMAIN history
           /\ OfArity("branching") \subseteq DOMAIN history
           /\ OfArity("correction") \subseteq DOMAIN history
           /\ MovedReviews \subseteq Moves
           /\ Qualifying \subseteq Usable /\ Usable \subseteq DOMAIN history
           /\ OfArity("branching") \cap OfArity("correction") = {}
BY DEF TypesFit, Fresh, Moves, Held, OfArity, MovedReviews, Usable, Qualifying

LEMMA CommitExtends ==
    ASSUME TypesFit, NEW row \in CommittedRuns, Commits(row)
    PROVE  /\ history' \in Seq(CommittedRuns)
           /\ Len(history') = Fresh
           /\ DOMAIN history' = DOMAIN history \cup {Fresh}
           /\ history'[Fresh] = row
           /\ \A k \in DOMAIN history : history'[k] = history[k]
<1>1. history' = Append(history, row) /\ history \in Seq(CommittedRuns)
  BY DEF Commits, TypesFit
<1> QED BY <1>1 DEF Fresh

LEMMA CommitSets ==
    ASSUME TypesFit, NEW row \in CommittedRuns, Commits(row)
    PROVE  /\ Moves' = IF row.moved THEN Moves \cup {Fresh} ELSE Moves
           /\ Held' = IF row.moved THEN Held ELSE Held \cup {Fresh}
           /\ OfArity("branching")' =
                IF Arity[stage] = "branching" THEN OfArity("branching") \cup {Fresh} ELSE OfArity("branching")
           /\ OfArity("correction")' =
                IF Arity[stage] = "correction" THEN OfArity("correction") \cup {Fresh} ELSE OfArity("correction")
           /\ MovedReviews' =
                IF row.moved /\ Arity[stage] = "branching" THEN MovedReviews \cup {Fresh} ELSE MovedReviews
           /\ Usable \subseteq Usable'
           /\ Qualifying \subseteq Qualifying'
<1>1. /\ DOMAIN history' = DOMAIN history \cup {Fresh}
      /\ history'[Fresh] = row
      /\ \A k \in DOMAIN history : history'[k] = history[k]
  BY CommitExtends
<1>2. Fresh \notin DOMAIN history
  BY Positions
<1>3. row.stage = stage
  BY DEF Commits
<1>4. Moves' = IF row.moved THEN Moves \cup {Fresh} ELSE Moves
  BY <1>1, <1>2 DEF Moves
<1>5. Held' = IF row.moved THEN Held ELSE Held \cup {Fresh}
  BY <1>1, <1>2 DEF Held
<1>6. ASSUME NEW a \in Arities
      PROVE  {k \in DOMAIN history' : Arity[history'[k].stage] = a} =
                IF Arity[stage] = a THEN OfArity(a) \cup {Fresh} ELSE OfArity(a)
  BY <1>1, <1>2, <1>3 DEF OfArity
<1>7. OfArity("branching")' =
        IF Arity[stage] = "branching" THEN OfArity("branching") \cup {Fresh} ELSE OfArity("branching")
  BY <1>6 DEF OfArity, Arities
<1>8. OfArity("correction")' =
        IF Arity[stage] = "correction" THEN OfArity("correction") \cup {Fresh} ELSE OfArity("correction")
  BY <1>6 DEF OfArity, Arities
<1>9. OfArity("branching") \subseteq DOMAIN history
  BY Positions
<1>10. MovedReviews' =
         IF row.moved /\ Arity[stage] = "branching" THEN MovedReviews \cup {Fresh} ELSE MovedReviews
  BY <1>1, <1>2, <1>7, <1>9 DEF MovedReviews
<1>11. Usable \subseteq Usable'
  BY <1>1, <1>7, <1>9 DEF Usable
<1>12. Qualifying \subseteq Qualifying'
  BY <1>8, <1>11 DEF Qualifying
<1> QED BY <1>4, <1>5, <1>7, <1>8, <1>10, <1>11, <1>12

LEMMA StaySets ==
    ASSUME TypesFit, RowsStay
    PROVE  /\ Moves' = Moves /\ Held' = Held
           /\ OfArity("branching")' = OfArity("branching")
           /\ OfArity("correction")' = OfArity("correction")
           /\ MovedReviews' = MovedReviews
           /\ Usable' = Usable /\ Qualifying' = Qualifying
<1>1. Moves' = Moves /\ Held' = Held
  BY DEF RowsStay, Moves, Held
<1>2. /\ OfArity("branching")' = OfArity("branching")
      /\ OfArity("correction")' = OfArity("correction")
  BY DEF RowsStay, OfArity
<1>3. OfArity("branching") \subseteq DOMAIN history
  BY Positions
<1>4. MovedReviews' = MovedReviews /\ Usable' = Usable
  BY <1>2, <1>3 DEF RowsStay, MovedReviews, Usable
<1>5. Qualifying' = Qualifying
  BY <1>2, <1>4 DEF Qualifying
<1> QED BY <1>1, <1>2, <1>4, <1>5

-----------------------------------------------------------------------------
\* The parts of the invariant, step by step.

LEMMA TypesStep ==
    ASSUME TypesFit, [Next]_vars
    PROVE  TypesFit'
<1>1. history' \in Seq(CommittedRuns) /\ stage' \in StageNames(Profile)
  <2>1. CASE RowsStay
    BY <2>1 DEF RowsStay, TypesFit
  <2>2. ASSUME NEW row \in CommittedRuns, Commits(row)
        PROVE  history' \in Seq(CommittedRuns) /\ stage' \in StageNames(Profile)
    BY <2>2, CommitExtends DEF Commits, TypesFit
  <2> QED BY <2>1, <2>2, StepShapes
<1>2. /\ resumes' \in Nat /\ tampers' \in Nat
      /\ status' \in {"queued", "waiting_user", "blocked"} \cup TERMINAL_STATUSES
  <2>1. CASE ReviewRun \/ CorrectionRun
    <3>1. resumes' = resumes /\ tampers' = tampers
      BY <2>1 DEF ReviewRun, CorrectionRun, Commit
    <3>2. status' = "waiting_user" \/ status' = StatusAt(stage')
      BY <2>1 DEF ReviewRun, CorrectionRun, Commit
    <3>3. ASSUME NEW s \in StageNames(Profile)
          PROVE  StatusAt(s) \in {"queued"} \cup TERMINAL_STATUSES
      BY ProfileAssumption DEF StatusAt, ValidProfile
    <3> QED BY <1>1, <3>1, <3>2, <3>3 DEF TypesFit
  <2>2. CASE RunFails \/ Resume \/ UNCHANGED vars
    BY <2>2 DEF RunFails, Resume, vars, TypesFit
  <2>3. ASSUME NEW k \in OfArity("branching"), Tamper(k)
        PROVE  resumes' \in Nat /\ tampers' \in Nat /\ status' = status
    BY <2>3 DEF Tamper, TypesFit
  <2> QED BY <2>1, <2>2, <2>3 DEF Next, Work, TypesFit
<1> QED BY <1>1, <1>2 DEF TypesFit

LEMMA EnteredStep ==
    ASSUME TypesFit, Entered, [Next]_vars
    PROVE  Entered'
<1>1. CASE RowsStay
  BY <1>1 DEF RowsStay, Entered
<1>2. ASSUME NEW row \in CommittedRuns, Commits(row) PROVE Entered'
  <2>1. stage' \in ReachableStages(Profile)
    BY <1>2, ReachableClosed DEF Commits, Entered
  <2>2. row.stage = stage /\ Arity[stage] \in {"branching", "correction"}
    BY <1>2 DEF Commits
  <2> QED BY <1>2, <2>1, <2>2, CommitExtends DEF Entered
<1> QED BY <1>1, <1>2, StepShapes

LEMMA WalkedStep ==
    ASSUME TypesFit, Walked, [Next]_vars
    PROVE  Walked'
<1>1. CASE RowsStay
  <2>1. Moves' = Moves /\ stage' = stage
    BY <1>1, StaySets DEF RowsStay
  <2>2. \A k \in Moves : history'[k].stage = history[k].stage
    BY <1>1 DEF RowsStay, Moves
  <2> QED BY <2>1, <2>2 DEF Walked
<1>2. ASSUME NEW row \in CommittedRuns, Commits(row) PROVE Walked'
  <2>1. \A k \in Moves : history'[k] = history[k] /\ k < Fresh /\ k \in Nat
    BY <1>2, CommitExtends, Positions DEF Moves
  <2>2. Fresh \in Nat /\ history'[Fresh].stage = stage
    BY <1>2, CommitExtends, Positions DEF Commits
  <2>3. CASE ~row.moved
    <3>1. Moves' = Moves /\ stage' = stage
      BY <1>2, <2>3, CommitSets DEF Commits
    <3> QED BY <2>1, <3>1 DEF Walked
  <2>4. CASE row.moved
    <3>1. Moves' = Moves \cup {Fresh} /\ stage' \in Successors(Profile, stage)
      BY <1>2, <2>4, CommitSets DEF Commits
    <3>2. ASSUME NEW m \in Moves
          PROVE  \E s \in Successors(Profile, history[m].stage) :
                    \E k \in Moves' : k > m /\ history'[k].stage = s
                                      /\ \A i \in Moves' : i <= m \/ k <= i
      <4>1. PICK s \in Successors(Profile, history[m].stage) :
              \/ stage = s /\ \A k \in Moves : k <= m
              \/ \E k \in Moves : k > m /\ history[k].stage = s /\ \A i \in Moves : i <= m \/ k <= i
        BY DEF Walked
      <4>2. CASE stage = s /\ \A k \in Moves : k <= m
        <5>1. Fresh > m /\ \A i \in Moves' : i <= m \/ Fresh <= i
          BY <2>1, <2>2, <3>1, <4>2
        <5> QED BY <2>2, <3>1, <4>2, <5>1
      <4>3. ASSUME NEW k \in Moves, k > m, history[k].stage = s, \A i \in Moves : i <= m \/ k <= i
            PROVE  k \in Moves' /\ history'[k].stage = s /\ \A i \in Moves' : i <= m \/ k <= i
        BY <2>1, <2>2, <3>1, <4>3
      <4> QED BY <4>1, <4>2, <4>3
    <3>3. \A k \in Moves' : k <= Fresh
      BY <2>1, <2>2, <3>1
    <3>4. ASSUME NEW m \in Moves'
          PROVE  \E s \in Successors(Profile, history'[m].stage) :
                    \/ stage' = s /\ \A k \in Moves' : k <= m
                    \/ \E k \in Moves' : k > m /\ history'[k].stage = s
                                         /\ \A i \in Moves' : i <= m \/ k <= i
      <4>1. CASE m = Fresh
        BY <4>1, <2>2, <3>1, <3>3
      <4>2. CASE m \in Moves
        <5>1. history'[m].stage = history[m].stage
          BY <2>1, <4>2
        <5>2. \E s \in Successors(Profile, history[m].stage) :
                    \E k \in Moves' : k > m /\ history'[k].stage = s
                                      /\ \A i \in Moves' : i <= m \/ k <= i
          BY <3>2, <4>2
        <5> QED BY <5>1, <5>2
      <4> QED BY <3>1, <4>1, <4>2
    <3> QED BY <3>4 DEF Walked
  <2> QED BY <2>3, <2>4
<1> QED BY <1>1, <1>2, StepShapes

LEMMA LeftStep ==
    ASSUME TypesFit, LeftByReview, [Next]_vars
    PROVE  LeftByReview'
<1>1. CASE RowsStay
  BY <1>1, StaySets DEF RowsStay, LeftByReview
<1>2. ASSUME NEW row \in CommittedRuns, Commits(row) PROVE LeftByReview'
  <2> DEFINE B == OfArity("branching")
             C == OfArity("correction")
  <2>1. /\ B' = IF Arity[stage] = "branching" THEN B \cup {Fresh} ELSE B
        /\ C' = IF Arity[stage] = "correction" THEN C \cup {Fresh} ELSE C
        /\ MovedReviews' = IF row.moved /\ Arity[stage] = "branching" THEN MovedReviews \cup {Fresh} ELSE MovedReviews
        /\ ~row.moved => stage' = stage
        /\ Arity[stage] \in {"branching", "correction"}
    BY <1>2, CommitSets DEF Commits
  <2>2. /\ Fresh \in Nat
        /\ \A k \in B \cup C \cup MovedReviews : k \in Nat /\ k < Fresh
    BY Positions
  <2>3. \A k \in B : /\ Arity[stage] # "branching" => \E j \in MovedReviews : k <= j
                     /\ \A c \in C : k < c => \E j \in MovedReviews : k <= j /\ j < c
    BY DEF LeftByReview
  <2>4. ASSUME NEW k \in B', Arity[stage'] # "branching" PROVE \E j \in MovedReviews' : k <= j
    <3>1. CASE Arity[stage] = "branching"
      BY <2>1, <2>2, <2>4, <3>1
    <3>2. CASE Arity[stage] # "branching"
      BY <2>1, <2>2, <2>3, <2>4, <3>2
    <3> QED BY <3>1, <3>2
  <2>5. ASSUME NEW k \in B', NEW c \in C', k < c PROVE \E j \in MovedReviews' : k <= j /\ j < c
    <3>1. CASE c \in C
      BY <2>1, <2>2, <2>3, <2>5, <3>1
    <3>2. CASE c \notin C
      BY <2>1, <2>2, <2>3, <2>5, <3>2
    <3> QED BY <3>1, <3>2
  <2> HIDE DEF B, C
  <2> QED BY <2>4, <2>5 DEF LeftByReview, B, C
<1> QED BY <1>1, <1>2, StepShapes

LEMMA RecordStep ==
    ASSUME TypesFit, MovesOnRecord, [Next]_vars
    PROVE  MovesOnRecord'
<1>1. CASE RowsStay
  <2>1. MovedReviews' = MovedReviews /\ Qualifying' = Qualifying /\ MovedReviews \subseteq DOMAIN history
    BY <1>1, StaySets, Positions
  <2> QED BY <1>1, <2>1 DEF RowsStay, MovesOnRecord
<1>2. ASSUME NEW row \in CommittedRuns, Commits(row), Scored(row) PROVE MovesOnRecord'
  <2>1. /\ MovedReviews' = IF row.moved /\ Arity[stage] = "branching" THEN MovedReviews \cup {Fresh} ELSE MovedReviews
        /\ Qualifying \subseteq Qualifying'
        /\ MovedReviews \subseteq DOMAIN history
    BY <1>2, CommitSets, Positions
  <2>2. history'[Fresh] = row /\ \A k \in DOMAIN history : history'[k] = history[k]
    BY <1>2, CommitExtends
  <2>3. row.record \in Records
    BY DEF CommittedRuns
  <2>4. row.record.shape = "first" => row.record.resolved = {}
    BY <2>3 DEF Records, NoRecord, First, Repeat
  <2>5. row.moved /\ Arity[stage] = "branching" =>
          /\ row.record.shape # "none"
          /\ Qualifying = {} => row.record.resolved = {}
    BY <1>2, <2>4 DEF Scored, Accepted
  <2> QED BY <2>1, <2>2, <2>5 DEF MovesOnRecord
<1> QED BY <1>1, <1>2, StepShapes

LEMMA HoldsStep ==
    ASSUME TypesFit, HoldsPaid, [Next]_vars
    PROVE  HoldsPaid'
<1>1. IsFiniteSet(Held) /\ Cardinality(Held) \in Nat
  <2>1. IsFiniteSet(1..Len(history)) /\ Held \subseteq 1..Len(history)
    BY FS_Interval, Positions
  <2> QED BY <2>1, FS_Subset, FS_CardinalityType
<1>2. resumes \in Nat
  BY DEF TypesFit
<1>3. CASE RowsStay
  <2>1. Held' = Held
    BY <1>3, StaySets
  <2>2. \/ status' = status /\ resumes' = resumes
        \/ status = "queued" /\ status' # "queued" /\ resumes' = resumes
        \/ status # "queued" /\ status' = "queued" /\ resumes' = resumes + 1
    BY <1>3 DEF RowsStay
  <2> QED BY <1>1, <1>2, <2>1, <2>2 DEF HoldsPaid
<1>4. ASSUME NEW row \in CommittedRuns, Commits(row) PROVE HoldsPaid'
  <2>1. status = "queued" /\ resumes' = resumes /\ (~row.moved => status' = "waiting_user")
    BY <1>4 DEF Commits
  <2>2. Cardinality(Held) <= resumes
    BY <1>1, <1>2, <2>1 DEF HoldsPaid
  <2>3. Held' = IF row.moved THEN Held ELSE Held \cup {Fresh}
    BY <1>4, CommitSets
  <2>4. Fresh \notin Held
    BY Positions
  <2>5. Cardinality(Held \cup {Fresh}) = Cardinality(Held) + 1
    BY <1>1, <2>4, FS_AddElement
  <2> QED BY <1>1, <1>2, <2>1, <2>2, <2>3, <2>5 DEF HoldsPaid
<1> QED BY <1>3, <1>4, StepShapes

\* The baseline of a repeat review is a review that moved the task, the last
\* one a correction followed.
LEMMA Baseline ==
    ASSUME TypesFit, LeftByReview, MovesOnRecord
    PROVE  /\ MovedReviews \subseteq Usable
           /\ \A j \in MovedReviews : \A c \in OfArity("correction") : j < c => j \in Qualifying
           /\ Qualifying # {} =>
                /\ Max(Qualifying) \in Qualifying
                /\ Max(Qualifying) \in MovedReviews
                /\ \A q \in Qualifying : q <= Max(Qualifying)
<1>1. MovedReviews \subseteq Usable
  BY DEF MovesOnRecord, Usable, MovedReviews
<1>2. \A j \in MovedReviews : \A c \in OfArity("correction") : j < c => j \in Qualifying
  BY <1>1 DEF Qualifying
<1>3. ASSUME Qualifying # {}
      PROVE  /\ Max(Qualifying) \in Qualifying
             /\ Max(Qualifying) \in MovedReviews
             /\ \A q \in Qualifying : q <= Max(Qualifying)
  <2>1. Qualifying \in SUBSET (1..Len(history)) /\ Len(history) \in Nat
    BY Positions
  <2>2. Max(Qualifying) \in Qualifying /\ \A q \in Qualifying : q <= Max(Qualifying)
    BY <1>3, <2>1, MaxLatest
  <2> DEFINE p == Max(Qualifying)
  <2> HIDE DEF p
  <2>3. p \in Qualifying /\ \A q \in Qualifying : q <= p
    BY <2>2 DEF p
  <2>4. PICK c \in OfArity("correction") : c > p
    BY <2>3 DEF Qualifying
  <2>5. p \in OfArity("branching") /\ p \in Nat /\ c \in Nat
    BY <2>3, <2>4, Positions DEF Qualifying, Usable
  <2>6. PICK j \in MovedReviews : p <= j /\ j < c
    BY <2>4, <2>5 DEF LeftByReview
  <2>7. j \in Qualifying /\ j \in Nat
    BY <1>2, <2>6, Positions
  <2>8. j = p
    BY <2>3, <2>5, <2>6, <2>7
  <2> QED BY <2>2, <2>6, <2>8 DEF p
<1> QED BY <1>1, <1>2, <1>3

LEMMA ShrinkStep ==
    ASSUME TypesFit, LeftByReview, MovesOnRecord, ReviewsShrink, [Next]_vars
    PROVE  ReviewsShrink'
<1> DEFINE C == OfArity("correction")
           L(k) == history[k].record.live
<1>1. /\ MovedReviews \subseteq DOMAIN history /\ C \subseteq DOMAIN history
      /\ Fresh \in Nat /\ \A k \in DOMAIN history : k \in Nat /\ k < Fresh
      /\ MovedReviews \cap C = {}
  BY Positions DEF MovedReviews
<1>2. CASE RowsStay
  <2>1. MovedReviews' = MovedReviews /\ C' = C
    BY <1>2, StaySets
  <2>2. \A k \in MovedReviews : history'[k].record = history[k].record
    BY <1>1, <1>2 DEF RowsStay
  <2> QED BY <2>1, <2>2 DEF ReviewsShrink, LastBefore
<1>3. ASSUME NEW row \in CommittedRuns, Commits(row), Scored(row) PROVE ReviewsShrink'
  <2>1. /\ C' = IF Arity[stage] = "correction" THEN C \cup {Fresh} ELSE C
        /\ MovedReviews' = IF row.moved /\ Arity[stage] = "branching" THEN MovedReviews \cup {Fresh} ELSE MovedReviews
    BY <1>3, CommitSets
  <2>2. history'[Fresh] = row /\ \A k \in MovedReviews : history'[k] = history[k]
    BY <1>1, <1>3, CommitExtends
  <2>3. SUFFICES ASSUME NEW c \in C', NEW j \in MovedReviews', NEW k \in MovedReviews',
                        c < k, j < c, \A m \in MovedReviews' : m < c => m <= j
                 PROVE  history'[k].record.live \subseteq history'[j].record.live
                        /\ history'[k].record.live # history'[j].record.live
    BY DEF ReviewsShrink, LastBefore
  <2>4. k <= Fresh /\ k \in Nat /\ (k # Fresh => k \in MovedReviews)
    BY <1>1, <2>1
  <2>5. c \in C /\ c \in Nat /\ c < Fresh
    BY <1>1, <2>1, <2>3, <2>4
  <2>6. j \in MovedReviews /\ j \in Nat /\ history'[j] = history[j]
    BY <1>1, <2>1, <2>2, <2>3, <2>5
  <2>7. LastBefore(j, c)
    BY <2>1, <2>3 DEF LastBefore
  <2>8. CASE k # Fresh
    BY <2>2, <2>3, <2>4, <2>5, <2>6, <2>7, <2>8 DEF ReviewsShrink
  <2>9. CASE k = Fresh
    <3>1. row.moved /\ Arity[stage] = "branching"
      BY <1>1, <2>1, <2>3, <2>9
    <3>2. j \in Qualifying
      BY <2>3, <2>5, <2>6, Baseline
    <3> DEFINE p == Max(Qualifying)
    <3>3. p \in MovedReviews /\ j <= p /\ p \in Nat
      BY <1>1, <3>2, Baseline
    <3>4. row.record.live \subseteq L(p) /\ row.record.live # L(p)
      BY <1>3, <3>1, <3>2 DEF Scored, Accepted, PriorLive
    <3> HIDE DEF p
    <3>5. p # j => L(p) \subseteq L(j)
      <4>1. p # j => p > c
        BY <1>1, <2>5, <2>6, <2>7, <3>3 DEF LastBefore
      <4> QED BY <2>5, <2>6, <2>7, <3>3, <4>1 DEF ReviewsShrink
    <3>6. L(p) \subseteq L(j)
      BY <3>5
    <3>7. row.record.live \subseteq L(j) /\ row.record.live # L(j)
      BY <3>4, <3>6
    <3> QED BY <2>2, <2>6, <2>9, <3>7
  <2> QED BY <2>8, <2>9
<1> QED BY <1>2, <1>3, StepShapes

LEMMA ResolvedStep ==
    ASSUME TypesFit, LeftByReview, MovesOnRecord, ResolvedStaysResolved, [Next]_vars
    PROVE  ResolvedStaysResolved'
<1>1. /\ MovedReviews \subseteq DOMAIN history
      /\ Fresh \in Nat /\ \A k \in DOMAIN history : k \in Nat /\ k < Fresh
  BY Positions
<1>2. CASE RowsStay
  <2>1. MovedReviews' = MovedReviews
    BY <1>2, StaySets
  <2>2. \A k \in MovedReviews : history'[k].record = history[k].record
    BY <1>1, <1>2 DEF RowsStay
  <2> QED BY <2>1, <2>2 DEF ResolvedStaysResolved
<1>3. ASSUME NEW row \in CommittedRuns, Commits(row), Scored(row) PROVE ResolvedStaysResolved'
  <2>1. MovedReviews' = IF row.moved /\ Arity[stage] = "branching" THEN MovedReviews \cup {Fresh} ELSE MovedReviews
    BY <1>3, CommitSets
  <2>2. history'[Fresh] = row /\ \A k \in MovedReviews : history'[k] = history[k]
    BY <1>1, <1>3, CommitExtends
  <2>3. SUFFICES ASSUME NEW j \in MovedReviews', NEW k \in MovedReviews', j < k
                 PROVE  history'[j].record.resolved \cap history'[k].record.live = {}
    BY DEF ResolvedStaysResolved
  <2>4. k <= Fresh /\ k \in Nat /\ (k # Fresh => k \in MovedReviews) /\ j \in MovedReviews
    BY <1>1, <2>1, <2>3
  <2>5. CASE k # Fresh
    BY <2>2, <2>3, <2>4, <2>5 DEF ResolvedStaysResolved
  <2>6. CASE k = Fresh
    <3>1. row.moved /\ Arity[stage] = "branching"
      BY <1>1, <2>1, <2>3, <2>6
    <3>2. CASE Qualifying = {}
      BY <2>2, <2>4, <2>6, <3>2 DEF MovesOnRecord
    <3>3. CASE Qualifying # {}
      <4>1. row.record.live \cap HistoricalResolved = {}
        BY <1>3, <3>1, <3>3 DEF Scored, Accepted
      <4>2. j \in Usable
        BY <2>4, Baseline
      <4>3. history[j].record.resolved \subseteq HistoricalResolved
        BY <4>2 DEF HistoricalResolved
      <4> QED BY <2>2, <2>4, <2>6, <4>1, <4>3
    <3> QED BY <3>2, <3>3
  <2> QED BY <2>5, <2>6
<1> QED BY <1>2, <1>3, StepShapes

-----------------------------------------------------------------------------
\* How many runs can move the task: no two of them share their stage and the
\* size of the set their progress is measured from.

\* The reviews a run's progress is measured from: for a review the accepted
\* ones that corrections answered before it, for a correction all before it.
Anchors(m) ==
    {j \in MovedReviews :
        IF Arity[history[m].stage] = "branching"
        THEN \E c \in OfArity("correction") : j < c /\ c < m
        ELSE j < m}

Level(m) ==
    IF Anchors(m) = {} THEN Cardinality(Identity) + 1
    ELSE Cardinality(history[Max(Anchors(m))].record.live)

\* Between two moves at one stage there is a review and a correction, because
\* every cycle an execution can enter has both (_gate_reachable).
LEMMA CycleHasBoth ==
    ASSUME TypesFit, Entered, Walked, NEW m1 \in Moves, NEW m2 \in Moves, m1 < m2,
           history[m1].stage = history[m2].stage,
           NEW a \in {"branching", "correction"},
           \A k \in Moves : m1 <= k /\ k < m2 => Arity[history[k].stage] = a
    PROVE  FALSE
<1> DEFINE Between == {k \in Moves : m1 <= k /\ k < m2}
           Loop == {history[k].stage : k \in Between}
<1>1. \A k \in Moves : k \in Nat /\ k \in DOMAIN history
  BY Positions
<1>2. m1 \in Between
  BY <1>1
<1>3. ASSUME NEW k \in Between PROVE Successors(Profile, history[k].stage) \cap Loop # {}
  <2>1. PICK s \in Successors(Profile, history[k].stage) :
          \/ stage = s /\ \A i \in Moves : i <= k
          \/ \E n \in Moves : n > k /\ history[n].stage = s /\ \A i \in Moves : i <= k \/ n <= i
    BY DEF Walked
  <2>2. ~(\A i \in Moves : i <= k)
    BY <1>1
  <2>3. PICK n \in Moves : n > k /\ history[n].stage = s /\ \A i \in Moves : i <= k \/ n <= i
    BY <2>1, <2>2
  <2>4. n <= m2
    BY <1>1, <2>3
  <2>5. s \in Loop
    BY <1>1, <1>2, <2>3, <2>4
  <2> QED BY <2>5
<1>4. \A s \in Loop : Successors(Profile, s) \cap Loop # {}
  BY <1>3
<1>5. Loop # {}
  BY <1>2
<1>6. \A s \in Loop : s \in ReachableStages(Profile) /\ StageArity(Profile, s) = a
  <2>1. \A k \in Between : /\ history[k].stage \in ReachableStages(Profile)
                           /\ Arity[history[k].stage] = a
    BY <1>1 DEF Entered
  <2>2. \A s \in ReachableStages(Profile) : Arity[s] = StageArity(Profile, s)
    BY DEF ReachableStages, Arity
  <2> QED BY <2>1, <2>2
<1> HIDE DEF Loop
<1>7. CASE a = "branching"
  <2>1. HasCycle(Profile, {s \in ReachableStages(Profile) : StageArity(Profile, s) # "correction"})
    BY <1>4, <1>5, <1>6, <1>7 DEF HasCycle
  <2> QED BY <2>1, ProfileAssumption DEF GateReachable
<1>8. CASE a = "correction"
  <2>1. HasCycle(Profile, {s \in ReachableStages(Profile) : StageArity(Profile, s) # "branching"})
    BY <1>4, <1>5, <1>6, <1>8 DEF HasCycle
  <2> QED BY <2>1, ProfileAssumption DEF GateReachable
<1> QED BY <1>7, <1>8

LEMMA LiveTypes ==
    ASSUME TypesFit, NEW k \in DOMAIN history
    PROVE  /\ history[k].record.live \subseteq Identity
           /\ IsFiniteSet(history[k].record.live)
           /\ Cardinality(history[k].record.live) \in 0..Cardinality(Identity)
<1>1. history[k].record \in Records
  BY Positions DEF CommittedRuns
<1>2. history[k].record.live \subseteq Identity
  BY <1>1 DEF Records, NoRecord, First, Repeat
<1>3. /\ IsFiniteSet(history[k].record.live)
      /\ Cardinality(history[k].record.live) <= Cardinality(Identity)
  BY <1>2, FiniteAssumption, FS_Subset
<1>4. Cardinality(history[k].record.live) \in Nat /\ Cardinality(Identity) \in Nat
  BY <1>3, FiniteAssumption, FS_CardinalityType
<1> QED BY <1>2, <1>3, <1>4

LEMMA AnchorLatest ==
    ASSUME TypesFit, NEW m \in Moves
    PROVE  /\ Anchors(m) \subseteq MovedReviews
           /\ Anchors(m) # {} => /\ Max(Anchors(m)) \in Anchors(m)
                                 /\ \A j \in Anchors(m) : j <= Max(Anchors(m))
           /\ Level(m) \in 0..(Cardinality(Identity) + 1)
           /\ Anchors(m) # {} => Level(m) <= Cardinality(Identity)
<1>1. Anchors(m) \subseteq MovedReviews
  BY DEF Anchors
<1>2. MovedReviews \subseteq DOMAIN history /\ DOMAIN history = 1..Len(history) /\ Len(history) \in Nat
  BY Positions
<1>3. Anchors(m) # {} => /\ Max(Anchors(m)) \in Anchors(m)
                         /\ \A j \in Anchors(m) : j <= Max(Anchors(m))
  BY <1>1, <1>2, MaxLatest
<1>4. Anchors(m) # {} => Cardinality(history[Max(Anchors(m))].record.live) \in 0..Cardinality(Identity)
  BY <1>1, <1>2, <1>3, LiveTypes
<1>5. Cardinality(Identity) \in Nat
  BY FiniteAssumption, FS_CardinalityType
<1> QED BY <1>1, <1>3, <1>4, <1>5 DEF Level

\* A review measured from an earlier one is smaller.
LEMMA SmallerLive ==
    ASSUME TypesFit, ReviewsShrink, NEW j \in MovedReviews, NEW k \in MovedReviews,
           NEW c \in OfArity("correction"), c < k, LastBefore(j, c)
    PROVE  Cardinality(history[k].record.live) # Cardinality(history[j].record.live)
<1>1. /\ history[k].record.live \subseteq history[j].record.live
      /\ history[k].record.live # history[j].record.live
  BY DEF ReviewsShrink
<1>2. IsFiniteSet(history[j].record.live)
  BY Positions, LiveTypes
<1> QED BY <1>1, <1>2, FS_Subset

LEMMA LevelsDiffer ==
    ASSUME TypesFit, Entered, Walked, ReviewsShrink,
           NEW m1 \in Moves, NEW m2 \in Moves, m1 < m2,
           history[m1].stage = history[m2].stage
    PROVE  Level(m1) # Level(m2)
<1> DEFINE a == Arity[history[m1].stage]
           C == OfArity("correction")
           A1 == Anchors(m1)
           A2 == Anchors(m2)
<1>1. /\ \A k \in Moves : k \in Nat /\ k \in DOMAIN history
      /\ \A c \in C : c \in Nat
      /\ \A j \in MovedReviews : j \in Nat /\ j \in Moves
      /\ MovedReviews \cap C = {}
  BY Positions DEF MovedReviews
<1>2. /\ a \in {"branching", "correction"} /\ a = Arity[history[m2].stage]
      /\ a = "branching" => m1 \in MovedReviews
      /\ a = "correction" => m1 \in C
  BY <1>1 DEF Entered, OfArity, MovedReviews, Moves
<1>3. /\ A1 = {j \in MovedReviews : IF a = "branching" THEN \E c \in C : j < c /\ c < m1 ELSE j < m1}
      /\ A2 = {j \in MovedReviews : IF a = "branching" THEN \E c \in C : j < c /\ c < m2 ELSE j < m2}
  BY <1>2 DEF Anchors
<1>4. A1 \subseteq A2 /\ A2 \subseteq MovedReviews /\ \A j \in A1 : j < m1
  BY <1>1, <1>2, <1>3
<1>5. /\ A1 # {} => Max(A1) \in A1 /\ \A j \in A1 : j <= Max(A1)
      /\ A2 # {} => Max(A2) \in A2 /\ \A j \in A2 : j <= Max(A2)
      /\ Level(m1) \in 0..(Cardinality(Identity) + 1)
      /\ A2 # {} => Level(m2) <= Cardinality(Identity)
      /\ Level(m2) \in 0..(Cardinality(Identity) + 1)
  BY AnchorLatest
<1>6. Cardinality(Identity) \in Nat
  BY FiniteAssumption, FS_CardinalityType
<1>7. /\ A1 = {} => Level(m1) = Cardinality(Identity) + 1
      /\ A1 # {} => Level(m1) = Cardinality(history[Max(A1)].record.live)
      /\ A2 # {} => Level(m2) = Cardinality(history[Max(A2)].record.live)
  BY DEF Level
<1> HIDE DEF A1, A2, C, a
\* A review after m1 that the progress of m2 is measured from is smaller.
<1>8. ASSUME Level(m1) = Level(m2) PROVE \A j \in A2 : j < m1
  <2>1. CASE A1 = {}
    BY <1>5, <1>6, <1>7, <1>8, <2>1
  <2>2. CASE A1 # {}
    <3> DEFINE p1 == Max(A1)
               p2 == Max(A2)
    <3> HIDE DEF p1, p2
    <3>1. /\ p1 \in A1 /\ \A j \in A1 : j <= p1
          /\ p2 \in A2 /\ \A j \in A2 : j <= p2
      BY <1>4, <1>5, <2>2 DEF p1, p2
    <3>2. p1 \in Nat /\ p2 \in Nat /\ p1 < m1 /\ p1 \in MovedReviews /\ p2 \in MovedReviews
      BY <1>1, <1>4, <3>1
    <3>3. CASE p1 = p2
      BY <1>1, <1>4, <3>1, <3>2, <3>3
    <3>4. CASE p1 # p2
      <4>1. p2 \notin A1
        BY <1>4, <3>1, <3>2, <3>4
      <4>2. PICK c \in C : p1 < c /\ c <= m1 /\ \A j \in MovedReviews : j < c => j \in A1
        <5>1. CASE a = "branching"
          <6>1. PICK c \in C : p1 < c /\ c < m1
            BY <1>3, <3>1, <5>1
          <6>2. \A j \in MovedReviews : j < c => j \in A1
            BY <1>3, <5>1, <6>1
          <6> QED BY <1>1, <6>1, <6>2
        <5>2. CASE a = "correction"
          BY <1>1, <1>2, <1>3, <3>2, <5>2
        <5> QED BY <1>2, <5>1, <5>2
      <4>3. c < p2
        BY <1>1, <3>2, <4>1, <4>2
      <4>4. LastBefore(p1, c)
        BY <3>1, <4>2 DEF LastBefore
      <4>5. c \in OfArity("correction")
        BY DEF C
      <4>6. Cardinality(history[p2].record.live) # Cardinality(history[p1].record.live)
        BY <3>2, <4>3, <4>4, <4>5, SmallerLive
      <4> QED BY <1>4, <1>7, <1>8, <2>2, <3>1, <4>6 DEF p1, p2
    <3> QED BY <3>3, <3>4
  <2> QED BY <2>1, <2>2
\* Without one, everything that moved from m1 to m2 has the arity of both.
<1>9. ASSUME \A j \in A2 : j < m1 PROVE \A k \in Moves : m1 <= k /\ k < m2 => Arity[history[k].stage] = a
  <2> SUFFICES ASSUME NEW k \in Moves, m1 <= k, k < m2, Arity[history[k].stage] # a PROVE FALSE
    OBVIOUS
  <2>1. Arity[history[k].stage] \in {"branching", "correction"} /\ k \in Nat /\ k \in DOMAIN history
    BY <1>1 DEF Entered
  <2>2. CASE a = "branching"
    <3>1. k \in C /\ k # m1
      BY <1>2, <2>1, <2>2 DEF OfArity, C, a
    <3>2. m1 \in A2
      BY <1>1, <1>2, <1>3, <2>2, <3>1
    <3> QED BY <1>1, <1>9, <3>2
  <2>3. CASE a = "correction"
    <3>1. k \in MovedReviews
      BY <2>1, <2>3 DEF MovedReviews, OfArity, Moves
    <3>2. k \in A2
      BY <1>3, <2>3, <3>1
    <3> QED BY <1>1, <1>9, <3>2
  <2> QED BY <1>2, <2>2, <2>3
<1>10. (\A k \in Moves : m1 <= k /\ k < m2 => Arity[history[k].stage] = a) => FALSE
  BY <1>2, CycleHasBoth
<1> QED BY <1>8, <1>9, <1>10

LEMMA MovesBounded ==
    ASSUME TypesFit, Entered, Walked, ReviewsShrink
    PROVE  Cardinality(Moves) <= (Cardinality(Identity) + 2) * Cardinality(Working)
<1> DEFINE Levels == 0..(Cardinality(Identity) + 1)
           place == [m \in Moves |-> <<Level(m), history[m].stage>>]
<1>1. Cardinality(Identity) \in Nat
  BY FiniteAssumption, FS_CardinalityType
<1>2. IsFiniteSet(Levels) /\ Cardinality(Levels) = Cardinality(Identity) + 2
  BY <1>1, FS_Interval
<1>3. IsFiniteSet(Working)
  BY FiniteAssumption, FS_Subset DEF Working
<1>4. /\ IsFiniteSet(Levels \X Working)
      /\ Cardinality(Levels \X Working) = (Cardinality(Identity) + 2) * Cardinality(Working)
  BY <1>2, <1>3, FS_Product
<1>5. IsFiniteSet(Moves)
  <2>1. IsFiniteSet(1..Len(history)) /\ Moves \subseteq 1..Len(history)
    BY FS_Interval, Positions
  <2> QED BY <2>1, FS_Subset
<1>6. \A m \in Moves : m \in Nat /\ m \in DOMAIN history
  BY Positions
<1>7. place \in [Moves -> Levels \X Working]
  <2>1. ASSUME NEW m \in Moves PROVE Level(m) \in Levels /\ history[m].stage \in Working
    <3>1. Level(m) \in Levels
      BY AnchorLatest
    <3>2. history[m].stage \in StageNames(Profile) /\ Arity[history[m].stage] # "neither"
      BY <1>6 DEF Entered, ReachableStages
    <3> QED BY <3>1, <3>2, GraphTypes DEF Working
  <2> QED BY <2>1
<1>8. \A m1, m2 \in Moves : m1 # m2 => place[m1] # place[m2]
  <2>1. \A m1, m2 \in Moves : m1 < m2 => place[m1] # place[m2]
    BY LevelsDiffer
  <2>2. \A m1, m2 \in Moves : m1 # m2 => m1 < m2 \/ m2 < m1
    BY <1>6
  <2> QED BY <2>1, <2>2
<1> HIDE DEF Levels, place
<1>9. ~(Cardinality(Levels \X Working) < Cardinality(Moves))
  BY <1>4, <1>5, <1>7, <1>8, FS_PigeonHole
<1>10. Cardinality(Levels \X Working) \in Nat /\ Cardinality(Moves) \in Nat
  BY <1>4, <1>5, FS_CardinalityType
<1> QED BY <1>4, <1>9, <1>10

LEMMA HistoryBounded ==
    ASSUME TypesFit, Entered, Walked, ReviewsShrink, HoldsPaid
    PROVE  RunsBounded
<1>1. /\ IsFiniteSet(1..Len(history)) /\ Cardinality(1..Len(history)) = Len(history)
      /\ Moves \subseteq 1..Len(history) /\ Held \subseteq 1..Len(history)
      /\ Len(history) \in Nat
  <2>1. /\ Len(history) \in Nat /\ DOMAIN history = 1..Len(history)
        /\ Moves \subseteq DOMAIN history /\ Held \subseteq DOMAIN history
    BY Positions
  <2>2. IsFiniteSet(1..Len(history))
    BY <2>1, FS_Interval
  <2>3. Cardinality(1..Len(history)) = IF 1 > Len(history) THEN 0 ELSE Len(history) - 1 + 1
    BY <2>1, FS_Interval
  <2> QED BY <2>1, <2>2, <2>3
<1>2. /\ IsFiniteSet(Moves) /\ IsFiniteSet(Held)
      /\ Cardinality(Moves) \in Nat /\ Cardinality(Held) \in Nat
  BY <1>1, FS_Subset, FS_CardinalityType
<1>3. Moves \cup Held = 1..Len(history) /\ Moves \cap Held = {}
  BY Positions DEF Moves, Held
<1>4. Len(history) = Cardinality(Moves) + Cardinality(Held)
  <2>1. Cardinality(Moves \cup Held) = Cardinality(Moves) + Cardinality(Held) - Cardinality({})
    BY <1>2, <1>3, FS_Union
  <2>2. Cardinality({}) = 0
    BY FS_EmptySet
  <2>3. Cardinality(Moves \cup Held) = Len(history)
    BY <1>1, <1>3, Zenon
  <2> QED BY <1>2, <2>1, <2>2, <2>3
<1>5. Cardinality(Held) <= resumes + 1 /\ resumes \in Nat
  BY <1>2 DEF HoldsPaid, TypesFit
<1> DEFINE most == (Cardinality(Identity) + 2) * Cardinality(Working)
<1>6. Cardinality(Moves) <= most /\ most \in Nat
  <2>1. Cardinality(Identity) \in Nat /\ Cardinality(Working) \in Nat
    BY FiniteAssumption, FS_Subset, FS_CardinalityType DEF Working
  <2> QED BY <2>1, MovesBounded
<1> HIDE DEF most
<1>7. Len(history) <= most + resumes + 1
  BY <1>1, <1>2, <1>4, <1>5, <1>6
<1> QED BY <1>7 DEF RunsBounded, most

-----------------------------------------------------------------------------
\* The theorems.

LEMMA InitHolds == Init => IInv
<1> SUFFICES ASSUME Init PROVE IInv
  OBVIOUS
<1>1. TypesFit
  BY ProfileAssumption DEF Init, TypesFit, ValidProfile
<1>2. Moves = {} /\ Held = {} /\ OfArity("branching") = {} /\ OfArity("correction") = {}
  BY DEF Init, Moves, Held, OfArity
<1>3. MovedReviews = {}
  BY <1>2 DEF MovedReviews
<1>4. Entered
  BY ReachableClosed DEF Init, Entered
<1>5. HoldsPaid
  <2>1. Cardinality({}) = 0
    BY FS_EmptySet
  <2> QED BY <1>2, <2>1 DEF HoldsPaid, Init
<1> QED BY <1>1, <1>2, <1>3, <1>4, <1>5
      DEF IInv, Walked, LeftByReview, MovesOnRecord, ReviewsShrink, ResolvedStaysResolved

LEMMA StepHolds == IInv /\ [Next]_vars => IInv'
BY TypesStep, EnteredStep, WalkedStep, LeftStep, RecordStep, HoldsStep, ShrinkStep, ResolvedStep DEF IInv

LEMMA IInvHolds == Spec => []IInv
BY InitHolds, StepHolds, PTL DEF Spec

\* The reviews that move an envelope task on have ever fewer live failures,
\* and with its caps lifted the task has no more runs than that allows: what
\* _gate_reachable and _apply_convergence together promise of the loop.
THEOREM LoopEnds == Spec => []LoopProgresses
<1>1. IInv => LoopProgresses
  BY HistoryBounded DEF IInv, LoopProgresses
<1> QED BY <1>1, IInvHolds, PTL

\* A failure an accepted review declared resolved is not live in a later one:
\* _apply_convergence holds a review that brings back any of them.
THEOREM ResolvedForGood == Spec => []ResolvedStaysResolved
<1>1. IInv => ResolvedStaysResolved
  BY DEF IInv
<1> QED BY <1>1, IInvHolds, PTL

\* The record a repeat review is scored against is that of a review that moved
\* the task, though _convergence_context never looks at what moved it.
THEOREM ScoredOnAccepted == Spec => []BaselineAccepted
<1>1. IInv => BaselineAccepted
  <2> SUFFICES ASSUME IInv, Qualifying # {} PROVE history[Max(Qualifying)].moved
    BY DEF BaselineAccepted, RepeatReview
  <2>1. Max(Qualifying) \in MovedReviews
    BY Baseline DEF IInv
  <2> QED BY <2>1 DEF MovedReviews
<1> QED BY <1>1, IInvHolds, PTL

\* No stage that a plan gave the reviewer role has several outcomes.
NoReviewerReviews == \A s \in Reviewers : Arity[s] # "branching"

\* Every review without a record was held for a reason the next one excuses,
\* and until something is removed every artifact is there.
Excused ==
    /\ \A k \in OfArity("branching") :
          history[k].record.shape = "none" => history[k].reason \in CONVERGENCE_UNESTABLISHED_REASONS
    /\ tampers = 0 => \A k \in DOMAIN history : history[k].intact

LEMMA ExcusedStep ==
    ASSUME NoReviewerReviews, TypesFit, Excused, [Next]_vars
    PROVE  Excused'
<1>1. OfArity("branching") \subseteq DOMAIN history
  BY Positions
<1>2. CASE RowsStay
  <2>1. OfArity("branching")' = OfArity("branching")
    BY <1>2, StaySets
  <2> QED BY <1>1, <1>2, <2>1 DEF RowsStay, Excused
<1>3. ASSUME NEW row \in CommittedRuns, Commits(row), Scored(row) PROVE Excused'
  <2>1. OfArity("branching")' =
           IF Arity[stage] = "branching" THEN OfArity("branching") \cup {Fresh} ELSE OfArity("branching")
    BY <1>3, CommitSets
  <2>2. /\ DOMAIN history' = DOMAIN history \cup {Fresh}
        /\ history'[Fresh] = row /\ \A k \in DOMAIN history : history'[k] = history[k]
    BY <1>3, CommitExtends
  <2>3. row.intact /\ tampers' = tampers
    BY <1>3 DEF Commits
  <2>4. Arity[stage] = "branching" /\ row.record.shape = "none"
           => row.reason \in CONVERGENCE_UNESTABLISHED_REASONS
    BY <1>3 DEF Scored, NoReviewerReviews
  <2>5. \A k \in OfArity("branching")' :
           history'[k].record.shape = "none" => history'[k].reason \in CONVERGENCE_UNESTABLISHED_REASONS
    BY <1>1, <2>1, <2>2, <2>4 DEF Excused
  <2>6. tampers' = 0 => \A k \in DOMAIN history' : history'[k].intact
    BY <2>2, <2>3 DEF Excused
  <2> QED BY <2>5, <2>6 DEF Excused
<1> QED BY <1>2, <1>3, StepShapes

\* As long as nothing is removed behind the controller's back, no hold makes
\* the history unreadable for the reviews to come; a plan that makes a
\* branching stage a reviewer breaks this (the run reviewer_baseline).
THEOREM HoldsReadable == NoReviewerReviews => (Spec => []HoldsStayReadable)
<1> SUFFICES ASSUME NoReviewerReviews PROVE Spec => []HoldsStayReadable
  OBVIOUS
<1>1. Init => Excused
  BY DEF Init, Excused, OfArity
<1>2. IInv /\ Excused /\ [Next]_vars => Excused'
  BY ExcusedStep DEF IInv
<1>3. IInv /\ Excused => HoldsStayReadable
  BY Positions DEF IInv, Excused, HoldsStayReadable, ReadError, Unreadable
<1> QED BY <1>1, <1>2, <1>3, IInvHolds, PTL DEF Spec
=============================================================================
