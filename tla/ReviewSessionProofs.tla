------------------------ MODULE ReviewSessionProofs ------------------------
(***************************************************************************)
(* What holds of ReviewSession for every set of series, tasks and answers, *)
(* and for every bound: a provider session is not called again while an    *)
(* earlier call on it is unaccounted for, it is opened once and then       *)
(* resumed, and a ready review is of the candidate it was given.           *)
(***************************************************************************)
EXTENDS ReviewSession, TLAPS

Sid == Imported \cup 1..MaxSessions
TaskFields ==
    [at : {"intake", "queued", "bound", "calling", "returned", "sealed", "orphaned"},
     session : {None} \cup Sid, state : {None, "new", "ready"},
     packet : {None} \cup Nat, run : {None} \cup 1..MaxRuns]
\* A task that has called is about a run.
TaskRow == {row \in TaskFields :
               row.at \in {"calling", "returned", "sealed", "orphaned"} => row.run # None}
RunRow ==
    [task : Task, session : {None} \cup Sid, state : {None, "new", "ready"},
     packet : {None} \cup Nat, spawned : BOOLEAN, bound : BOOLEAN, confirmed : BOOLEAN,
     sealed : BOOLEAN, outcome : {None, "blocked", "ready", "waiting_user"},
     answer : {None} \cup Answer, handed : BOOLEAN]

TypeOK ==
    /\ record \in [Series -> {None} \cup SessionRecord]
    /\ lock \in [Series -> {None} \cup 1..MaxRuns]
    /\ sessions \in 0..MaxSessions
    /\ task \in [Task -> TaskRow]
    /\ candidate \in [Task -> Nat]
    /\ runs \in Seq(RunRow)
    /\ Len(runs) <= MaxRuns

\* Sessions that exist: the next one made up is none of them.
Known == Imported \cup 1..sessions

\* The calls made so far on a session.
CalledOn(x) == {r \in DOMAIN runs : runs[r].spawned /\ runs[r].session = x}

KnownOnly ==
    /\ \A r \in DOMAIN runs : runs[r].spawned => runs[r].session \in Known
    /\ \A s \in Series : record[s] # None => record[s].session \in Known

\* A series that was ever called keeps a record, and no two hold one session.
SeriesHold ==
    /\ \A r \in DOMAIN runs : runs[r].spawned => record[SeriesOf[runs[r].task]] # None
    /\ \A s1, s2 \in Series :
          record[s1] # None /\ record[s2] # None /\ s1 # s2
          => record[s1].session # record[s2].session

\* What is unaccounted for on the session a series holds is what its record
\* says is pending.
PendingTold ==
    /\ \A r \in DOMAIN runs :
          LET held == record[SeriesOf[runs[r].task]] IN
          Unaccounted(r) /\ runs[r].session = held.session => held.pending = r
    /\ \A s \in Series :
          record[s] # None /\ record[s].pending # None =>
             record[s].pending \in CalledOn(record[s].session)

\* "new" and "ready" tell whether the session was opened.
StateTold ==
    \A s \in Series : record[s] # None =>
        /\ record[s].state = "new" =>
              \A r \in CalledOn(record[s].session) : record[s].pending = r
        /\ record[s].state = "ready" =>
              \/ record[s].session \in Imported
              \/ \E r \in CalledOn(record[s].session) : runs[r].answer # None

\* Only a call that was made is answered, and only an answer is confirmed.
AnswersCalled ==
    /\ \A r \in DOMAIN runs :
          /\ runs[r].confirmed => runs[r].answer # None
          /\ runs[r].answer # None => runs[r].spawned
    /\ \A t \in Task : task[t].at = "calling" =>
          task[t].run \in DOMAIN runs /\ runs[task[t].run].spawned

\* The inductive invariant.
IInv == /\ TypeOK
        /\ KnownOnly
        /\ SeriesHold
        /\ PendingTold
        /\ StateTold
        /\ AnswersCalled
        /\ OneCallOutstanding
        /\ OpenedOnceThenResumed

-----------------------------------------------------------------------------
\* Types.

LEMMA RowsTyped ==
    ASSUME NEW S, NEW q \in Seq(S), NEW k, NEW e, k \in DOMAIN q => e \in S
    PROVE  /\ [q EXCEPT ![k] = e] \in Seq(S)
           /\ Len([q EXCEPT ![k] = e]) = Len(q)
           /\ DOMAIN [q EXCEPT ![k] = e] = DOMAIN q
<1> DEFINE w == [q EXCEPT ![k] = e]
<1>1. DOMAIN w = 1..Len(q) /\ Len(q) \in Nat
  OBVIOUS
<1>2. \A i \in 1..Len(q) : w[i] \in S
  OBVIOUS
<1>3. w \in [1..Len(q) -> S]
  BY <1>1, <1>2
<1> QED BY <1>1, <1>3

LEMMA ClaimedTyped ==
    ASSUME TypeOK, NEW t \in Task, NEW spawned \in BOOLEAN
    PROVE  Claimed(t, spawned) \in RunRow
<1>1. task[t] \in TaskRow
  BY DEF TypeOK
<1> QED BY <1>1 DEF Claimed, RunRow, TaskRow, TaskFields

\* The series of a run.
LEMMA SeriesOfRuns ==
    ASSUME IInv
    PROVE  \A r \in DOMAIN runs : SeriesOf[runs[r].task] \in Series
<1>1. \A r \in DOMAIN runs : runs[r] \in RunRow
  BY DEF IInv, TypeOK
<1>2. \A r \in DOMAIN runs : runs[r].task \in Task
  BY <1>1 DEF RunRow
<1> QED BY <1>2, SessionAssumption

LEMMA SessionTyped ==
    ASSUME NEW x \in Sid, NEW state \in {"new", "ready"}, NEW again \in BOOLEAN
    PROVE  Record(x, state, again) \in SessionRecord
BY DEF Record, SessionRecord, Sid

\* What a step may do to the rows of runs besides appending one.
RowKept(old, new) ==
    /\ new \in RunRow
    /\ new.task = old.task /\ new.session = old.session /\ new.state = old.state
    /\ new.spawned = old.spawned /\ new.handed = old.handed
    /\ old.answer # None => new.answer # None
    /\ new.confirmed => new.answer # None
    /\ new.answer # None => new.spawned

RunsKept ==
    /\ DOMAIN runs' = DOMAIN runs
    /\ \A r \in DOMAIN runs : RowKept(runs[r], runs'[r])

LEMMA SameRows ==
    ASSUME IInv, UNCHANGED runs
    PROVE  RunsKept
<1>1. \A r \in DOMAIN runs : runs[r] \in RunRow
  BY DEF IInv, TypeOK
<1> QED BY <1>1 DEF IInv, AnswersCalled, RunsKept, RowKept

LEMMA OneRowKept ==
    ASSUME IInv, NEW k, NEW e, k \in DOMAIN runs => RowKept(runs[k], e),
           runs' = [runs EXCEPT ![k] = e]
    PROVE  RunsKept /\ runs' \in Seq(RunRow) /\ Len(runs') <= MaxRuns
<1>1. runs \in Seq(RunRow) /\ Len(runs) <= MaxRuns
  BY DEF IInv, TypeOK
<1>2. runs' \in Seq(RunRow) /\ Len(runs') = Len(runs) /\ DOMAIN runs' = DOMAIN runs
  BY <1>1, RowsTyped DEF RowKept
<1>3. \A r \in DOMAIN runs : r # k => RowKept(runs[r], runs'[r])
  <2>1. \A r \in DOMAIN runs : RowKept(runs[r], runs[r])
    <3>1. \A r \in DOMAIN runs : runs[r] \in RunRow
      BY <1>1
    <3> QED BY <3>1 DEF IInv, AnswersCalled, RowKept
  <2> QED BY <2>1, <1>1
<1>4. k \in DOMAIN runs => runs'[k] = e
  BY <1>1
<1> QED BY <1>1, <1>2, <1>3, <1>4 DEF RunsKept

-----------------------------------------------------------------------------
\* Steps that leave the records alone.

LEMMA RecordsKept ==
    ASSUME IInv, TypeOK', RunsKept, UNCHANGED <<record, sessions>>,
           \A t \in Task : task'[t].at = "calling" =>
              task'[t].run \in DOMAIN runs /\ runs[task'[t].run].spawned
    PROVE  IInv'
<1> USE DEF RunsKept, RowKept
<1>1. KnownOnly'
  BY DEF IInv, KnownOnly, Known
<1>2. SeriesHold'
  BY DEF IInv, SeriesHold
<1>3. \A x : CalledOn(x)' = CalledOn(x)
  BY DEF CalledOn
<1>4. PendingTold'
  BY <1>3 DEF IInv, PendingTold, Unaccounted
<1>5. StateTold'
  <2>1. \A x : \A r \in CalledOn(x) : r \in DOMAIN runs
    BY DEF CalledOn
  <2> QED BY <1>3, <2>1 DEF IInv, StateTold
<1>6. AnswersCalled'
  BY DEF IInv, AnswersCalled
<1>7. OneCallOutstanding'
  BY DEF IInv, OneCallOutstanding, Unaccounted
<1>8. OpenedOnceThenResumed'
  <2> SUFFICES ASSUME NEW r \in DOMAIN runs, runs[r].spawned
               PROVE  LET before == {q \in 1..(r - 1) :
                                        runs'[q].spawned /\ runs'[q].session = runs'[r].session}
                      IN IF runs'[r].state = "new" THEN before = {}
                         ELSE \/ runs'[r].session \in Imported
                              \/ \E q \in before : runs'[q].answer # None
    BY DEF OpenedOnceThenResumed
  <2> DEFINE old == {q \in 1..(r - 1) : runs[q].spawned /\ runs[q].session = runs[r].session}
             new == {q \in 1..(r - 1) : runs'[q].spawned /\ runs'[q].session = runs'[r].session}
  <2>1. 1..(r - 1) \subseteq DOMAIN runs
    BY DEF IInv, TypeOK
  <2>2. old = new
    BY <2>1
  <2>3. IF runs[r].state = "new" THEN old = {}
        ELSE runs[r].session \in Imported \/ \E q \in old : runs[q].answer # None
    BY DEF IInv, OpenedOnceThenResumed
  <2>4. old \subseteq DOMAIN runs
    BY <2>1
  <2> HIDE DEF old, new
  <2>5. IF runs'[r].state = "new" THEN new = {}
        ELSE runs'[r].session \in Imported \/ \E q \in new : runs'[q].answer # None
    BY <2>2, <2>3, <2>4
  <2> QED BY <2>5 DEF new
<1> QED BY <1>1, <1>2, <1>4, <1>5, <1>6, <1>7, <1>8 DEF IInv

-----------------------------------------------------------------------------
\* Registration, import and rehydration give a series another session.

LEMMA RecordInstalled ==
    ASSUME IInv, TypeOK', UNCHANGED <<task, runs>>, sessions' \in Nat, sessions' >= sessions,
           NEW s \in Series, NEW x \in Known', NEW state \in {"new", "ready"}, NEW again \in BOOLEAN,
           x \in Sid,
           record' = [record EXCEPT ![s] = Record(x, state, again)],
           ~BelongsElsewhere(x),
           \A r \in CalledOn(x) : SeriesOf[runs[r].task] # s,
           state = "new" => CalledOn(x) = {},
           state = "ready" => x \in Imported \/ \E r \in CalledOn(x) : runs[r].answer # None
    PROVE  IInv'
<1>1. /\ record \in [Series -> {None} \cup SessionRecord]
      /\ runs \in Seq(RunRow) /\ sessions \in Nat
  BY SessionAssumption DEF IInv, TypeOK
<1>2. /\ record'[s] = Record(x, state, again)
      /\ \A other \in Series : other # s => record'[other] = record[other]
  BY <1>1
<1>3. record'[s] # None
  BY <1>2, SessionTyped, FreshAssumption
<1>4. \A r \in DOMAIN runs : SeriesOf[runs[r].task] \in Series
  BY SeriesOfRuns
<1>5. CalledOn(x)' = CalledOn(x) /\ \A y : CalledOn(y)' = CalledOn(y)
  BY DEF CalledOn
<1>6. KnownOnly'
  <2>1. Known \subseteq Known'
    BY <1>1 DEF Known
  <2>2. \A other \in Series : record'[other] # None => record'[other].session \in Known'
    BY <1>2, <2>1 DEF IInv, KnownOnly, Record
  <2> QED BY <2>1, <2>2 DEF IInv, KnownOnly
<1>7. SeriesHold'
  <2>1. \A r \in DOMAIN runs : runs[r].spawned => record'[SeriesOf[runs[r].task]] # None
    BY <1>2, <1>3, <1>4 DEF IInv, SeriesHold
  <2>2. \A other \in Series : other # s /\ record'[other] # None => record'[other].session # x
    BY <1>2 DEF BelongsElsewhere
  <2>3. record'[s].session = x
    BY <1>2 DEF Record
  <2>4. \A s1, s2 \in Series : record'[s1] # None /\ record'[s2] # None /\ s1 # s2
                               => record'[s1].session # record'[s2].session
    BY <1>2, <2>2, <2>3 DEF IInv, SeriesHold
  <2> QED BY <2>1, <2>4 DEF SeriesHold
<1>8. PendingTold'
  <2>1. ASSUME NEW r \in DOMAIN runs, Unaccounted(r),
               runs[r].session = record'[SeriesOf[runs[r].task]].session
        PROVE  record'[SeriesOf[runs[r].task]].pending = r
    <3>1. CASE SeriesOf[runs[r].task] = s
      <4>1. r \in CalledOn(x)
        BY <1>2, <2>1, <3>1 DEF CalledOn, Unaccounted, Record
      <4> QED BY <4>1, <3>1
    <3>2. CASE SeriesOf[runs[r].task] # s
      BY <1>2, <1>4, <2>1, <3>2 DEF IInv, PendingTold
    <3> QED BY <3>1, <3>2
  <2>2. \A other \in Series : record'[other] # None /\ record'[other].pending # None
                              => record'[other].pending \in CalledOn(record'[other].session)
    BY <1>2 DEF IInv, PendingTold, Record
  <2> QED BY <1>5, <2>1, <2>2 DEF PendingTold, Unaccounted
<1>9. StateTold'
  <2>1. ASSUME NEW other \in Series, other # s, record'[other] # None
        PROVE  /\ record'[other].state = "new" =>
                     \A r \in CalledOn(record'[other].session) : record'[other].pending = r
               /\ record'[other].state = "ready" =>
                     \/ record'[other].session \in Imported
                     \/ \E r \in CalledOn(record'[other].session) : runs[r].answer # None
    BY <1>2, <2>1 DEF IInv, StateTold
  <2>2. /\ record'[s].session = x /\ record'[s].state = state
    BY <1>2 DEF Record
  <2> QED BY <1>5, <2>1, <2>2 DEF StateTold
<1>10. AnswersCalled' /\ OneCallOutstanding' /\ OpenedOnceThenResumed'
  BY DEF IInv, AnswersCalled, OneCallOutstanding, Unaccounted, OpenedOnceThenResumed
<1> QED BY <1>6, <1>7, <1>8, <1>9, <1>10 DEF IInv

-----------------------------------------------------------------------------
\* A hand-over accounts for the call it is about.

LEMMA RunHandedOver ==
    ASSUME IInv, TypeOK', NEW s \in Series, NEW k \in DOMAIN runs, Completes(s, k), HandOver(s, k),
           UNCHANGED sessions,
           \A t \in Task : task'[t].at = "calling" =>
              task[t].at = "calling" /\ task'[t].run = task[t].run
    PROVE  IInv'
<1>1. /\ record \in [Series -> {None} \cup SessionRecord]
      /\ runs \in Seq(RunRow) /\ runs[k] \in RunRow
  BY DEF IInv, TypeOK
<1>2. /\ DOMAIN runs' = DOMAIN runs
      /\ \A r \in DOMAIN runs : r # k => runs'[r] = runs[r]
      /\ runs'[k] = [runs[k] EXCEPT !.handed = TRUE]
  BY <1>1 DEF HandOver
<1>3. \A r \in DOMAIN runs :
         /\ runs'[r].task = runs[r].task /\ runs'[r].session = runs[r].session
         /\ runs'[r].state = runs[r].state /\ runs'[r].spawned = runs[r].spawned
         /\ runs'[r].answer = runs[r].answer /\ runs'[r].confirmed = runs[r].confirmed
         /\ Unaccounted(r)' => Unaccounted(r) /\ r # k
  BY <1>1, <1>2 DEF RunRow, Unaccounted
<1>4. record[s] # None /\ record[s].pending = k /\ runs[k].session = record[s].session
      /\ runs[k].confirmed
  BY DEF Completes
<1>5. record[s] \in SessionRecord /\ record'[s] \in SessionRecord /\ record'[s] # None
  BY ZenonT(30), <1>1, <1>4, FreshAssumption DEF HandOver, SessionRecord
<1>6. /\ record'[s].pending = None /\ record'[s].state = "ready"
      /\ record'[s].session = record[s].session
      /\ \A other \in Series : other # s => record'[other] = record[other]
  BY <1>1, <1>4, <1>5 DEF HandOver, SessionRecord
<1>7. \A r \in DOMAIN runs : SeriesOf[runs[r].task] \in Series
  BY SeriesOfRuns
<1>8. k \in CalledOn(record[s].session)
  BY <1>4, FreshAssumption DEF IInv, AnswersCalled, CalledOn
<1>9. \A y : CalledOn(y)' = CalledOn(y)
  BY <1>2, <1>3 DEF CalledOn
<1>10. KnownOnly'
  BY <1>2, <1>3, <1>4, <1>6 DEF IInv, KnownOnly, Known
<1>11. SeriesHold'
  BY <1>2, <1>3, <1>4, <1>5, <1>6, <1>7 DEF IInv, SeriesHold
<1>12. PendingTold'
  BY <1>2, <1>3, <1>4, <1>6, <1>7, <1>9 DEF IInv, PendingTold
<1>13. StateTold'
  <2>1. \A other \in Series : other # s /\ record'[other] # None =>
          /\ record'[other].state = "new" =>
                \A r \in CalledOn(record'[other].session) : record'[other].pending = r
          /\ record'[other].state = "ready" =>
                \/ record'[other].session \in Imported
                \/ \E r \in CalledOn(record'[other].session) : runs[r].answer # None
    BY <1>6 DEF IInv, StateTold
  <2>2. \A y : \A r \in CalledOn(y) : r \in DOMAIN runs
    BY DEF CalledOn
  <2>3. runs[k].answer # None
    BY <1>4 DEF IInv, AnswersCalled
  <2> QED BY <1>3, <1>6, <1>8, <1>9, <2>1, <2>2, <2>3 DEF StateTold
<1>14. AnswersCalled'
  BY <1>2, <1>3 DEF IInv, AnswersCalled
<1>15. OneCallOutstanding'
  BY <1>2, <1>3 DEF IInv, OneCallOutstanding
<1>16. OpenedOnceThenResumed'
  <2>1. \A r \in DOMAIN runs : 1..(r - 1) \subseteq DOMAIN runs
    BY <1>1
  <2> QED BY <1>2, <1>3, <2>1 DEF IInv, OpenedOnceThenResumed
<1> QED BY <1>10, <1>11, <1>12, <1>13, <1>14, <1>15, <1>16 DEF IInv

-----------------------------------------------------------------------------
\* A call is made on a session on which nothing is pending.

LEMMA CallMade ==
    ASSUME IInv, TypeOK', NEW t \in Task, Call(t)
    PROVE  IInv'
<1> DEFINE k == Len(runs) + 1
           s == SeriesOf[t]
           row == Claimed(t, MayCall(t))
           calls(y) == {r \in DOMAIN runs' : runs'[r].spawned /\ runs'[r].session = y}
<1>1. /\ record \in [Series -> {None} \cup SessionRecord]
      /\ runs \in Seq(RunRow) /\ Len(runs) \in Nat /\ task \in [Task -> TaskRow]
      /\ s \in Series /\ k \in Nat /\ k # None
  BY SessionAssumption, FreshAssumption DEF IInv, TypeOK
<1>2. /\ DOMAIN runs' = DOMAIN runs \cup {k} /\ k \notin DOMAIN runs
      /\ runs'[k] = row
      /\ \A r \in DOMAIN runs : runs'[r] = runs[r] /\ r < k
  BY <1>1 DEF Call
<1>3. /\ row.task = t /\ row.session = task[t].session /\ row.state = task[t].state
      /\ SeriesOf[row.task] = s
      /\ row.spawned = MayCall(t) /\ row.answer = None /\ ~row.confirmed /\ ~row.handed
  BY DEF Claimed
<1> HIDE DEF k, s, row, calls
<1>4. \A r \in DOMAIN runs : SeriesOf[runs[r].task] \in Series
  BY SeriesOfRuns
<1>5. \A r \in DOMAIN runs : Unaccounted(r)' <=> Unaccounted(r)
  BY <1>2 DEF Unaccounted
<1>6. AnswersCalled'
  <2>1. \A u \in Task : task'[u].at = "calling" =>
           task'[u].run \in DOMAIN runs' /\ runs'[task'[u].run].spawned
    <3>1. \A u \in Task : u # t => task'[u] = task[u]
      BY <1>1 DEF Call
    <3>2. /\ task'[t].at = IF MayCall(t) THEN "calling" ELSE "returned"
          /\ task'[t].run = k
      BY <1>1 DEF Call, TaskRow, TaskFields, k
    <3> QED BY <1>2, <1>3, <3>1, <3>2 DEF IInv, AnswersCalled
  <2> QED BY <1>2, <1>3, <2>1 DEF IInv, AnswersCalled
<1>7. CASE ~MayCall(t)
  <2>1. UNCHANGED <<record, sessions>>
    BY <1>7 DEF Call
  <2>2. \A y : CalledOn(y)' = CalledOn(y)
    BY <1>2, <1>3, <1>7 DEF CalledOn
  <2>3. \A y : \A r \in CalledOn(y) : r \in DOMAIN runs
    BY DEF CalledOn
  <2>4. KnownOnly' /\ SeriesHold'
    BY <1>2, <1>3, <1>7, <2>1 DEF IInv, KnownOnly, SeriesHold, Known
  <2>5. PendingTold'
    BY <1>2, <1>3, <1>5, <1>7, <2>1, <2>2 DEF IInv, PendingTold, Unaccounted
  <2>6. StateTold'
    BY <1>2, <2>1, <2>2, <2>3 DEF IInv, StateTold
  <2>7. OneCallOutstanding'
    <3> SUFFICES ASSUME NEW r1 \in DOMAIN runs', NEW r2 \in DOMAIN runs',
                        r1 < r2, runs'[r2].spawned, runs'[r1].session = runs'[r2].session,
                        SeriesOf[runs'[r1].task] = SeriesOf[runs'[r2].task]
                 PROVE  ~Unaccounted(r1)'
      BY DEF OneCallOutstanding
    <3>1. r2 \in DOMAIN runs /\ runs'[r2] = runs[r2]
      BY <1>2, <1>3, <1>7
    <3>2. r1 \in DOMAIN runs /\ runs'[r1] = runs[r1]
      BY <1>1, <1>2, <3>1
    <3> QED BY <1>5, <3>1, <3>2 DEF IInv, OneCallOutstanding
  <2>8. OpenedOnceThenResumed'
    <3>1. \A r \in DOMAIN runs : 1..(r - 1) \subseteq DOMAIN runs
      BY <1>1
    <3> QED BY <1>2, <1>3, <1>7, <3>1 DEF IInv, OpenedOnceThenResumed
  <2> QED BY <1>6, <2>4, <2>5, <2>6, <2>7, <2>8 DEF IInv
<1>8. CASE MayCall(t)
  <2>1. /\ record[s] # None /\ record[s].pending = None
        /\ record[s].session = task[t].session /\ record[s].state = task[t].state
    BY <1>8 DEF MayCall, Bound, Usable, s
  <2>2. record[s] \in SessionRecord
    BY <1>1, <2>1
  <2>3. UNCHANGED sessions /\ record' = [record EXCEPT ![s].pending = k]
    BY <1>8 DEF Call, k, s
  <2>4. record'[s] \in {None} \cup SessionRecord
    BY <1>1 DEF TypeOK
  <2>5. /\ record'[s].pending = k /\ record'[s].session = record[s].session
        /\ record'[s].state = record[s].state
        /\ \A other \in Series : other # s => record'[other] = record[other]
    BY <1>1, <2>2, <2>3 DEF SessionRecord
  <2>6. record'[s] # None
    <3>1. k \in {None} \cup 1..MaxRuns
      BY <1>1, SessionAssumption DEF Call, k
    <3>2. [record[s] EXCEPT !.pending = k] \in SessionRecord
      BY <2>2, <3>1 DEF SessionRecord
    <3> QED BY <1>1, <2>3, <3>2, FreshAssumption
  <2>7. \A y : \A r \in DOMAIN runs : r \in calls(y) <=> r \in CalledOn(y)
    BY <1>2 DEF CalledOn, calls
  <2>8. k \in calls(record[s].session)
    BY <1>2, <1>3, <1>8, <2>1 DEF calls
  <2>9. KnownOnly' /\ SeriesHold'
    <3>1. \A other \in Series : record'[other] # None =>
             record[other] # None /\ record'[other].session = record[other].session
      BY <2>1, <2>5
    <3>2. row.session \in Known
      BY <1>1, <1>3, <2>1 DEF IInv, KnownOnly
    <3>3. KnownOnly'
      BY <1>2, <2>3, <3>1, <3>2 DEF IInv, KnownOnly, Known
    <3>4. \A r \in DOMAIN runs' : runs'[r].spawned => record'[SeriesOf[runs'[r].task]] # None
      BY <1>2, <1>3, <1>4, <2>5, <2>6 DEF IInv, SeriesHold
    <3>5. SeriesHold'
      BY <3>1, <3>4 DEF IInv, SeriesHold
    <3> QED BY <3>3, <3>5
  <2>10. \A r \in DOMAIN runs : r # None
    BY <1>1, FreshAssumption
  <2>11. \A r \in DOMAIN runs : SeriesOf[runs[r].task] = s /\ runs[r].session = record[s].session
                                => ~Unaccounted(r)
    BY <1>1, <2>1, <2>10 DEF IInv, PendingTold
  <2>12. \A r \in CalledOn(record[s].session) : record[s].state # "new"
    BY <1>1, <2>1, <2>10 DEF IInv, StateTold, CalledOn
  <2>13. PendingTold'
    <3>1. ASSUME NEW r \in DOMAIN runs', Unaccounted(r)',
                 runs'[r].session = record'[SeriesOf[runs'[r].task]].session
          PROVE  record'[SeriesOf[runs'[r].task]].pending = r
      <4>1. CASE r = k
        BY <1>2, <1>3, <2>5, <4>1
      <4>2. CASE r # k
        <5>1. r \in DOMAIN runs /\ runs'[r] = runs[r] /\ Unaccounted(r)
          BY <1>2, <1>5, <3>1, <4>2
        <5>2. SeriesOf[runs[r].task] # s
          BY <2>5, <2>11, <3>1, <5>1
        <5> QED BY <1>4, <2>5, <3>1, <5>1, <5>2 DEF IInv, PendingTold
      <4> QED BY <4>1, <4>2
    <3>2. ASSUME NEW other \in Series, record'[other] # None, record'[other].pending # None
          PROVE  record'[other].pending \in calls(record'[other].session)
      <4>1. CASE other = s
        BY <2>5, <2>8, <4>1
      <4>2. CASE other # s
        <5>1. record[other].pending \in CalledOn(record[other].session)
          BY <2>5, <3>2, <4>2 DEF IInv, PendingTold
        <5>2. record[other].pending \in DOMAIN runs
          BY <5>1 DEF CalledOn
        <5> QED BY <2>5, <2>7, <4>2, <5>1, <5>2
      <4> QED BY <4>1, <4>2
    <3>3. \A other : CalledOn(record[other].session)' = calls(record'[other].session)
      BY DEF CalledOn, calls
    <3> QED BY <3>1, <3>2, <3>3 DEF PendingTold
  <2>14. StateTold'
    <3>1. \A y : \A r \in calls(y) : r = k \/ r \in CalledOn(y)
      BY <1>2 DEF CalledOn, calls
    <3>2. \A y : \A r \in CalledOn(y) : r \in calls(y) /\ runs'[r] = runs[r]
      BY <1>2 DEF CalledOn, calls
    <3>3. /\ record[s].state = "ready" => \/ record[s].session \in Imported
                                          \/ \E r \in CalledOn(record[s].session) : runs[r].answer # None
      BY <1>1, <2>1 DEF IInv, StateTold
    <3>4. ASSUME NEW other \in Series, other # s, record'[other] # None
          PROVE  /\ k \notin calls(record[other].session)
                 /\ record[other].state = "new" =>
                       \A r \in CalledOn(record[other].session) : record[other].pending = r
                 /\ record[other].state = "ready" =>
                       \/ record[other].session \in Imported
                       \/ \E r \in CalledOn(record[other].session) : runs[r].answer # None
      <4>1. record[other] # None
        BY <2>5, <3>4
      <4>2. record[other].session # record[s].session
        BY <1>1, <2>1, <3>4, <4>1 DEF IInv, SeriesHold
      <4>3. k \notin calls(record[other].session)
        BY <1>2, <1>3, <2>1, <4>2 DEF calls
      <4> QED BY <4>1, <4>3 DEF IInv, StateTold
    <3>5. ASSUME NEW other \in Series, record'[other] # None
          PROVE  /\ record'[other].state = "new" =>
                       \A r \in calls(record'[other].session) : record'[other].pending = r
                 /\ record'[other].state = "ready" =>
                       \/ record'[other].session \in Imported
                       \/ \E r \in calls(record'[other].session) : runs'[r].answer # None
      <4>1. CASE other = s
        BY <2>5, <2>12, <3>1, <3>2, <3>3, <4>1
      <4>2. CASE other # s
        BY <2>5, <3>1, <3>2, <3>4, <3>5, <4>2
      <4> QED BY <4>1, <4>2
    <3>6. \A other : CalledOn(record[other].session)' = calls(record'[other].session)
      BY DEF CalledOn, calls
    <3> QED BY <3>5, <3>6 DEF StateTold
  <2>15. OneCallOutstanding'
    <3> SUFFICES ASSUME NEW r1 \in DOMAIN runs', NEW r2 \in DOMAIN runs',
                        r1 < r2, runs'[r2].spawned, runs'[r1].session = runs'[r2].session,
                        SeriesOf[runs'[r1].task] = SeriesOf[runs'[r2].task]
                 PROVE  ~Unaccounted(r1)'
      BY DEF OneCallOutstanding
    <3>1. r1 \in DOMAIN runs /\ runs'[r1] = runs[r1]
      BY <1>1, <1>2
    <3>2. CASE r2 = k
      BY <1>2, <1>3, <1>5, <2>1, <2>11, <3>1, <3>2
    <3>3. CASE r2 # k
      BY <1>2, <1>5, <3>1, <3>3 DEF IInv, OneCallOutstanding
    <3> QED BY <3>2, <3>3
  <2>16. OpenedOnceThenResumed'
    <3> DEFINE before(r) == {q \in 1..(r - 1) :
                                runs[q].spawned /\ runs[q].session = runs[r].session}
               after(r) == {q \in 1..(r - 1) :
                                runs'[q].spawned /\ runs'[q].session = runs'[r].session}
    <3>1. ASSUME NEW r \in DOMAIN runs, runs'[r].spawned
          PROVE  IF runs'[r].state = "new" THEN after(r) = {}
                 ELSE runs'[r].session \in Imported \/ \E q \in after(r) : runs'[q].answer # None
      <4>1. 1..(r - 1) \subseteq DOMAIN runs
        BY <1>1
      <4>2. after(r) = before(r)
        BY <1>2, <4>1
      <4>3. IF runs[r].state = "new" THEN before(r) = {}
            ELSE runs[r].session \in Imported \/ \E q \in before(r) : runs[q].answer # None
        BY <1>2, <3>1 DEF IInv, OpenedOnceThenResumed
      <4>4. before(r) \subseteq DOMAIN runs
        BY <4>1
      <4> HIDE DEF before, after
      <4> QED BY <1>2, <4>2, <4>3, <4>4
    <3>2. IF runs'[k].state = "new" THEN after(k) = {}
          ELSE runs'[k].session \in Imported \/ \E q \in after(k) : runs'[q].answer # None
      <4>1. 1..(k - 1) = DOMAIN runs
        BY <1>1, <1>2 DEF k
      <4>2. runs'[k].state = record[s].state /\ runs'[k].session = record[s].session
        BY <1>2, <1>3, <2>1
      <4>3. after(k) = CalledOn(record[s].session)
        <5>1. \A q \in DOMAIN runs : q \in after(k) <=> q \in CalledOn(record[s].session)
          BY <1>2, <4>1, <4>2 DEF CalledOn
        <5>2. after(k) \subseteq DOMAIN runs /\ CalledOn(record[s].session) \subseteq DOMAIN runs
          BY <4>1 DEF CalledOn
        <5> HIDE DEF after
        <5> QED BY <5>1, <5>2
      <4>4. record[s].state \in {"new", "ready"}
        BY <2>2 DEF SessionRecord
      <4>5. \A q \in CalledOn(record[s].session) : runs'[q] = runs[q]
        BY <1>2 DEF CalledOn
      <4>6. record[s].state = "ready" => \/ record[s].session \in Imported
                                         \/ \E r \in CalledOn(record[s].session) : runs[r].answer # None
        BY <1>1, <2>1 DEF IInv, StateTold
      <4> HIDE DEF after
      <4> QED BY <2>12, <4>2, <4>3, <4>4, <4>5, <4>6
    <3>3. \A r \in DOMAIN runs' : r \in DOMAIN runs \/ r = k
      BY <1>2
    <3> QED BY <3>1, <3>2, <3>3 DEF OpenedOnceThenResumed
  <2> QED BY <1>6, <2>9, <2>13, <2>14, <2>15, <2>16 DEF IInv
<1> QED BY <1>7, <1>8

-----------------------------------------------------------------------------
\* The remaining steps, one at a time.

LEMMA NewSession ==
    ASSUME IInv, sessions < MaxSessions
    PROVE  /\ sessions + 1 \in Sid /\ CalledOn(sessions + 1) = {}
           /\ ~BelongsElsewhere(sessions + 1)
           /\ sessions \in Nat /\ sessions + 1 \in 1..(sessions + 1)
<1>1. sessions \in Nat /\ MaxSessions \in Nat
  BY SessionAssumption DEF IInv, TypeOK
<1>2. sessions + 1 \in 1..MaxSessions /\ sessions + 1 \notin Known
  BY <1>1, FreshAssumption DEF Known
<1> QED BY <1>1, <1>2 DEF IInv, KnownOnly, CalledOn, BelongsElsewhere, Sid

LEMMA FreshRecord ==
    ASSUME IInv, NEW s \in Series, RegisterNew(s) \/ Rehydrate(s)
    PROVE  IInv'
<1> DEFINE x == sessions + 1
<1>1. /\ x \in Sid /\ CalledOn(x) = {} /\ ~BelongsElsewhere(x)
      /\ sessions \in Nat /\ x \in 1..x
  BY NewSession DEF RegisterNew, Rehydrate
<1>2. /\ sessions' = x /\ sessions < MaxSessions /\ UNCHANGED <<lock, task, candidate, runs>>
  BY DEF RegisterNew, Rehydrate
<1>3. x \in Known'
  BY <1>1, <1>2 DEF Known
<1>4. PICK again \in BOOLEAN : record' = [record EXCEPT ![s] = Record(x, "new", again)]
  BY DEF RegisterNew, Rehydrate
<1>5. Record(x, "new", again) \in SessionRecord
  BY <1>1, SessionTyped
<1>6. TypeOK'
  BY <1>1, <1>2, <1>4, <1>5, SessionAssumption DEF IInv, TypeOK
<1>7. sessions' \in Nat /\ sessions' >= sessions
  BY <1>1, <1>2
<1> HIDE DEF x
<1> QED BY <1>1, <1>2, <1>3, <1>4, <1>6, <1>7, RecordInstalled

LEMMA ImportedRecord ==
    ASSUME IInv, NEW s \in Series, NEW x \in Receipted, RegisterImport(s, x)
    PROVE  IInv'
<1>1. x \in Imported \/ \E r \in CalledOn(x) : runs[r].answer # None
  BY DEF RegisterImport, Receipted, IInv, AnswersCalled, CalledOn
<1>2. x \in Known /\ sessions \in Nat /\ sessions \in 0..MaxSessions
  BY <1>1 DEF CalledOn, IInv, KnownOnly, Known, TypeOK
<1>3. x \in Sid /\ x \in Known'
  BY <1>2, SessionAssumption DEF Known, Sid, RegisterImport
<1>4. record' = [record EXCEPT ![s] = Record(x, "ready", FALSE)]
      /\ UNCHANGED <<lock, sessions, task, candidate, runs>> /\ ~BelongsElsewhere(x)
  BY DEF RegisterImport
<1>5. TypeOK'
  <2>1. Record(x, "ready", FALSE) \in SessionRecord
    BY <1>3, SessionTyped
  <2> QED BY <1>4, <2>1 DEF IInv, TypeOK
<1>6. \A r \in CalledOn(x) : SeriesOf[runs[r].task] # s
  BY DEF CalledOn, IInv, SeriesHold, RegisterImport
<1>7. sessions' \in Nat /\ sessions' >= sessions
  BY <1>2, <1>4
<1> QED BY <1>1, <1>3, <1>4, <1>5, <1>6, <1>7, RecordInstalled

LEMMA Typed ==
    ASSUME IInv
    PROVE  /\ record \in [Series -> {None} \cup SessionRecord]
           /\ lock \in [Series -> {None} \cup 1..MaxRuns]
           /\ sessions \in 0..MaxSessions
           /\ task \in [Task -> TaskRow]
           /\ candidate \in [Task -> Nat]
           /\ runs \in Seq(RunRow) /\ Len(runs) <= MaxRuns
BY DEF IInv, TypeOK

LEMMA CallTyped ==
    ASSUME IInv, NEW t \in Task, Call(t)
    PROVE  TypeOK'
<1>1. MayCall(t) \in BOOLEAN
  BY DEF MayCall, Bound, Usable
<1>2. Claimed(t, MayCall(t)) \in RunRow
  BY <1>1, ClaimedTyped DEF IInv
<1>3. /\ runs \in Seq(RunRow) /\ Len(runs) < MaxRuns /\ task \in [Task -> TaskRow]
      /\ Len(runs) \in Nat
  BY Typed DEF Call
<1>4. runs' \in Seq(RunRow) /\ Len(runs') <= MaxRuns
  BY <1>2, <1>3, SessionAssumption DEF Call
<1>5. Len(runs) + 1 \in 1..MaxRuns
  BY <1>3, SessionAssumption
<1>6. task' \in [Task -> TaskRow]
  <2> DEFINE row == [task[t] EXCEPT !.at = IF MayCall(t) THEN "calling" ELSE "returned",
                                    !.run = Len(runs) + 1]
  <2>1. row \in TaskRow
    <3>1. task[t] \in TaskFields
      BY <1>3 DEF TaskRow
    <3>2. row \in TaskFields /\ row.run = Len(runs) + 1
      BY <1>5, <3>1 DEF TaskFields
    <3>3. Len(runs) + 1 # None
      BY <1>3, FreshAssumption
    <3> QED BY <3>2, <3>3 DEF TaskRow
  <2>2. task' = [task EXCEPT ![t] = row]
    BY <1>3 DEF Call
  <2> HIDE DEF row
  <2> QED BY <1>3, <2>1, <2>2
<1>7. record' \in [Series -> {None} \cup SessionRecord]
  <2>1. CASE MayCall(t)
    <3>1. record[SeriesOf[t]] \in SessionRecord
      BY <2>1, SessionAssumption, Typed DEF MayCall, Bound, Usable
    <3>2. [record[SeriesOf[t]] EXCEPT !.pending = Len(runs) + 1] \in SessionRecord
      BY <3>1, <1>5 DEF SessionRecord
    <3> QED BY <2>1, <3>2 DEF IInv, TypeOK, Call
  <2>2. CASE ~MayCall(t)
    BY <2>2 DEF IInv, TypeOK, Call
  <2> QED BY <2>1, <2>2
<1>8. lock' \in [Series -> {None} \cup 1..MaxRuns]
  BY <1>5 DEF IInv, TypeOK, Call
<1> QED BY <1>4, <1>6, <1>7, <1>8 DEF IInv, TypeOK, Call

\* A step that keeps every row of runs and every record, and starts no call.
LEMMA QuietStep ==
    ASSUME IInv, RunsKept, UNCHANGED <<record, sessions>>,
           runs' \in Seq(RunRow) /\ Len(runs') <= MaxRuns,
           lock' \in [Series -> {None} \cup 1..MaxRuns],
           task' \in [Task -> TaskRow], candidate' \in [Task -> Nat],
           \A t \in Task : task'[t].at = "calling" =>
              task[t].at = "calling" /\ task'[t].run = task[t].run
    PROVE  IInv'
<1>1. TypeOK'
  BY DEF IInv, TypeOK
<1>2. \A t \in Task : task'[t].at = "calling" =>
         task'[t].run \in DOMAIN runs /\ runs[task'[t].run].spawned
  BY DEF IInv, AnswersCalled
<1> QED BY <1>1, <1>2, RecordsKept

\* A task that moves to another stage of its review.
LEMMA TaskMoves ==
    ASSUME IInv, NEW t \in Task, NEW row \in TaskRow, row.at # "calling",
           task' = [task EXCEPT ![t] = row]
    PROVE  /\ task' \in [Task -> TaskRow]
           /\ \A u \in Task : task'[u].at = "calling" =>
                 task[u].at = "calling" /\ task'[u].run = task[u].run
BY DEF IInv, TypeOK

LEMMA PreflightStep ==
    ASSUME IInv, NEW t \in Task, Intake(t) \/ BindSession(t) \/ EditCandidate(t)
    PROVE  IInv'
<1>1. RunsKept /\ UNCHANGED <<record, sessions>>
  BY SameRows DEF Intake, BindSession, EditCandidate
<1>2. SeriesOf[t] \in Series
  BY SessionAssumption
<1>3. CASE Intake(t)
  <2>1. record[SeriesOf[t]] \in SessionRecord
    BY <1>2, <1>3, Typed DEF Intake, Usable
  <2>2. record[SeriesOf[t]].session \in Sid
    BY <2>1 DEF SessionRecord, Sid
  <2>3. [task[t] EXCEPT !.at = "queued", !.session = record[SeriesOf[t]].session] \in TaskRow
    BY <2>2, Typed DEF TaskRow, TaskFields
  <2>4. task' = [task EXCEPT ![t] = [task[t] EXCEPT !.at = "queued",
                                                    !.session = record[SeriesOf[t]].session]]
    BY <1>3, Typed DEF Intake
  <2>5. [task[t] EXCEPT !.at = "queued",
                        !.session = record[SeriesOf[t]].session].at # "calling"
    BY Typed DEF TaskRow, TaskFields
  <2> QED BY <1>1, <1>3, <2>3, <2>4, <2>5, TaskMoves, Typed, QuietStep DEF Intake
<1>4. CASE BindSession(t)
  <2> DEFINE row == [task[t] EXCEPT !.at = "bound", !.state = record[SeriesOf[t]].state,
                                    !.packet = candidate[t]]
  <2>1. record[SeriesOf[t]] \in SessionRecord
    BY <1>2, <1>4, Typed DEF BindSession, Bound, Usable
  <2>2. record[SeriesOf[t]].state \in {"new", "ready"} /\ candidate[t] \in Nat
    BY <2>1, Typed DEF SessionRecord
  <2>3. row \in TaskRow /\ row.at # "calling"
    BY <2>2, Typed DEF TaskRow, TaskFields
  <2>4. task' = [task EXCEPT ![t] = row]
    BY <1>4, Typed DEF BindSession
  <2> HIDE DEF row
  <2> QED BY <1>1, <1>4, <2>3, <2>4, TaskMoves, Typed, QuietStep DEF BindSession
<1>5. CASE EditCandidate(t)
  <2>1. candidate' \in [Task -> Nat]
    BY <1>5, Typed DEF EditCandidate
  <2> QED BY <1>1, <1>5, <2>1, Typed, QuietStep DEF EditCandidate
<1> QED BY <1>3, <1>4, <1>5

LEMMA ClassifiedTyped ==
    ASSUME NEW t \in Task, NEW a
    PROVE  Classified(t, a) \in {"blocked", "ready", "waiting_user"}
BY DEF Classified

LEMMA ReturnStep ==
    ASSUME IInv, NEW t \in Task, Return(t, Answer)
    PROVE  IInv'
<1> DEFINE k == task[t].run
           row == [task[t] EXCEPT !.at = "returned"]
<1>1. row \in TaskRow /\ row.at # "calling"
  BY Typed DEF TaskRow, TaskFields, Return
<1>2. task' = [task EXCEPT ![t] = row]
  BY Typed DEF Return, Returned
<1>3. lock' \in [Series -> {None} \cup 1..MaxRuns] /\ UNCHANGED <<sessions, candidate, record>>
  BY Typed DEF Return, Returned, ReturnWith, ReturnUnconfirmed, ReturnRaised, Released
<1>4. k \in DOMAIN runs /\ runs[k].spawned /\ runs[k] \in RunRow
  BY Typed DEF Return, IInv, AnswersCalled
<1>5. runs[k].confirmed => runs[k].answer # None
  BY <1>4 DEF IInv, AnswersCalled
<1>6. PICK e : runs' = [runs EXCEPT ![k] = e] /\ RowKept(runs[k], e)
  <2>1. ASSUME NEW a \in Answer, ReturnWith(t, a)
        PROVE  \E e : runs' = [runs EXCEPT ![k] = e] /\ RowKept(runs[k], e)
    <3> DEFINE e == [runs[k] EXCEPT !.bound = TRUE, !.confirmed = TRUE, !.answer = a,
                                    !.outcome = Classified(t, a)]
    <3>1. RowKept(runs[k], e)
      BY <1>4, FreshAssumption, ClassifiedTyped DEF RowKept, RunRow
    <3> QED BY <2>1, <3>1 DEF ReturnWith
  <2>2. ASSUME ReturnUnconfirmed(t)
        PROVE  \E e : runs' = [runs EXCEPT ![k] = e] /\ RowKept(runs[k], e)
    <3> DEFINE e == [runs[k] EXCEPT !.bound = TRUE, !.outcome = "blocked"]
    <3>1. RowKept(runs[k], e)
      BY <1>4, <1>5 DEF RowKept, RunRow
    <3> QED BY <2>2, <3>1 DEF ReturnUnconfirmed
  <2>3. ASSUME ReturnRaised(t)
        PROVE  \E e : runs' = [runs EXCEPT ![k] = e] /\ RowKept(runs[k], e)
    <3> DEFINE e == [runs[k] EXCEPT !.outcome = "blocked"]
    <3>1. RowKept(runs[k], e)
      BY <1>4, <1>5 DEF RowKept, RunRow
    <3>2. runs' = [runs EXCEPT ![k] = e]
      BY <2>3 DEF ReturnRaised
    <3> QED BY <3>1, <3>2
  <2> QED BY <2>1, <2>2, <2>3 DEF Return
<1> HIDE DEF k, row
<1>7. RunsKept /\ runs' \in Seq(RunRow) /\ Len(runs') <= MaxRuns
  BY <1>6, OneRowKept
<1> QED BY <1>1, <1>2, <1>3, <1>7, TaskMoves, Typed, QuietStep

LEMMA SealStep ==
    ASSUME IInv, NEW t \in Task, Seal(t) \/ BlockOrphan(t)
    PROVE  IInv'
<1> DEFINE k == task[t].run
           row == [task[t] EXCEPT !.at = IF task[t].at = "returned" THEN "sealed" ELSE "queued"]
<1>1. row \in TaskRow /\ row.at # "calling"
  BY Typed DEF TaskRow, TaskFields
<1>2. task' = [task EXCEPT ![t] = row] /\ UNCHANGED <<record, lock, sessions, candidate>>
  BY Typed DEF Seal, BlockOrphan
<1>3. PICK e : /\ runs' = [runs EXCEPT ![k] = e]
               /\ k \in DOMAIN runs => RowKept(runs[k], e)
  <2>1. ASSUME k \in DOMAIN runs
        PROVE  /\ runs[k] \in RunRow
               /\ runs[k].confirmed => runs[k].answer # None
               /\ runs[k].answer # None => runs[k].spawned
    BY <2>1, Typed DEF IInv, AnswersCalled
  <2>2. CASE Seal(t)
    <3> DEFINE e == [runs[k] EXCEPT !.sealed = TRUE]
    <3>1. k \in DOMAIN runs => RowKept(runs[k], e)
      BY <2>1 DEF RowKept, RunRow
    <3>2. runs' = [runs EXCEPT ![k] = e]
      BY <2>2 DEF Seal
    <3> QED BY <3>1, <3>2
  <2>3. CASE BlockOrphan(t)
    <3> DEFINE e == [runs[k] EXCEPT !.sealed = TRUE, !.bound = FALSE, !.confirmed = FALSE,
                                    !.outcome = "blocked"]
    <3>1. k \in DOMAIN runs => RowKept(runs[k], e)
      BY <2>1 DEF RowKept, RunRow
    <3>2. runs' = [runs EXCEPT ![k] = e]
      BY <2>3 DEF BlockOrphan
    <3> QED BY <3>1, <3>2
  <2> QED BY <2>2, <2>3
<1> HIDE DEF k, row
<1>4. RunsKept /\ runs' \in Seq(RunRow) /\ Len(runs') <= MaxRuns
  BY <1>3, OneRowKept
<1> QED BY <1>1, <1>2, <1>4, TaskMoves, Typed, QuietStep

LEMMA CrashStep ==
    ASSUME IInv, NEW t \in Task, Crash(t)
    PROVE  IInv'
<1> DEFINE row == [task[t] EXCEPT !.at = IF task[t].at = "sealed" THEN "queued" ELSE "orphaned"]
<1>1. row \in TaskRow /\ row.at # "calling"
  BY Typed DEF TaskRow, TaskFields, Crash
<1>2. task' = [task EXCEPT ![t] = row] /\ UNCHANGED <<record, sessions, candidate, runs>>
  BY Typed DEF Crash
<1>3. lock' \in [Series -> {None} \cup 1..MaxRuns]
  BY Typed DEF Crash
<1> HIDE DEF row
<1>4. RunsKept
  BY <1>2, SameRows
<1> QED BY <1>1, <1>2, <1>3, <1>4, TaskMoves, Typed, QuietStep

LEMMA HandedOver ==
    ASSUME IInv, NEW s \in Series, NEW k \in DOMAIN runs, Completes(s, k), HandOver(s, k)
    PROVE  /\ record' \in [Series -> {None} \cup SessionRecord]
           /\ runs' \in Seq(RunRow) /\ Len(runs') <= MaxRuns
<1>1. record[s] \in SessionRecord /\ runs[k] \in RunRow
  BY Typed DEF Completes
<1>2. [record[s] EXCEPT !.pending = None, !.state = "ready"] \in SessionRecord
  BY <1>1 DEF SessionRecord
<1>3. [runs[k] EXCEPT !.handed = TRUE] \in RunRow
  BY <1>1 DEF RunRow
<1>4. runs' = [runs EXCEPT ![k] = [runs[k] EXCEPT !.handed = TRUE]]
  BY Typed DEF HandOver
<1> QED BY <1>2, <1>3, <1>4, RowsTyped, Typed DEF HandOver

LEMMA FinishStep ==
    ASSUME IInv, NEW t \in Task, Finish(t)
    PROVE  IInv'
<1> DEFINE k == task[t].run
           s == SeriesOf[t]
           row == [task[t] EXCEPT !.at = "queued"]
<1>1. row \in TaskRow /\ row.at # "calling" /\ s \in Series
  BY Typed, SessionAssumption DEF TaskRow, TaskFields
<1>2. task' = [task EXCEPT ![t] = row] /\ UNCHANGED <<lock, sessions, candidate>>
  BY Typed DEF Finish
<1>3. k # None
  BY Typed DEF Finish, TaskRow, TaskFields
<1>4. CASE Completes(s, k)
  <2>1. HandOver(s, k)
    BY <1>4 DEF Finish
  <2>2. k \in DOMAIN runs
    BY <1>1, <1>3, <1>4 DEF Completes, IInv, PendingTold, CalledOn
  <2> HIDE DEF k, s, row
  <2>3. TypeOK'
    BY <1>1, <1>2, <1>4, <2>1, <2>2, HandedOver, TaskMoves, Typed DEF TypeOK
  <2> QED BY <1>1, <1>2, <1>4, <2>1, <2>2, <2>3, TaskMoves, RunHandedOver
<1>5. CASE ~Completes(s, k)
  <2>1. UNCHANGED <<record, runs>>
    BY <1>5 DEF Finish
  <2> HIDE DEF k, s, row
  <2> QED BY <1>1, <1>2, <2>1, TaskMoves, Typed, SameRows, QuietStep
<1> QED BY <1>4, <1>5

LEMMA ReconcileStep ==
    ASSUME IInv, NEW t \in Task, Reconcile(t)
    PROVE  IInv'
<1> DEFINE s == SeriesOf[t]
<1>1. s \in Series
  BY SessionAssumption
<1>2. PICK k \in DOMAIN runs : Completes(s, k) /\ HandOver(s, k)
  BY DEF Reconcile
<1>3. UNCHANGED <<lock, sessions, task, candidate>>
  BY DEF Reconcile
<1> HIDE DEF s
<1>4. TypeOK'
  BY <1>1, <1>2, <1>3, HandedOver, Typed DEF TypeOK
<1> QED BY <1>1, <1>2, <1>3, <1>4, RunHandedOver

-----------------------------------------------------------------------------
\* The invariant.

\* Every step of a worker or of the operator keeps the invariant.
THEOREM Inductive ==
    ASSUME IInv, [Next]_vars
    PROVE  IInv'
<1>1. CASE UNCHANGED vars
  <2>1. RunsKept
    BY <1>1, SameRows DEF vars
  <2> QED BY <1>1, <2>1, Typed, QuietStep DEF vars
<1>2. CASE \E s \in Series : RegisterNew(s) \/ Rehydrate(s)
  BY <1>2, FreshRecord
<1>3. CASE \E s \in Series, x \in Receipted : RegisterImport(s, x)
  BY <1>3, ImportedRecord
<1>4. ASSUME NEW t \in Task,
             \/ Intake(t) \/ BindSession(t) \/ Call(t) \/ Return(t, Answer) \/ Seal(t)
             \/ Finish(t) \/ Reconcile(t) \/ Crash(t) \/ BlockOrphan(t) \/ EditCandidate(t)
      PROVE  IInv'
  <2>1. CASE Intake(t) \/ BindSession(t) \/ EditCandidate(t)
    BY <2>1, PreflightStep
  <2>2. CASE Call(t)
    BY <2>2, CallTyped, CallMade
  <2>3. CASE Return(t, Answer)
    BY <2>3, ReturnStep
  <2>4. CASE Seal(t) \/ BlockOrphan(t)
    BY <2>4, SealStep
  <2>5. CASE Finish(t)
    BY <2>5, FinishStep
  <2>6. CASE Reconcile(t)
    BY <2>6, ReconcileStep
  <2>7. CASE Crash(t)
    BY <2>7, CrashStep
  <2> QED BY <1>4, <2>1, <2>2, <2>3, <2>4, <2>5, <2>6, <2>7
<1> QED BY <1>1, <1>2, <1>3, <1>4 DEF Next

LEMMA Initially ==
    ASSUME Init
    PROVE  IInv
<1>1. NoTask \in TaskRow
  BY DEF NoTask, TaskRow, TaskFields
<1>2. TypeOK
  BY <1>1, SessionAssumption DEF Init, TypeOK
<1>3. DOMAIN runs = {} /\ \A s \in Series : record[s] = None
  BY DEF Init
<1>4. \A t \in Task : task[t].at # "calling"
  BY DEF Init, NoTask
<1>5. KnownOnly /\ SeriesHold /\ PendingTold /\ StateTold /\ AnswersCalled
  BY <1>3, <1>4 DEF KnownOnly, SeriesHold, PendingTold, StateTold, AnswersCalled
<1>6. OneCallOutstanding /\ OpenedOnceThenResumed
  BY <1>3 DEF OneCallOutstanding, OpenedOnceThenResumed
<1> QED BY <1>2, <1>5, <1>6 DEF IInv

\* Every record, task and run row has its type (Controller.reconcile_startup and
\* review_session.finish read them back without looking).
THEOREM SessionTypes == Spec => []TypeOK
<1>1. IInv => TypeOK
  BY DEF IInv
<1> QED BY <1>1, Initially, Inductive, PTL DEF Spec

\* review_session.call never spawns a provider on a session while an earlier
\* call on it is unaccounted for, for every set of tasks and series.
THEOREM NoCallReplayed == Spec => []OneCallOutstanding
<1>1. IInv => OneCallOutstanding
  BY DEF IInv
<1> QED BY <1>1, Initially, Inductive, PTL DEF Spec

\* review_session.call passes --session-id to a session nobody called and
\* --resume to one that answered, for every set of tasks and series.
THEOREM OpenThenResume == Spec => []OpenedOnceThenResumed
<1>1. IInv => OpenedOnceThenResumed
  BY DEF IInv
<1> QED BY <1>1, Initially, Inductive, PTL DEF Spec

-----------------------------------------------------------------------------
\* A ready review is of the candidate it was given.

\* A task whose provider works knows the run and the packet it was called with.
CallsOwn ==
    \A t \in Task : task[t].at = "calling" =>
        /\ task[t].run \in DOMAIN runs
        /\ runs[task[t].run].task = t
        /\ runs[task[t].run].packet = task[t].packet

ReadyHeld ==
    \A r \in DOMAIN runs :
        runs'[r].outcome = "ready" /\ runs[r].outcome # "ready" =>
            KindOf[runs[r].task] = "spec" \/ candidate[runs[r].task] = runs[r].packet

\* No step rewrites what a run was claimed for.
ClaimKept(old, new) == new.task = old.task /\ new.packet = old.packet
ClaimsKept == \A r \in DOMAIN runs : r \in DOMAIN runs' /\ ClaimKept(runs[r], runs'[r])

HeldFor(r) == KindOf[runs[r].task] = "spec" \/ candidate[runs[r].task] = runs[r].packet

\* One row is rewritten, and what it says ready of was held.
LEMMA RowRewritten ==
    ASSUME TypeOK, NEW k, NEW e, runs' = [runs EXCEPT ![k] = e],
           k \in DOMAIN runs => ClaimKept(runs[k], e),
           k \in DOMAIN runs /\ e.outcome = "ready" => runs[k].outcome = "ready" \/ HeldFor(k)
    PROVE  ClaimsKept /\ ReadyHeld
<1>1. DOMAIN runs' = DOMAIN runs
  BY DEF TypeOK
<1>2. \A r \in DOMAIN runs : runs'[r] = IF r = k THEN e ELSE runs[r]
  BY DEF TypeOK
<1>3. \A r \in DOMAIN runs : ClaimKept(runs[r], runs'[r])
  BY <1>2 DEF ClaimKept
<1>4. \A r \in DOMAIN runs : runs'[r].outcome = "ready" => runs[r].outcome = "ready" \/ HeldFor(r)
  BY <1>2
<1> QED BY <1>1, <1>3, <1>4, Zenon DEF ClaimsKept, ReadyHeld, HeldFor

\* Every task whose provider works was calling already, or calls now.
LEMMA CallsStay ==
    ASSUME TypeOK, CallsOwn, ClaimsKept,
           \A t \in Task : task'[t].at = "calling" => task'[t] = task[t]
    PROVE  CallsOwn'
BY DEF CallsOwn, ClaimsKept, ClaimKept

LEMMA RowOutcomes ==
    ASSUME TypeOK, NEW r \in DOMAIN runs
    PROVE  /\ ClaimKept(runs[r], [runs[r] EXCEPT !.sealed = TRUE])
           /\ [runs[r] EXCEPT !.sealed = TRUE].outcome = runs[r].outcome
           /\ ClaimKept(runs[r], [runs[r] EXCEPT !.handed = TRUE])
           /\ [runs[r] EXCEPT !.handed = TRUE].outcome = runs[r].outcome
           /\ LET e == [runs[r] EXCEPT !.sealed = TRUE, !.bound = FALSE, !.confirmed = FALSE,
                                       !.outcome = "blocked"] IN
              ClaimKept(runs[r], e) /\ e.outcome = "blocked"
           /\ LET e == [runs[r] EXCEPT !.bound = TRUE, !.outcome = "blocked"] IN
              ClaimKept(runs[r], e) /\ e.outcome = "blocked"
           /\ LET e == [runs[r] EXCEPT !.outcome = "blocked"] IN
              ClaimKept(runs[r], e) /\ e.outcome = "blocked"
<1>1. runs[r] \in RunRow
  BY DEF TypeOK
<1> QED BY <1>1 DEF RunRow, ClaimKept

\* Steps that leave the rows of the runs alone.
LEMMA SameReady ==
    ASSUME UNCHANGED runs
    PROVE  ClaimsKept /\ ReadyHeld
BY DEF ClaimsKept, ClaimKept, ReadyHeld

LEMMA ReturnReady ==
    ASSUME IInv, CallsOwn, NEW t \in Task, Return(t, Answer)
    PROVE  ClaimsKept /\ ReadyHeld
<1> DEFINE k == task[t].run
<1>1. k \in DOMAIN runs /\ runs[k].task = t /\ runs[k].packet = task[t].packet
  BY DEF Return, CallsOwn
<1>2. TypeOK
  BY DEF IInv
<1>3. ASSUME NEW a \in Answer, ReturnWith(t, a) PROVE ClaimsKept /\ ReadyHeld
  <2> DEFINE e == [runs[k] EXCEPT !.bound = TRUE, !.confirmed = TRUE, !.answer = a,
                                  !.outcome = Classified(t, a)]
  <2>1. runs' = [runs EXCEPT ![k] = e]
    BY <1>3 DEF ReturnWith
  <2>2. ClaimKept(runs[k], e) /\ e.outcome = Classified(t, a)
    <3>1. runs[k] \in RunRow
      BY <1>1, <1>2 DEF TypeOK
    <3> HIDE DEF k
    <3> QED BY <3>1 DEF RunRow, ClaimKept
  <2>3. Classified(t, a) = "ready" => CandidateHeld(t)
    BY DEF Classified
  <2>4. Classified(t, a) = "ready" => HeldFor(k)
    BY <1>1, <2>3 DEF CandidateHeld, HeldFor
  <2> HIDE DEF e, k
  <2> QED BY <1>2, <2>1, <2>2, <2>4, RowRewritten
<1>4. CASE ReturnUnconfirmed(t)
  <2> DEFINE e == [runs[k] EXCEPT !.bound = TRUE, !.outcome = "blocked"]
  <2>1. runs' = [runs EXCEPT ![k] = e]
    BY <1>4 DEF ReturnUnconfirmed
  <2>2. ClaimKept(runs[k], e) /\ e.outcome = "blocked"
    BY <1>1, <1>2, RowOutcomes
  <2> HIDE DEF e, k
  <2> QED BY <1>2, <2>1, <2>2, RowRewritten
<1>5. CASE ReturnRaised(t)
  <2> DEFINE e == [runs[k] EXCEPT !.outcome = "blocked"]
  <2>1. runs' = [runs EXCEPT ![k] = e]
    BY <1>5 DEF ReturnRaised
  <2>2. ClaimKept(runs[k], e) /\ e.outcome = "blocked"
    BY <1>1, <1>2, RowOutcomes
  <2> HIDE DEF e, k
  <2> QED BY <1>2, <2>1, <2>2, RowRewritten
<1> QED BY <1>3, <1>4, <1>5 DEF Return

LEMMA SealReady ==
    ASSUME TypeOK, NEW t \in Task, Seal(t) \/ BlockOrphan(t)
    PROVE  ClaimsKept /\ ReadyHeld
<1> DEFINE k == task[t].run
<1>1. CASE Seal(t)
  <2> DEFINE e == [runs[k] EXCEPT !.sealed = TRUE]
  <2>1. runs' = [runs EXCEPT ![k] = e]
    BY <1>1 DEF Seal
  <2>2. k \in DOMAIN runs => ClaimKept(runs[k], e) /\ e.outcome = runs[k].outcome
    BY RowOutcomes
  <2> HIDE DEF e, k
  <2> QED BY <2>1, <2>2, RowRewritten
<1>2. CASE BlockOrphan(t)
  <2> DEFINE e == [runs[k] EXCEPT !.sealed = TRUE, !.bound = FALSE, !.confirmed = FALSE,
                                  !.outcome = "blocked"]
  <2>1. runs' = [runs EXCEPT ![k] = e]
    BY <1>2 DEF BlockOrphan
  <2>2. k \in DOMAIN runs => ClaimKept(runs[k], e) /\ e.outcome = "blocked"
    BY RowOutcomes
  <2> HIDE DEF e, k
  <2> QED BY <2>1, <2>2, RowRewritten
<1> QED BY <1>1, <1>2

LEMMA HandOverReady ==
    ASSUME TypeOK, NEW s, NEW r, HandOver(s, r)
    PROVE  ClaimsKept /\ ReadyHeld
<1> DEFINE e == [runs[r] EXCEPT !.handed = TRUE]
<1>1. runs' = [runs EXCEPT ![r] = e]
  BY DEF HandOver
<1>2. r \in DOMAIN runs => ClaimKept(runs[r], e) /\ e.outcome = runs[r].outcome
  BY RowOutcomes
<1> HIDE DEF e
<1> QED BY <1>1, <1>2, RowRewritten

\* The run of a call is claimed for its task and packet.
LEMMA CallReady ==
    ASSUME TypeOK, CallsOwn, NEW t \in Task, Call(t)
    PROVE  ClaimsKept /\ ReadyHeld /\ CallsOwn'
<1> DEFINE n == Len(runs) + 1
           row == Claimed(t, MayCall(t))
<1>1. /\ DOMAIN runs = 1..Len(runs) /\ Len(runs) \in Nat /\ task[t].run = task[t].run
      /\ runs \in Seq(RunRow) /\ MayCall(t) \in BOOLEAN
  BY DEF TypeOK, MayCall
<1>2. row \in RunRow /\ row.task = t /\ row.packet = task[t].packet
  BY <1>1, ClaimedTyped DEF Claimed
<1>3. /\ DOMAIN runs' = 1..n /\ runs'[n] = row
      /\ \A r \in 1..Len(runs) : runs'[r] = runs[r]
  <2> HIDE DEF row
  <2>1. runs' = Append(runs, row)
    BY DEF Call, row
  <2> QED BY <1>1, <1>2, <2>1
<1>4. ClaimsKept /\ ReadyHeld
  BY <1>1, <1>3 DEF ClaimsKept, ClaimKept, ReadyHeld
<1>5. /\ task'[t].run = n /\ task'[t].packet = task[t].packet
      /\ \A u \in Task \ {t} : task'[u] = task[u]
  BY DEF Call, TypeOK, TaskRow, TaskFields
<1>6. CallsOwn'
  <2> HIDE DEF row
  <2> SUFFICES ASSUME NEW u \in Task, task'[u].at = "calling"
               PROVE  /\ task'[u].run \in DOMAIN runs'
                      /\ runs'[task'[u].run].task = u
                      /\ runs'[task'[u].run].packet = task'[u].packet
    BY DEF CallsOwn
  <2>1. CASE u = t
    BY <1>1, <1>2, <1>3, <1>5, <2>1
  <2>2. CASE u # t
    BY <1>3, <1>4, <1>5, <2>2 DEF CallsOwn, ClaimsKept, ClaimKept
  <2> QED BY <2>1, <2>2
<1> QED BY <1>4, <1>6

\* Only Call makes a task one whose provider works.
LEMMA CallsElsewhere ==
    ASSUME TypeOK, NEW t \in Task,
           \/ Intake(t) \/ BindSession(t) \/ Return(t, Answer) \/ Seal(t) \/ Finish(t)
           \/ Reconcile(t) \/ Crash(t) \/ BlockOrphan(t) \/ EditCandidate(t),
           NEW u \in Task, task'[u].at = "calling"
    PROVE  task'[u] = task[u]
<1>1. task \in [Task -> TaskRow] /\ task[t] \in TaskFields
  BY DEF TypeOK, TaskRow
<1>2. CASE Reconcile(t) \/ EditCandidate(t)
  BY <1>2 DEF Reconcile, EditCandidate
<1>3. CASE Intake(t) \/ BindSession(t) \/ Return(t, Answer) \/ Seal(t)
  BY <1>1, <1>3 DEF Intake, BindSession, Return, Returned, Seal, TaskFields
<1>4. CASE Finish(t) \/ Crash(t) \/ BlockOrphan(t)
  BY <1>1, <1>4 DEF Finish, Crash, BlockOrphan, TaskFields
<1> QED BY <1>2, <1>3, <1>4

LEMMA StepReady ==
    ASSUME IInv, CallsOwn, [Next]_vars
    PROVE  ReadyHeld /\ CallsOwn'
<1>1. TypeOK
  BY DEF IInv
<1>2. CASE UNCHANGED <<runs, task>>
  BY <1>1, <1>2, SameReady, CallsStay
<1>3. ASSUME NEW t \in Task,
             \/ Intake(t) \/ BindSession(t) \/ Return(t, Answer) \/ Seal(t) \/ Finish(t)
             \/ Reconcile(t) \/ Crash(t) \/ BlockOrphan(t) \/ EditCandidate(t)
      PROVE  ReadyHeld /\ CallsOwn'
  <2>1. CASE Intake(t) \/ BindSession(t) \/ Crash(t) \/ EditCandidate(t)
    <3>1. UNCHANGED runs
      BY <2>1 DEF Intake, BindSession, Crash, EditCandidate
    <3> QED BY <1>1, <1>3, <3>1, SameReady, CallsElsewhere, CallsStay
  <2>2. CASE Return(t, Answer)
    BY <1>1, <1>3, <2>2, ReturnReady, CallsElsewhere, CallsStay
  <2>3. CASE Seal(t) \/ BlockOrphan(t)
    BY <1>1, <1>3, <2>3, SealReady, CallsElsewhere, CallsStay
  <2>4. CASE Finish(t) \/ Reconcile(t)
    <3>1. UNCHANGED runs \/ \E s, r : HandOver(s, r)
      BY <2>4 DEF Finish, Reconcile
    <3> QED BY <1>1, <1>3, <3>1, SameReady, HandOverReady, CallsElsewhere, CallsStay
  <2> QED BY <1>3, <2>1, <2>2, <2>3, <2>4
<1>4. ASSUME NEW t \in Task, Call(t) PROVE ReadyHeld /\ CallsOwn'
  BY <1>1, <1>4, CallReady
<1>5. CASE \E s \in Series : RegisterNew(s) \/ Rehydrate(s)
  BY <1>2, <1>5 DEF RegisterNew, Rehydrate
<1>6. CASE \E s \in Series, x \in Receipted : RegisterImport(s, x)
  BY <1>2, <1>6 DEF RegisterImport
<1> QED BY <1>2, <1>3, <1>4, <1>5, <1>6 DEF Next, vars

\* A worktree review is ready only of the candidate its packet was built from,
\* whoever edited it meanwhile (Controller._invoke_runner compares the two when
\* the call is over), for every set of tasks, answers and edits.
THEOREM ReadyIsReviewed == Spec => ReadyOnUnchanged
<1>1. Init => CallsOwn
  BY DEF Init, NoTask, CallsOwn
<1>2. IInv /\ CallsOwn /\ [Next]_vars
        => [\A r \in DOMAIN runs :
               runs'[r].outcome = "ready" /\ runs[r].outcome # "ready" =>
                  KindOf[runs[r].task] = "spec" \/ candidate[runs[r].task] = runs[r].packet]_vars
  BY StepReady DEF ReadyHeld
<1> QED BY <1>1, <1>2, Initially, Inductive, StepReady, PTL DEF Spec, ReadyOnUnchanged
=============================================================================
