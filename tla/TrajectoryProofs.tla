-------------------------- MODULE TrajectoryProofs --------------------------
(***************************************************************************)
(* What holds of Trajectory for every set of sessions and every bound:     *)
(* which transactions the event store may undo, what a replay knows of the *)
(* provider calls, and when it agrees with the canonical rows.             *)
(***************************************************************************)
EXTENDS Trajectory, SequenceTheorems, WellFoundedInduction, TLAPS

-----------------------------------------------------------------------------
\* The inductive invariant.

RunStatuses == {"running", "committed", "blocked", "paused"}
Kinds ==
    Provider \cup SessionKinds \cup
    {"task.created", "task.transition.committed", "stage.claimed", "stage.settled",
     "evidence.sealed", "migration.baseline"}
MaybeSession == Sessions \cup {None}

RunRows == [status : RunStatuses, sealed : BOOLEAN, session : MaybeSession, writes : BOOLEAN]
EventRows ==
    [kind : Kinds, rev : Nat, run : Nat, seq : Nat, says : TASK_STATUSES \cup {None, "success"},
     session : MaybeSession, sealed : BOOLEAN, pred : Nat]
TaskRows == [status : TASK_STATUSES \cup {None}, revision : Nat]

TypesFit ==
    /\ gate \in BOOLEAN
    /\ task \in TaskRows
    /\ transitions \in Seq(TASK_STATUSES)
    /\ runs \in Seq(RunRows)
    /\ events \in Seq(EventRows)
    /\ gap \in [open : BOOLEAN, count : Nat]

\* A running task has one running run, the last, not sealed yet; no commit came
\* after its claim.  No other run is running.
OneBusyRun ==
    /\ task.status = "running" =>
          /\ runs # <<>>
          /\ runs[Len(runs)].status = "running"
          /\ ~runs[Len(runs)].sealed
          /\ gap.open = ~runs[Len(runs)].writes
    /\ \A r \in DOMAIN runs :
          runs[r].status = "running" => r = Len(runs) /\ task.status = "running"

\* Before the submission there is nothing.
Submitted ==
    task.status = None =>
        /\ events = <<>> /\ runs = <<>> /\ transitions = <<>> /\ task.revision = 0
        /\ gap = [open |-> FALSE, count |-> 0]

\* What an event refers to is there; a provider event is about a run that was
\* claimed by a process that writes events.
Mirrored ==
    \A e \in Range(events) :
        /\ e.run \in {0} \cup DOMAIN runs
        /\ e.kind = "task.transition.committed" => e.seq \in DOMAIN transitions
        /\ e.kind \in Provider => e.run \in DOMAIN runs /\ runs[e.run].writes
        /\ e.kind \in {"evidence.sealed", "stage.claimed", "stage.settled"} => e.run \in DOMAIN runs

\* The store knows of a running call its intent, in the session it was bound to.
Intended ==
    \A r \in DOMAIN runs :
        runs[r].status = "running" /\ runs[r].writes =>
            /\ OfRun(events, r, {"provider.dispatch_intent"}) # {}
            /\ \A e \in OfRun(events, r, Provider) :
                  e.kind = "provider.dispatch_intent" /\ e.session = runs[r].session

\* A result is recorded with the seal of its run, and says what became of it.
ResultsKnown ==
    \A r \in DOMAIN runs :
        LET settled == OfRun(events, r, {"provider.settled"}) IN
        /\ runs[r].writes /\ runs[r].sealed => settled # {}
        /\ \A e \in settled :
              /\ runs[r].sealed
              /\ e.says \in {"success", "blocked", "paused"}
              /\ e.says = "success" => runs[r].status = "committed"

\* With an event at every commit, the attempts tell the rows of the runs.
AttemptsTold ==
    gap.count = 0 =>
        \A r \in DOMAIN runs :
            LET settled == OfRun(events, r, {"stage.settled"}) IN
            /\ settled = {} <=> runs[r].status = "running"
            /\ \A e \in settled : Committed(e.says) = runs[r].status /\ e.sealed = runs[r].sealed

\* The last event of the task's life, when the last commit wrote its events,
\* tells the task's row.
Told(i) ==
    /\ events[i].kind \in {"task.transition.committed", "stage.claimed"}
    /\ events[i].rev = task.revision
    /\ task.status = IF events[i].kind = "stage.claimed" THEN "running" ELSE events[i].says
    /\ \A j \in DOMAIN events :
          j > i => events[j].kind \notin Lifecycle \cup {"migration.baseline"}

LatestTold ==
    task.status # None /\ ~gap.open => \E i \in DOMAIN events : Told(i)

\* One baseline at most, written when the first stretch without events ends,
\* and the transitions it does not cover have their events.
BaselineCovers ==
    /\ gap.open => gap.count > 0
    /\ gap.count = 0 \/ (gap.count = 1 /\ gap.open) => Of(events, {"migration.baseline"}) = {}
    /\ gap.count = 0 /\ task.status # None => Of(events, {"task.created"}) # {}
    /\ \A i, j \in DOMAIN events :
          events[i].kind = "migration.baseline" /\ events[j].kind = "migration.baseline" => i = j
    /\ gap.count <= 1 /\ ~gap.open =>
          \A q \in DOMAIN transitions :
              q \in Live(events) \/ \E e \in Of(events, {"migration.baseline"}) : q <= e.seq

\* Each event was appendable after those before it, and no revision goes back.
Accepts(log, es) == \A i \in DOMAIN es : Appendable(log \o SubSeq(es, 1, i - 1), es[i])
Rising(es) == \A i, j \in DOMAIN es : i <= j => es[i].rev <= es[j].rev
Chained ==
    /\ Accepts(<<>>, events)
    /\ Rising(events)
    /\ \A e \in Range(events) : e.rev <= task.revision

\* What was undone is the commit of a run, whose session is the run's own.
RefusedFits == OnlyRaisedBoundCallRefused /\ \A x \in refused : x[3] \in DOMAIN runs

IInv ==
    /\ TypesFit /\ OneBusyRun /\ Submitted /\ Mirrored /\ Intended /\ ResultsKnown
    /\ AttemptsTold /\ LatestTold /\ BaselineCovers /\ Chained /\ RefusedFits

-----------------------------------------------------------------------------
\* Facts about logs of events.

LEMMA OfRange ==
    ASSUME NEW log
    PROVE  /\ \A K : Of(log, K) = {e \in Range(log) : e.kind \in K}
           /\ \A K, r : OfRun(log, r, K) = {e \in Range(log) : e.kind \in K /\ e.run = r}
<1>1. \A K : Of(log, K) = {e \in Range(log) : e.kind \in K}
  BY DEF Of, Range
<1> QED BY <1>1 DEF OfRun

LEMMA OneEvent ==
    ASSUME NEW e \in EventRows
    PROVE  /\ <<e>> \in Seq(EventRows) /\ Len(<<e>>) = 1 /\ <<e>>[1] = e
           /\ Range(<<e>>) = {e} /\ DOMAIN <<e>> = {1}
           /\ Rising(<<e>>)
BY DEF Range, Rising, EventRows

LEMMA NoEvent ==
    /\ <<>> \in Seq(EventRows) /\ Range(<<>>) = {} /\ Rising(<<>>)
    /\ \A log : Accepts(log, <<>>)
BY DEF Range, Rising, Accepts

LEMMA Joined ==
    ASSUME NEW a \in Seq(EventRows), NEW b \in Seq(EventRows)
    PROVE  /\ a \o b \in Seq(EventRows)
           /\ Len(a \o b) = Len(a) + Len(b)
           /\ DOMAIN (a \o b) = 1..(Len(a) + Len(b))
           /\ \A i \in DOMAIN a : (a \o b)[i] = a[i]
           /\ \A i \in DOMAIN b : (a \o b)[Len(a) + i] = b[i]
           /\ Range(a \o b) = Range(a) \cup Range(b)
<1>1. Range(a \o b) = Range(a) \cup Range(b)
  BY RangeConcatenation
<1> QED BY <1>1

LEMMA RisingJoined ==
    ASSUME NEW a \in Seq(EventRows), NEW b \in Seq(EventRows), Rising(a), Rising(b),
           \A e \in Range(a) : \A f \in Range(b) : e.rev <= f.rev
    PROVE  Rising(a \o b)
<1> SUFFICES ASSUME NEW i \in DOMAIN (a \o b), NEW j \in DOMAIN (a \o b), i <= j
             PROVE  (a \o b)[i].rev <= (a \o b)[j].rev
  BY DEF Rising
<1>1. i \in 1..(Len(a) + Len(b)) /\ j \in 1..(Len(a) + Len(b)) /\ Len(a) \in Nat /\ Len(b) \in Nat
  BY Joined
<1>2. CASE j <= Len(a)
  <2>1. i \in DOMAIN a /\ j \in DOMAIN a
    BY <1>1, <1>2
  <2> QED BY <2>1, Joined DEF Rising
<1>3. CASE i > Len(a)
  <2>1. i - Len(a) \in DOMAIN b /\ j - Len(a) \in DOMAIN b
    BY <1>1, <1>3
  <2>2. (a \o b)[i] = b[i - Len(a)] /\ (a \o b)[j] = b[j - Len(a)]
    BY <1>1, <1>3
  <2> QED BY <1>1, <2>1, <2>2 DEF Rising
<1>4. CASE i <= Len(a) /\ j > Len(a)
  <2>1. i \in DOMAIN a /\ j - Len(a) \in DOMAIN b
    BY <1>1, <1>4
  <2>2. (a \o b)[i] = a[i] /\ (a \o b)[j] = b[j - Len(a)]
    BY <1>1, <1>4
  <2>3. a[i] \in Range(a) /\ b[j - Len(a)] \in Range(b)
    BY <2>1 DEF Range
  <2> QED BY <2>2, <2>3
<1> QED BY <1>1, <1>2, <1>3, <1>4

LEMMA AcceptsOne ==
    ASSUME NEW log \in Seq(EventRows), NEW e \in EventRows
    PROVE  Accepts(log, <<e>>) <=> Appendable(log, e)
<1>1. DOMAIN <<e>> = {1} /\ <<e>>[1] = e
  BY OneEvent
<1>2. SubSeq(<<e>>, 1, 1 - 1) = <<>>
  BY SubSeqEmpty
<1>3. log \o <<>> = log
  BY ConcatEmptySeq
<1> QED BY <1>1, <1>2, <1>3 DEF Accepts

\* What a log accepts one after the other it accepts at once.
LEMMA AcceptsJoined ==
    ASSUME NEW log \in Seq(EventRows), NEW a \in Seq(EventRows), NEW b \in Seq(EventRows),
           Accepts(log, a), Accepts(log \o a, b)
    PROVE  Accepts(log, a \o b)
<1> SUFFICES ASSUME NEW i \in DOMAIN (a \o b)
             PROVE  Appendable(log \o SubSeq(a \o b, 1, i - 1), (a \o b)[i])
  BY DEF Accepts
<1>1. i \in 1..(Len(a) + Len(b)) /\ Len(a) \in Nat /\ Len(b) \in Nat
  BY Joined
<1>2. CASE i <= Len(a)
  <2>1. i \in DOMAIN a /\ (a \o b)[i] = a[i]
    BY <1>1, <1>2
  <2>2. SubSeq(a \o b, 1, i - 1) = SubSeq(a, 1, i - 1)
    <3>1. CASE i = 1
      BY <3>1, SubSeqEmpty
    <3>2. CASE i # 1
      <4>1. 1 \in 1..Len(a) /\ i - 1 \in 1..Len(a)
        BY <1>1, <1>2, <3>2
      <4> QED BY <4>1, SubSeqOfConcat1
    <3> QED BY <3>1, <3>2
  <2> QED BY <2>1, <2>2 DEF Accepts
<1>3. CASE i > Len(a)
  <2> DEFINE k == i - Len(a)
  <2>1. k \in DOMAIN b /\ (a \o b)[i] = b[k] /\ k \in Nat /\ i = Len(a) + k
    BY <1>1, <1>3
  <2>2. SubSeq(b, 1, k - 1) \in Seq(EventRows) /\ Len(SubSeq(b, 1, k - 1)) = k - 1
    <3>1. \A j \in 1..(k - 1) : b[j] \in EventRows
      BY <1>1, <2>1
    <3> QED BY <2>1, <3>1, SubSeqProperties
  <2> HIDE DEF k
  <2>3. SubSeq(a \o b, 1, i - 1) = a \o SubSeq(b, 1, k - 1)
    <3> DEFINE left == SubSeq(a \o b, 1, i - 1)
               right == a \o SubSeq(b, 1, k - 1)
    <3>1. \A j \in 1..(i - 1) : (a \o b)[j] \in EventRows
      BY <1>1
    <3>2. /\ left \in Seq(EventRows) /\ Len(left) = i - 1
          /\ \A j \in 1..(i - 1) : left[j] = (a \o b)[j]
      BY <1>1, <3>1, SubSeqProperties
    <3>3. right \in Seq(EventRows) /\ Len(right) = i - 1
      BY SMTT(30), <1>1, <2>1, <2>2
    <3>4. \A j \in 1..(k - 1) : SubSeq(b, 1, k - 1)[j] = b[j]
      BY <1>1, <2>1
    <3>5. \A j \in 1..(i - 1) : right[j] = (a \o b)[j]
      BY SMTT(30), <1>1, <2>1, <2>2, <3>4
    <3> HIDE DEF left, right
    <3>6. left = right
      BY <3>2, <3>3, <3>5, SeqEqual
    <3> QED BY <3>6 DEF left, right
  <2>4. log \o (a \o SubSeq(b, 1, k - 1)) = (log \o a) \o SubSeq(b, 1, k - 1)
    <3> DEFINE u == SubSeq(b, 1, k - 1)
    <3>1. u \in Seq(EventRows)
      BY <2>2
    <3> HIDE DEF u
    <3>2. (log \o a) \o u = log \o (a \o u)
      BY <3>1, ConcatAssociative
    <3> QED BY <3>2 DEF u
  <2>5. Appendable((log \o a) \o SubSeq(b, 1, k - 1), b[k])
    BY <2>1 DEF Accepts
  <2> QED BY <2>1, <2>3, <2>4, <2>5
<1> QED BY <1>1, <1>2, <1>3

-----------------------------------------------------------------------------
\* What every transaction of the controller has in common: es are its events,
\* t, ts and rs the rows it leaves.

RowsGrow(t, ts, rs) ==
    /\ t \in TaskRows /\ t.status # None /\ task.revision <= t.revision
    /\ ts \in Seq(TASK_STATUSES) /\ DOMAIN transitions \subseteq DOMAIN ts
    /\ rs \in Seq(RunRows) /\ DOMAIN runs \subseteq DOMAIN rs
    /\ \A r \in DOMAIN runs :
          /\ rs[r].session = runs[r].session
          /\ rs[r].writes = runs[r].writes
          /\ r # Len(rs) => rs[r] = runs[r]
          /\ runs[r].sealed => rs[r].sealed
          /\ runs[r].status = "committed" => rs[r].status = "committed"

\* Without events no run of a process that writes them is sealed.
SealFits(rs, writes) ==
    ~writes => \A r \in DOMAIN rs : rs[r].sealed /\ rs[r].writes => r \in DOMAIN runs /\ runs[r].sealed

BusyFits(t, rs, writes) ==
    /\ t.status = "running" =>
          /\ rs # <<>>
          /\ rs[Len(rs)].status = "running" /\ ~rs[Len(rs)].sealed
          /\ rs[Len(rs)].writes = writes
    /\ \A r \in DOMAIN rs :
          rs[r].status = "running" => r = Len(rs) /\ t.status = "running"

Trail(es, t, ts, rs) ==
    /\ es \in Seq(EventRows) /\ Rising(es)
    /\ \A e \in Range(es) :
          /\ task.revision <= e.rev /\ e.rev <= t.revision
          /\ e.run \in {0} \cup DOMAIN rs
          /\ e.kind = "task.transition.committed" => e.seq \in DOMAIN ts /\ ts[e.seq] = e.says
          /\ e.kind \in Provider => e.run \in DOMAIN rs /\ rs[e.run].writes
          /\ e.kind \in {"evidence.sealed", "stage.claimed", "stage.settled"} => e.run \in DOMAIN rs

IntentFits(es, t, rs) ==
    t.status = "running" =>
        /\ Len(rs) \notin DOMAIN runs
        /\ \E e \in Range(es) : e.kind = "provider.dispatch_intent" /\ e.run = Len(rs)
        /\ \A e \in Range(es) :
              e.kind \in Provider => e.kind = "provider.dispatch_intent" /\ e.session = rs[Len(rs)].session

ResultFits(es, rs) ==
    /\ \A r \in DOMAIN rs :
          rs[r].sealed =>
              \/ r \in DOMAIN runs /\ runs[r].sealed
              \/ ~rs[r].writes
              \/ \E e \in Range(es) : e.kind = "provider.settled" /\ e.run = r
    /\ \A e \in Range(es) :
          e.kind = "provider.settled" =>
              /\ rs[e.run].sealed
              /\ e.says \in {"success", "blocked", "paused"}
              /\ e.says = "success" => rs[e.run].status = "committed"

AttemptFits(es, rs) ==
    \A r \in DOMAIN rs :
        LET settled == {e \in Range(es) : e.kind = "stage.settled" /\ e.run = r} IN
        \/ /\ r \in DOMAIN runs
           /\ rs[r].status = runs[r].status /\ rs[r].sealed = runs[r].sealed
           /\ settled = {}
        \/ /\ r \in DOMAIN runs => runs[r].status = "running"
           /\ settled = {} <=> rs[r].status = "running"
           /\ \A e \in settled : Committed(e.says) = rs[r].status /\ e.sealed = rs[r].sealed

LastFits(es, t) ==
    \E i \in DOMAIN es :
        /\ es[i].kind \in {"task.transition.committed", "stage.claimed"}
        /\ es[i].rev = t.revision
        /\ t.status = IF es[i].kind = "stage.claimed" THEN "running" ELSE es[i].says
        /\ \A j \in DOMAIN es : j > i => es[j].kind \notin Lifecycle \cup {"migration.baseline"}

CoverFits(es, ts) ==
    /\ \A q \in DOMAIN ts :
          q \in DOMAIN transitions \/ \E e \in Range(es) : e.kind = "task.transition.committed" /\ e.seq = q
    /\ \A i \in DOMAIN es :
          es[i].kind = "migration.baseline" => i = 1 /\ NeedsBaseline /\ task.status # None
    /\ NeedsBaseline /\ gap.open =>
          \E e \in Range(es) : e.kind = "migration.baseline" /\ e.seq = Len(transitions)
    /\ task.status = None => \E e \in Range(es) : e.kind = "task.created"

EventsFit(es, t, ts, rs) ==
    /\ Trail(es, t, ts, rs) /\ IntentFits(es, t, rs) /\ ResultFits(es, rs)
    /\ AttemptFits(es, rs) /\ LastFits(es, t) /\ CoverFits(es, ts)

Fits(es, t, ts, rs, writes) ==
    /\ RowsGrow(t, ts, rs) /\ BusyFits(t, rs, writes) /\ SealFits(rs, writes)
    /\ writes => EventsFit(es, t, ts, rs)

\* The one commit the store may undo.
RaisedBound(what) ==
    /\ what = <<"commit", "raised">>
    /\ runs # <<>> /\ runs[Len(runs)].session # None

Storable(es, t, ts, rs, what) ==
    \/ AllAppendable(es) /\ Parity(es, t, ts, rs)
    \/ RaisedBound(what)

\* The three ways a transaction ends.
Recorded(es, t, ts, rs) ==
    /\ task' = t /\ transitions' = ts /\ runs' = rs
    /\ events' = events \o es
    /\ gap' = [open |-> FALSE, count |-> gap.count]
    /\ refused' = refused
    /\ Accepts(events, es)

Silent(t, ts, rs) ==
    /\ task' = t /\ transitions' = ts /\ runs' = rs
    /\ events' = events
    /\ gap' = [open |-> TRUE, count |-> gap.count + (IF gap.open THEN 0 ELSE 1)]
    /\ refused' = refused

Undone ==
    /\ UNCHANGED <<canonical, events, gap>>
    /\ \/ refused' = refused
       \/ \E what : RaisedBound(what) /\ refused' = refused \cup {Append(what, Len(runs))}

LEMMA TransactEnds ==
    ASSUME NEW writes \in BOOLEAN, NEW es, NEW t, NEW ts, NEW rs, NEW what,
           Transact(writes, es, t, ts, rs, what), TypesFit,
           writes => Storable(es, t, ts, rs, what)
    PROVE  /\ gate' = gate
           /\ \/ writes /\ Recorded(es, t, ts, rs)
              \/ ~writes /\ Silent(t, ts, rs)
              \/ Undone
<1>1. AllAppendable(es) <=> Accepts(events, es)
  BY DEF AllAppendable, Accepts
<1>2. gate' = gate
  BY DEF Transact
<1>3. CASE writes /\ ~(AllAppendable(es) /\ Parity(es, t, ts, rs))
  <2>1. RaisedBound(what)
    BY <1>3 DEF Storable
  <2>2. refused' = refused \cup {Append(what, Len(runs))} /\ UNCHANGED <<canonical, events, gap>>
    BY <1>3 DEF Transact
  <2> QED BY <1>2, <2>1, <2>2 DEF Undone
<1>4. CASE ~(writes /\ ~(AllAppendable(es) /\ Parity(es, t, ts, rs)))
  <2>1. /\ task' = t /\ transitions' = ts /\ runs' = rs
        /\ events' = IF writes THEN events \o es ELSE events
        /\ gap' = [open |-> ~writes,
                   count |-> gap.count + (IF writes \/ gap.open THEN 0 ELSE 1)]
        /\ refused' = refused
    BY <1>4 DEF Transact
  <2>2. CASE writes
    <3>1. gap' = [open |-> FALSE, count |-> gap.count + 0]
      BY <2>1, <2>2
    <3>2. gap.count + 0 = gap.count
      BY DEF TypesFit
    <3>3. Accepts(events, es) /\ events' = events \o es
      BY <1>1, <1>4, <2>1, <2>2
    <3> QED BY <1>2, <2>1, <2>2, <3>1, <3>2, <3>3 DEF Recorded
  <2>3. CASE ~writes
    BY <1>2, <2>1, <2>3 DEF Silent
  <2> QED BY <2>2, <2>3
<1> QED BY <1>3, <1>4

-----------------------------------------------------------------------------
\* The invariant after a transaction that is recorded, or kept without events.

LEMMA RecordedRange ==
    ASSUME TypesFit, NEW es \in Seq(EventRows), events' = events \o es
    PROVE  /\ events' \in Seq(EventRows)
           /\ Range(events') = Range(events) \cup Range(es)
           /\ \A K : Of(events', K) = Of(events, K) \cup {e \in Range(es) : e.kind \in K}
           /\ \A K, r : OfRun(events', r, K) =
                 OfRun(events, r, K) \cup {e \in Range(es) : e.kind \in K /\ e.run = r}
<1>1. events \in Seq(EventRows)
  BY DEF TypesFit
<1>2. events' \in Seq(EventRows) /\ Range(events') = Range(events) \cup Range(es)
  BY <1>1, Joined
<1>3. \A K : Of(events', K) = {e \in Range(events') : e.kind \in K}
  BY OfRange
<1>4. \A K, r : OfRun(events', r, K) = {e \in Range(events') : e.kind \in K /\ e.run = r}
  BY OfRange
<1>5. \A K : Of(events, K) = {e \in Range(events) : e.kind \in K}
  BY OfRange
<1>6. \A K, r : OfRun(events, r, K) = {e \in Range(events) : e.kind \in K /\ e.run = r}
  BY OfRange
<1>7. \A K : Of(events', K) = Of(events, K) \cup {e \in Range(es) : e.kind \in K}
  BY <1>2, <1>3, <1>5
<1>8. \A K, r : OfRun(events', r, K) =
                 OfRun(events, r, K) \cup {e \in Range(es) : e.kind \in K /\ e.run = r}
  BY <1>2, <1>4, <1>6
<1> QED BY <1>2, <1>7, <1>8

LEMMA RowsAfter ==
    ASSUME TypesFit, OneBusyRun, NEW t, NEW ts, NEW rs, NEW writes \in BOOLEAN, gate' = gate,
           RowsGrow(t, ts, rs), BusyFits(t, rs, writes),
           task' = t, transitions' = ts, runs' = rs, events' \in Seq(EventRows),
           gap' \in [open : BOOLEAN, count : Nat], gap'.open = ~writes
    PROVE  TypesFit' /\ OneBusyRun' /\ Submitted'
<1>1. TypesFit'
  BY DEF TypesFit, RowsGrow
<1>2. OneBusyRun'
  <2>1. rs # <<>> => Len(rs) \in DOMAIN rs /\ rs[Len(rs)] \in RunRows
    BY DEF RowsGrow
  <2> QED BY <2>1 DEF OneBusyRun, BusyFits, RunRows
<1>3. Submitted'
  BY DEF Submitted, RowsGrow
<1> QED BY <1>1, <1>2, <1>3

LEMMA MirroredStep ==
    ASSUME TypesFit, Mirrored, NEW es, NEW t, NEW ts, NEW rs,
           RowsGrow(t, ts, rs), Trail(es, t, ts, rs), Recorded(es, t, ts, rs)
    PROVE  Mirrored'
<1>1. /\ transitions' = ts /\ runs' = rs
      /\ DOMAIN transitions \subseteq DOMAIN ts /\ DOMAIN runs \subseteq DOMAIN rs
      /\ \A r \in DOMAIN runs : rs[r].writes = runs[r].writes
  BY DEF Recorded, RowsGrow
<1>2. Range(events') \subseteq Range(events) \cup Range(es)
  BY RecordedRange DEF Recorded, Trail
<1>3. ASSUME NEW e \in Range(events)
      PROVE  /\ e.run \in {0} \cup DOMAIN rs
             /\ e.kind = "task.transition.committed" => e.seq \in DOMAIN ts
             /\ e.kind \in Provider => e.run \in DOMAIN rs /\ rs[e.run].writes
             /\ e.kind \in {"evidence.sealed", "stage.claimed", "stage.settled"} => e.run \in DOMAIN rs
  BY <1>1 DEF Mirrored
<1>4. ASSUME NEW e \in Range(es)
      PROVE  /\ e.run \in {0} \cup DOMAIN rs
             /\ e.kind = "task.transition.committed" => e.seq \in DOMAIN ts
             /\ e.kind \in Provider => e.run \in DOMAIN rs /\ rs[e.run].writes
             /\ e.kind \in {"evidence.sealed", "stage.claimed", "stage.settled"} => e.run \in DOMAIN rs
  BY DEF Trail
<1> QED BY <1>1, <1>2, <1>3, <1>4 DEF Mirrored

LEMMA IntendedStep ==
    ASSUME TypesFit, Mirrored, NEW es, NEW t, NEW ts, NEW rs,
           RowsGrow(t, ts, rs), BusyFits(t, rs, TRUE), Trail(es, t, ts, rs), IntentFits(es, t, rs),
           Recorded(es, t, ts, rs)
    PROVE  Intended'
<1> SUFFICES ASSUME NEW r \in DOMAIN rs, rs[r].status = "running", rs[r].writes
             PROVE  /\ OfRun(events', r, {"provider.dispatch_intent"}) # {}
                    /\ \A e \in OfRun(events', r, Provider) :
                          e.kind = "provider.dispatch_intent" /\ e.session = rs[r].session
  BY DEF Intended, Recorded
<1>1. r = Len(rs) /\ t.status = "running"
  BY DEF BusyFits
<1>3. r \notin DOMAIN runs
  BY <1>1 DEF IntentFits
<1>4. OfRun(events, r, Provider) = {}
  <2>1. \A e \in Range(events) : e.kind \in Provider => e.run \in DOMAIN runs
    BY DEF Mirrored
  <2> QED BY <1>3, <2>1, OfRange
<1>5. \A K : OfRun(events', r, K) =
                 OfRun(events, r, K) \cup {e \in Range(es) : e.kind \in K /\ e.run = r}
  BY RecordedRange DEF Recorded, Trail
<1>6. OfRun(events', r, {"provider.dispatch_intent"}) # {}
  <2>1. PICK e \in Range(es) : e.kind = "provider.dispatch_intent" /\ e.run = Len(rs)
    BY <1>1 DEF IntentFits
  <2> QED BY <1>1, <1>5, <2>1
<1>7. ASSUME NEW e \in OfRun(events', r, Provider)
      PROVE  e.kind = "provider.dispatch_intent" /\ e.session = rs[r].session
  <2>1. e \in Range(es) /\ e.kind \in Provider
    BY <1>4, <1>5
  <2> QED BY <1>1, <2>1 DEF IntentFits
<1> QED BY <1>6, <1>7

LEMMA ResultsStep ==
    ASSUME TypesFit, Mirrored, ResultsKnown, NEW es, NEW t, NEW ts, NEW rs,
           RowsGrow(t, ts, rs), Trail(es, t, ts, rs), ResultFits(es, rs), Recorded(es, t, ts, rs)
    PROVE  ResultsKnown'
<1> SUFFICES ASSUME NEW r \in DOMAIN rs
             PROVE  /\ rs[r].writes /\ rs[r].sealed => OfRun(events', r, {"provider.settled"}) # {}
                    /\ \A e \in OfRun(events', r, {"provider.settled"}) :
                          /\ rs[r].sealed
                          /\ e.says \in {"success", "blocked", "paused"}
                          /\ e.says = "success" => rs[r].status = "committed"
  BY DEF ResultsKnown, Recorded
<1> DEFINE K == {"provider.settled"}
<1>1. \A e \in OfRun(events, r, K) : e \in Range(events) /\ e.kind = "provider.settled" /\ e.run = r
  BY OfRange
<1>2. \A e \in OfRun(events, r, K) : r \in DOMAIN runs
  BY <1>1 DEF Mirrored, Provider
<1>3. r \in DOMAIN runs =>
        /\ runs[r].writes = rs[r].writes
        /\ runs[r].writes /\ runs[r].sealed => OfRun(events, r, K) # {}
        /\ \A e \in OfRun(events, r, K) :
              /\ runs[r].sealed
              /\ e.says \in {"success", "blocked", "paused"}
              /\ e.says = "success" => runs[r].status = "committed"
        /\ runs[r].sealed => rs[r].sealed
        /\ runs[r].status = "committed" => rs[r].status = "committed"
  BY DEF ResultsKnown, RowsGrow
<1>4. \A e \in OfRun(events, r, K) :
          /\ rs[r].sealed
          /\ e.says \in {"success", "blocked", "paused"}
          /\ e.says = "success" => rs[r].status = "committed"
  BY <1>2, <1>3
<1>5. OfRun(events', r, K) = OfRun(events, r, K) \cup {e \in Range(es) : e.kind \in K /\ e.run = r}
  BY RecordedRange DEF Recorded, Trail
<1>6. \A e \in Range(es) : e.kind \in K /\ e.run = r =>
        /\ rs[r].sealed
        /\ e.says \in {"success", "blocked", "paused"}
        /\ e.says = "success" => rs[r].status = "committed"
  BY DEF ResultFits
<1>7. rs[r].writes /\ rs[r].sealed => OfRun(events', r, K) # {}
  <2>1. rs[r].writes /\ rs[r].sealed =>
            \/ r \in DOMAIN runs /\ runs[r].sealed
            \/ \E e \in Range(es) : e.kind = "provider.settled" /\ e.run = r
    BY DEF ResultFits
  <2> QED BY <1>3, <1>5, <2>1
<1> HIDE DEF K
<1>8. \A e \in OfRun(events', r, K) :
        /\ rs[r].sealed
        /\ e.says \in {"success", "blocked", "paused"}
        /\ e.says = "success" => rs[r].status = "committed"
  BY <1>4, <1>5, <1>6
<1> QED BY <1>7, <1>8 DEF K

LEMMA AttemptsStep ==
    ASSUME TypesFit, Mirrored, AttemptsTold, NEW es, NEW t, NEW ts, NEW rs,
           RowsGrow(t, ts, rs), Trail(es, t, ts, rs), AttemptFits(es, rs), Recorded(es, t, ts, rs)
    PROVE  AttemptsTold'
<1> DEFINE K == {"stage.settled"}
<1> SUFFICES ASSUME gap.count = 0, NEW r \in DOMAIN rs
             PROVE  /\ OfRun(events', r, K) = {} <=> rs[r].status = "running"
                    /\ \A e \in OfRun(events', r, K) :
                          Committed(e.says) = rs[r].status /\ e.sealed = rs[r].sealed
  BY DEF AttemptsTold, Recorded
<1> DEFINE new == {e \in Range(es) : e.kind = "stage.settled" /\ e.run = r}
           old == OfRun(events, r, K)
<1>1. OfRun(events', r, K) = old \cup new
  <2>1. OfRun(events', r, K) = OfRun(events, r, K) \cup {e \in Range(es) : e.kind \in K /\ e.run = r}
    BY RecordedRange DEF Recorded, Trail
  <2>2. {e \in Range(es) : e.kind \in K /\ e.run = r} = new
    OBVIOUS
  <2> QED BY <2>1, <2>2
<1>2. r \notin DOMAIN runs => old = {}
  <2>1. \A e \in old : e \in Range(events) /\ e.kind = "stage.settled" /\ e.run = r
    BY OfRange
  <2> QED BY <2>1 DEF Mirrored
<1>3. r \in DOMAIN runs =>
        /\ old = {} <=> runs[r].status = "running"
        /\ \A e \in old : Committed(e.says) = runs[r].status /\ e.sealed = runs[r].sealed
  BY DEF AttemptsTold
<1>4. \/ /\ r \in DOMAIN runs
         /\ rs[r].status = runs[r].status /\ rs[r].sealed = runs[r].sealed
         /\ new = {}
      \/ /\ r \in DOMAIN runs => runs[r].status = "running"
         /\ new = {} <=> rs[r].status = "running"
         /\ \A e \in new : Committed(e.says) = rs[r].status /\ e.sealed = rs[r].sealed
  BY DEF AttemptFits
<1> HIDE DEF old, new, K
<1> QED BY <1>1, <1>2, <1>3, <1>4

LEMMA LatestStep ==
    ASSUME TypesFit, NEW es \in Seq(EventRows), NEW t, LastFits(es, t),
           events' = events \o es, task' = t
    PROVE  LatestTold'
<1>1. PICK i \in DOMAIN es :
        /\ es[i].kind \in {"task.transition.committed", "stage.claimed"}
        /\ es[i].rev = t.revision
        /\ t.status = IF es[i].kind = "stage.claimed" THEN "running" ELSE es[i].says
        /\ \A j \in DOMAIN es : j > i => es[j].kind \notin Lifecycle \cup {"migration.baseline"}
  BY DEF LastFits
<1> DEFINE n == Len(events)
<1>2. /\ n \in Nat /\ Len(es) \in Nat /\ i \in 1..Len(es)
      /\ DOMAIN events' = 1..(n + Len(es))
      /\ \A j \in DOMAIN es : events'[n + j] = es[j]
  BY Joined DEF TypesFit
<1>3. n + i \in DOMAIN events' /\ events'[n + i] = es[i]
  BY <1>2
<1>4. ASSUME NEW j \in DOMAIN events', j > n + i
      PROVE  events'[j].kind \notin Lifecycle \cup {"migration.baseline"}
  <2>1. j - n \in DOMAIN es /\ j - n > i /\ j = n + (j - n)
    BY <1>2, <1>4
  <2>2. events'[j] = es[j - n]
    BY <1>2, <2>1
  <2> QED BY <1>1, <2>1, <2>2
<1> HIDE DEF n
<1>5. \A j \in DOMAIN events' : j > n + i => events'[j].kind \notin Lifecycle \cup {"migration.baseline"}
  BY <1>4
<1>6. ASSUME NEW k, k = n + i PROVE Told(k)'
  BY <1>1, <1>3, <1>5, <1>6 DEF Told
<1>7. \E k \in DOMAIN events' : Told(k)'
  BY <1>3, <1>6
<1> QED BY <1>7 DEF LatestTold

LEMMA CoversStep ==
    ASSUME TypesFit, Submitted, BaselineCovers, NEW es, NEW t, NEW ts, NEW rs,
           RowsGrow(t, ts, rs), Trail(es, t, ts, rs), CoverFits(es, ts), Recorded(es, t, ts, rs)
    PROVE  BaselineCovers'
<1> DEFINE B == {"migration.baseline"}
           n == Len(events)
<1>1. /\ es \in Seq(EventRows) /\ events' = events \o es
      /\ gap' = [open |-> FALSE, count |-> gap.count] /\ transitions' = ts /\ task' = t
      /\ gap.count \in Nat
  BY DEF Recorded, Trail, TypesFit
<1>2. \A K : Of(events', K) = Of(events, K) \cup {e \in Range(es) : e.kind \in K}
  BY <1>1, RecordedRange
<1>3. /\ n \in Nat /\ Len(es) \in Nat /\ DOMAIN events = 1..n /\ DOMAIN es = 1..Len(es)
      /\ DOMAIN events' = 1..(n + Len(es))
      /\ \A j \in DOMAIN events : events'[j] = events[j]
      /\ \A j \in DOMAIN es : events'[n + j] = es[j]
  BY <1>1, Joined DEF TypesFit
<1>4. \A i \in DOMAIN events : events[i].kind = "migration.baseline" => Of(events, B) # {}
  BY DEF Of
<1>5. NeedsBaseline <=> /\ Of(events, B) = {}
                        /\ Of(events, {"task.created"}) = {} \/ ~(DOMAIN transitions \subseteq Live(events))
  BY DEF NeedsBaseline
<1>6. Live(events) \subseteq Live(events')
  BY <1>2 DEF Live
<1>7. gap.count = 0 => Of(events', B) = {}
  <2> SUFFICES ASSUME gap.count = 0 PROVE Of(events', B) = {}
    OBVIOUS
  <2>1. Of(events, B) = {} /\ ~gap.open
    BY <1>1 DEF BaselineCovers
  <2>2. task.status # None => ~NeedsBaseline
    <3>1. task.status # None => Of(events, {"task.created"}) # {}
      BY DEF BaselineCovers
    <3>2. \A q \in DOMAIN transitions : q \in Live(events)
      BY <2>1 DEF BaselineCovers
    <3> QED BY <1>5, <3>1, <3>2
  <2>3. \A i \in DOMAIN es : es[i].kind # "migration.baseline"
    BY <2>2 DEF CoverFits
  <2>4. {e \in Range(es) : e.kind \in B} = {}
    BY <2>3 DEF Range
  <2> QED BY <1>2, <2>1, <2>4
<1>8. gap.count = 0 => Of(events', {"task.created"}) # {}
  <2>1. CASE task.status # None
    BY <1>2, <2>1 DEF BaselineCovers
  <2>2. CASE task.status = None
    <3>1. PICK e \in Range(es) : e.kind = "task.created"
      BY <2>2 DEF CoverFits
    <3> QED BY <1>2, <3>1
  <2> QED BY <2>1, <2>2
<1>9. ASSUME NEW i \in DOMAIN events', NEW j \in DOMAIN events',
             events'[i].kind = "migration.baseline", events'[j].kind = "migration.baseline"
      PROVE  i = j
  <2>1. \A k \in DOMAIN events' : k \in DOMAIN events \/ (k - n \in DOMAIN es /\ events'[k] = es[k - n])
    <3> TAKE k \in DOMAIN events'
    <3>1. CASE k \in DOMAIN events
      BY <3>1
    <3>2. CASE k \notin DOMAIN events
      <4>1. k - n \in DOMAIN es /\ k = n + (k - n)
        BY <1>3, <3>2
      <4>2. events'[n + (k - n)] = es[k - n]
        BY <1>3, <4>1
      <4> QED BY <4>1, <4>2
    <3> QED BY <3>1, <3>2
  <2>2. \A k \in DOMAIN events' : events'[k].kind = "migration.baseline" /\ k \notin DOMAIN events
            => k = n + 1 /\ Of(events, B) = {}
    <3> SUFFICES ASSUME NEW k \in DOMAIN events', events'[k].kind = "migration.baseline", k \notin DOMAIN events
                 PROVE  k = n + 1 /\ Of(events, B) = {}
      OBVIOUS
    <3>1. k - n \in DOMAIN es /\ es[k - n].kind = "migration.baseline" /\ k \in Nat
      BY <1>3, <2>1
    <3>2. k - n = 1 /\ NeedsBaseline
      BY <3>1 DEF CoverFits
    <3> QED BY <1>3, <1>5, <3>1, <3>2
  <2>3. CASE i \in DOMAIN events /\ j \in DOMAIN events
    BY <1>3, <1>9, <2>3 DEF BaselineCovers
  <2>4. CASE i \notin DOMAIN events /\ j \notin DOMAIN events
    BY <1>9, <2>2, <2>4
  <2>5. CASE i \in DOMAIN events /\ j \notin DOMAIN events
    BY <1>3, <1>4, <1>9, <2>2, <2>5
  <2>6. CASE i \notin DOMAIN events /\ j \in DOMAIN events
    BY <1>3, <1>4, <1>9, <2>2, <2>6
  <2> QED BY <2>3, <2>4, <2>5, <2>6
<1>10. ASSUME gap.count <= 1, NEW q \in DOMAIN ts
       PROVE  q \in Live(events') \/ \E e \in Of(events', B) : q <= e.seq
  <2>1. CASE q \notin DOMAIN transitions
    <3>1. PICK e \in Range(es) : e.kind = "task.transition.committed" /\ e.seq = q
      BY <2>1 DEF CoverFits
    <3>2. e \in Of(events', {"task.transition.committed"})
      BY <1>2, <3>1
    <3> QED BY <3>1, <3>2 DEF Live
  <2>2. CASE q \in DOMAIN transitions /\ ~gap.open
    <3>1. q \in Live(events) \/ \E e \in Of(events, B) : q <= e.seq
      BY <1>10, <2>2 DEF BaselineCovers
    <3> QED BY <1>2, <1>6, <3>1
  <2>3. CASE q \in DOMAIN transitions /\ gap.open
    <3>1. Of(events, B) = {}
      BY <1>1, <1>10, <2>3 DEF BaselineCovers
    <3>2. CASE NeedsBaseline
      <4>1. PICK e \in Range(es) : e.kind = "migration.baseline" /\ e.seq = Len(transitions)
        BY <2>3, <3>2 DEF CoverFits
      <4>2. e \in Of(events', B) /\ q <= e.seq
        BY <1>2, <2>3, <4>1 DEF TypesFit
      <4> QED BY <4>2
    <3>3. CASE ~NeedsBaseline
      BY <1>5, <1>6, <2>3, <3>1, <3>3
    <3> QED BY <3>2, <3>3
  <2> QED BY <2>1, <2>2, <2>3
<1> HIDE DEF n
<1> QED BY <1>1, <1>7, <1>8, <1>9, <1>10 DEF BaselineCovers

LEMMA SilentCovers ==
    ASSUME TypesFit, BaselineCovers, NEW t, NEW ts, NEW rs, RowsGrow(t, ts, rs), Silent(t, ts, rs)
    PROVE  AttemptsTold' /\ LatestTold' /\ BaselineCovers'
<1>1. /\ gap'.open = TRUE /\ gap'.count = gap.count + (IF gap.open THEN 0 ELSE 1)
      /\ events' = events /\ gap.count \in Nat
  BY DEF Silent, TypesFit
<1>2. gap'.count \in Nat /\ gap'.count > 0
  BY <1>1 DEF BaselineCovers
<1>3. gap'.count = 1 => Of(events, {"migration.baseline"}) = {}
  BY <1>1 DEF BaselineCovers
<1>4. AttemptsTold' /\ LatestTold'
  BY <1>1, <1>2 DEF AttemptsTold, LatestTold
<1>5. BaselineCovers'
  <2>1. \A i, j \in DOMAIN events' :
          events'[i].kind = "migration.baseline" /\ events'[j].kind = "migration.baseline" => i = j
    BY <1>1 DEF BaselineCovers
  <2> QED BY <1>1, <1>2, <1>3, <2>1 DEF BaselineCovers
<1> QED BY <1>4, <1>5

\* A transaction kept without events.
LEMMA SilentStep ==
    ASSUME TypesFit, Mirrored, ResultsKnown, Chained, NEW t, NEW ts, NEW rs,
           RowsGrow(t, ts, rs), BusyFits(t, rs, FALSE), SealFits(rs, FALSE), Silent(t, ts, rs)
    PROVE  Mirrored' /\ Intended' /\ ResultsKnown' /\ Chained'
<1>1. /\ task' = t /\ transitions' = ts /\ runs' = rs /\ events' = events
      /\ DOMAIN transitions \subseteq DOMAIN ts /\ DOMAIN runs \subseteq DOMAIN rs
      /\ \A r \in DOMAIN runs :
            /\ rs[r].writes = runs[r].writes
            /\ runs[r].sealed => rs[r].sealed
            /\ runs[r].status = "committed" => rs[r].status = "committed"
  BY DEF Silent, RowsGrow
<1>2. Mirrored'
  BY <1>1 DEF Mirrored
<1>3. Intended'
  <2>1. \A r \in DOMAIN rs : rs[r].status = "running" => ~rs[r].writes
    BY DEF BusyFits
  <2> QED BY <1>1, <2>1 DEF Intended
<1>4. ResultsKnown'
  <2> SUFFICES ASSUME NEW r \in DOMAIN rs
               PROVE  /\ rs[r].writes /\ rs[r].sealed => OfRun(events, r, {"provider.settled"}) # {}
                      /\ \A e \in OfRun(events, r, {"provider.settled"}) :
                            /\ rs[r].sealed
                            /\ e.says \in {"success", "blocked", "paused"}
                            /\ e.says = "success" => rs[r].status = "committed"
    BY <1>1 DEF ResultsKnown
  <2> DEFINE settled == OfRun(events, r, {"provider.settled"})
  <2>1. \A e \in settled : r \in DOMAIN runs
    <3>1. \A e \in settled : e \in Range(events) /\ e.kind = "provider.settled" /\ e.run = r
      BY OfRange
    <3> QED BY <3>1 DEF Mirrored, Provider
  <2>2. rs[r].sealed /\ rs[r].writes => r \in DOMAIN runs /\ runs[r].sealed
    BY DEF SealFits
  <2>3. r \in DOMAIN runs =>
          /\ runs[r].writes /\ runs[r].sealed => settled # {}
          /\ \A e \in settled :
                /\ runs[r].sealed
                /\ e.says \in {"success", "blocked", "paused"}
                /\ e.says = "success" => runs[r].status = "committed"
    BY DEF ResultsKnown
  <2> HIDE DEF settled
  <2>4. /\ rs[r].writes /\ rs[r].sealed => settled # {}
        /\ \A e \in settled :
              /\ rs[r].sealed
              /\ e.says \in {"success", "blocked", "paused"}
              /\ e.says = "success" => rs[r].status = "committed"
    BY <1>1, <2>1, <2>2, <2>3
  <2> QED BY <2>4 DEF settled
<1>5. Chained'
  <2>1. \A e \in Range(events) : e.rev <= t.revision
    <3>1. \A e \in Range(events) : e \in EventRows /\ e.rev <= task.revision
      BY DEF TypesFit, Range, Chained
    <3>2. task.revision \in Nat /\ t.revision \in Nat /\ task.revision <= t.revision
      BY DEF TypesFit, RowsGrow, TaskRows
    <3> QED BY <3>1, <3>2 DEF EventRows
  <2> QED BY <1>1, <2>1 DEF Chained
<1> QED BY <1>2, <1>3, <1>4, <1>5

LEMMA ChainedStep ==
    ASSUME TypesFit, Chained, NEW es, NEW t, NEW ts, NEW rs,
           RowsGrow(t, ts, rs), Trail(es, t, ts, rs), Recorded(es, t, ts, rs)
    PROVE  Chained'
<1>1. /\ \A e \in Range(events) : e.rev <= task.revision /\ e.rev \in Nat
      /\ task.revision <= t.revision /\ task.revision \in Nat /\ t.revision \in Nat
      /\ task' = t
  <2>1. \A e \in Range(events) : e \in EventRows
    BY DEF TypesFit, Range
  <2> QED BY <2>1 DEF Chained, TypesFit, RowsGrow, TaskRows, EventRows, Recorded
<1>2. /\ es \in Seq(EventRows) /\ events \in Seq(EventRows)
      /\ events' = events \o es /\ Accepts(events, es) /\ Rising(es)
  BY DEF Recorded, Trail, TypesFit
<1>3. Accepts(<<>>, events \o es)
  <2>1. <<>> \o events = events /\ <<>> \in Seq(EventRows)
    BY <1>2, ConcatEmptySeq, EmptySeq
  <2> QED BY <1>2, <2>1, AcceptsJoined DEF Chained
<1>4. \A e \in Range(es) : task.revision <= e.rev /\ e.rev <= t.revision /\ e.rev \in Nat
  <2>1. \A e \in Range(es) : e \in EventRows
    BY <1>2 DEF Range
  <2> QED BY <2>1 DEF Trail, EventRows
<1>5. \A e \in Range(events) : \A f \in Range(es) : e.rev <= f.rev
  BY <1>1, <1>4
<1>6. Rising(events \o es)
  BY <1>2, <1>5, RisingJoined DEF Chained
<1>7. \A e \in Range(events') : e.rev <= t.revision
  BY <1>1, <1>2, <1>4, Joined
<1> QED BY <1>1, <1>2, <1>3, <1>6, <1>7 DEF Chained

LEMMA UndoneStep ==
    ASSUME IInv, gate' = gate, Undone
    PROVE  IInv'
<1>1. UNCHANGED <<gate, task, transitions, runs, events, gap>>
  BY DEF Undone, canonical
<1>2. /\ TypesFit' /\ OneBusyRun' /\ Submitted' /\ Mirrored' /\ Intended' /\ ResultsKnown' /\ AttemptsTold'
  BY <1>1 DEF IInv, TypesFit, OneBusyRun, Submitted, Mirrored, Intended, ResultsKnown, AttemptsTold
<1>3. LatestTold' /\ BaselineCovers' /\ Chained'
  BY <1>1 DEF IInv, LatestTold, Told, BaselineCovers, Chained
<1>4. RefusedFits'
  <2>1. CASE refused' = refused
    BY <1>1, <2>1 DEF IInv, RefusedFits, OnlyRaisedBoundCallRefused
  <2>2. ASSUME NEW what, RaisedBound(what), refused' = refused \cup {Append(what, Len(runs))}
        PROVE  RefusedFits'
    <3> DEFINE x == Append(what, Len(runs))
    <3>1. what = <<"commit", "raised">> /\ Len(what) = 2
      BY <2>2 DEF RaisedBound
    <3>2. x[1] = "commit" /\ x[2] = "raised" /\ x[3] = Len(runs)
      <4> DEFINE S == {"commit", "raised"} \cup Nat
      <4>1. what \in Seq(S) /\ what[1] = "commit" /\ what[2] = "raised"
        BY <3>1
      <4>2. Len(runs) \in S
        BY DEF IInv, TypesFit
      <4> HIDE DEF S, x
      <4>3. /\ \A i \in 1..2 : x[i] = what[i]
            /\ x[3] = Len(runs)
        BY <3>1, <4>1, <4>2, AppendProperties DEF x
      <4>4. 1 \in 1..2 /\ 2 \in 1..2
        OBVIOUS
      <4> QED BY <4>1, <4>3, <4>4
    <3>3. Len(runs) \in DOMAIN runs /\ runs[Len(runs)].session # None
      BY <2>2 DEF RaisedBound, IInv, TypesFit
    <3> HIDE DEF x
    <3> QED BY <1>1, <2>2, <3>2, <3>3 DEF x, IInv, RefusedFits, OnlyRaisedBoundCallRefused
  <2> QED BY <2>1, <2>2 DEF Undone
<1> QED BY <1>2, <1>3, <1>4 DEF IInv

\* Any transaction that fits keeps the invariant, however it ends.
LEMMA TransactStep ==
    ASSUME IInv, NEW writes \in BOOLEAN, NEW es, NEW t, NEW ts, NEW rs, NEW what,
           Transact(writes, es, t, ts, rs, what), Fits(es, t, ts, rs, writes),
           writes => Storable(es, t, ts, rs, what)
    PROVE  IInv'
<1>0. gate' = gate /\ TypesFit
  BY DEF Transact, IInv
<1>1. \/ writes /\ Recorded(es, t, ts, rs)
      \/ ~writes /\ Silent(t, ts, rs)
      \/ Undone
  BY <1>0, TransactEnds
<1>2. CASE Undone
  BY <1>0, <1>2, UndoneStep
<1>3. CASE writes /\ Recorded(es, t, ts, rs)
  <2>1. /\ RowsGrow(t, ts, rs) /\ BusyFits(t, rs, TRUE)
        /\ Trail(es, t, ts, rs) /\ IntentFits(es, t, rs) /\ ResultFits(es, rs)
        /\ AttemptFits(es, rs) /\ LastFits(es, t) /\ CoverFits(es, ts)
    <3>1. writes = TRUE
      BY <1>3
    <3> QED BY <3>1 DEF Fits, EventsFit
  <2>2. /\ task' = t /\ transitions' = ts /\ runs' = rs /\ refused' = refused
        /\ es \in Seq(EventRows) /\ events' = events \o es /\ events' \in Seq(EventRows)
        /\ gap' \in [open : BOOLEAN, count : Nat] /\ gap'.open = ~TRUE
    <3>1. events \in Seq(EventRows) /\ es \in Seq(EventRows) /\ gap.count \in Nat
      BY <2>1 DEF IInv, TypesFit, Trail
    <3>2. events \o es \in Seq(EventRows)
      BY <3>1
    <3> QED BY <1>3, <3>1, <3>2 DEF Recorded
  <2>3. TypesFit' /\ OneBusyRun' /\ Submitted'
    BY <1>0, <2>1, <2>2, RowsAfter DEF IInv
  <2>4. Mirrored' /\ Intended' /\ Chained'
    BY <1>3, <2>1, MirroredStep, IntendedStep, ChainedStep DEF IInv
  <2>5. ResultsKnown' /\ AttemptsTold' /\ LatestTold' /\ BaselineCovers'
    BY <1>3, <2>1, <2>2, ResultsStep, AttemptsStep, LatestStep, CoversStep DEF IInv
  <2>6. RefusedFits'
    BY <2>1, <2>2 DEF IInv, RefusedFits, OnlyRaisedBoundCallRefused, RowsGrow
  <2> QED BY <2>3, <2>4, <2>5, <2>6 DEF IInv
<1>4. CASE ~writes /\ Silent(t, ts, rs)
  <2>1. RowsGrow(t, ts, rs) /\ BusyFits(t, rs, FALSE) /\ SealFits(rs, FALSE)
    <3>1. writes = FALSE
      BY <1>4
    <3> QED BY <3>1 DEF Fits
  <2>2. /\ task' = t /\ transitions' = ts /\ runs' = rs /\ refused' = refused
        /\ events' \in Seq(EventRows)
        /\ gap' \in [open : BOOLEAN, count : Nat] /\ gap'.open = ~FALSE
    <3>1. events \in Seq(EventRows) /\ gap.count + (IF gap.open THEN 0 ELSE 1) \in Nat
      BY DEF IInv, TypesFit
    <3> QED BY <1>4, <3>1 DEF Silent
  <2>3. TypesFit' /\ OneBusyRun' /\ Submitted'
    BY <1>0, <2>1, <2>2, RowsAfter DEF IInv
  <2>4. /\ Mirrored' /\ Intended' /\ ResultsKnown' /\ Chained'
        /\ AttemptsTold' /\ LatestTold' /\ BaselineCovers'
    BY <1>4, <2>1, SilentStep, SilentCovers DEF IInv
  <2>5. RefusedFits'
    BY <2>1, <2>2 DEF IInv, RefusedFits, OnlyRaisedBoundCallRefused, RowsGrow
  <2> QED BY <2>3, <2>4, <2>5 DEF IInv
<1> QED BY <1>1, <1>2, <1>3, <1>4

-----------------------------------------------------------------------------
\* What the controller's transactions emit.

LEMMA EventRow ==
    ASSUME NEW kind \in Kinds, NEW rev \in Nat
    PROVE  /\ Event(kind, rev) \in EventRows
           /\ Event(kind, rev).kind = kind /\ Event(kind, rev).rev = rev
           /\ Event(kind, rev).run = 0 /\ Event(kind, rev).sealed = FALSE
           /\ Event(kind, rev).session = None
BY DEF Event, EventRows, MaybeSession

LEMMA TrailParity ==
    ASSUME NEW es, NEW t, NEW ts, NEW rs, Trail(es, t, ts, rs)
    PROVE  Parity(es, t, ts, rs)
<1>1. \A i \in DOMAIN es : es[i] \in Range(es)
  BY DEF Range
<1> QED BY <1>1 DEF Trail, Parity

LEMMA StampedRises ==
    ASSUME NEW es \in Seq(EventRows), NEW rev, \A e \in Range(es) : e.rev = rev
    PROVE  Rising(es)
<1>1. \A i \in DOMAIN es : es[i] \in Range(es) /\ es[i] \in EventRows
  BY DEF Range
<1>2. \A i \in DOMAIN es : es[i].rev = rev /\ es[i].rev \in Nat
  BY <1>1 DEF EventRows
<1> QED BY <1>2 DEF Rising

\* The store has conditions on the provider's events and on a rebinding only.
LEMMA PlainAccepted ==
    ASSUME NEW es, \A e \in Range(es) : e.kind \notin Provider \cup {"session.rebound"}
    PROVE  \A log : Accepts(log, es)
<1>1. \A i \in DOMAIN es : es[i].kind \notin Provider \cup {"session.rebound"}
  BY DEF Range
<1> QED BY <1>1 DEF Accepts, Appendable, Provider

LEMMA Stamps ==
    ASSUME TypesFit
    PROVE  /\ task.revision \in Nat /\ task.revision + 1 \in Nat /\ Len(transitions) \in Nat
           /\ Len(transitions) + 1 \in Nat /\ Len(runs) \in Nat
BY DEF TypesFit, TaskRows

LEMMA BaselineParts ==
    ASSUME TypesFit
    PROVE  /\ Baseline \in Seq(EventRows) /\ Len(Baseline) \in {0, 1} /\ Rising(Baseline)
           /\ Range(Baseline) # {} <=> NeedsBaseline
           /\ \A e \in Range(Baseline) :
                 /\ e.kind = "migration.baseline" /\ e.rev = task.revision
                 /\ e.run = 0 /\ e.seq = Len(transitions)
<1>1. CASE ~NeedsBaseline
  <2>1. Baseline = <<>>
    BY <1>1 DEF Baseline
  <2> QED BY <1>1, <2>1, NoEvent
<1>2. CASE NeedsBaseline
  <2> DEFINE blank == Event("migration.baseline", task.revision)
             e == [blank EXCEPT !.seq = Len(transitions)]
  <2>1. /\ blank \in EventRows /\ blank.kind = "migration.baseline"
        /\ blank.rev = task.revision /\ blank.run = 0
    <3>1. "migration.baseline" \in Kinds /\ task.revision \in Nat
      BY Stamps DEF Kinds
    <3> QED BY <3>1, EventRow
  <2>3. Baseline = <<e>>
    BY <1>2 DEF Baseline
  <2> HIDE DEF blank
  <2>2. e \in EventRows
    BY <2>1, Stamps DEF EventRows
  <2>4. e.kind = "migration.baseline" /\ e.rev = task.revision /\ e.run = 0 /\ e.seq = Len(transitions)
    BY <2>1 DEF EventRows
  <2> HIDE DEF e
  <2> QED BY <1>2, <2>2, <2>3, <2>4, OneEvent
<1> QED BY <1>1, <1>2

LEMMA TransitionParts ==
    ASSUME TypesFit, NEW status \in TASK_STATUSES
    PROVE  \E e \in EventRows :
              /\ Transition(status) = <<e>>
              /\ e.kind = "task.transition.committed" /\ e.rev = task.revision + 1 /\ e.run = 0
              /\ e.seq = Len(transitions) + 1 /\ e.says = status
<1> DEFINE blank == Event("task.transition.committed", task.revision + 1)
           e == [blank EXCEPT !.seq = Len(transitions) + 1, !.says = status]
<1>1. /\ blank \in EventRows /\ blank.kind = "task.transition.committed"
      /\ blank.rev = task.revision + 1 /\ blank.run = 0
  <2>1. "task.transition.committed" \in Kinds /\ task.revision + 1 \in Nat
    BY Stamps DEF Kinds
  <2> QED BY <2>1, EventRow
<1>3. Transition(status) = <<e>>
  BY DEF Transition
<1> HIDE DEF blank
<1>2. e \in EventRows
  BY <1>1, Stamps DEF EventRows
<1>4. /\ e.kind = "task.transition.committed" /\ e.rev = task.revision + 1 /\ e.run = 0
      /\ e.seq = Len(transitions) + 1 /\ e.says = status
  BY <1>1 DEF EventRows
<1> HIDE DEF e
<1> QED BY <1>2, <1>3, <1>4

LEMMA UnsealedParts ==
    ASSUME TypesFit, NEW r \in Nat, NEW status \in TASK_STATUSES
    PROVE  \E e \in EventRows :
              /\ Unsealed(r, status) = <<e>>
              /\ e.kind = "stage.settled" /\ e.rev = task.revision + 1 /\ e.run = r
              /\ e.says = status /\ e.sealed = FALSE
<1> DEFINE blank == Event("stage.settled", task.revision + 1)
           e == [blank EXCEPT !.run = r, !.says = status]
<1>1. /\ blank \in EventRows /\ blank.kind = "stage.settled"
      /\ blank.rev = task.revision + 1 /\ blank.sealed = FALSE
  <2>1. "stage.settled" \in Kinds /\ task.revision + 1 \in Nat
    BY Stamps DEF Kinds
  <2> QED BY <2>1, EventRow
<1>3. Unsealed(r, status) = <<e>>
  BY DEF Unsealed
<1> HIDE DEF blank
<1>2. e \in EventRows
  BY <1>1, Stamps DEF EventRows
<1>4. /\ e.kind = "stage.settled" /\ e.rev = task.revision + 1 /\ e.run = r
      /\ e.says = status /\ e.sealed = FALSE
  BY <1>1 DEF EventRows
<1> HIDE DEF e
<1> QED BY <1>2, <1>3, <1>4

\* A transaction that ends in a transition to another status than running.
LEMMA MoveFits ==
    ASSUME TypesFit, task.status # None, NEW status \in TASK_STATUSES \ {"running"},
           NEW pre \in Seq(EventRows), Rising(pre), NEW rs,
           \A e \in Range(pre) :
               /\ task.revision <= e.rev /\ e.rev <= task.revision + 1
               /\ e.run \in {0} \cup DOMAIN rs
               /\ e.kind # "task.transition.committed"
               /\ e.kind \in Provider => e.run \in DOMAIN rs /\ rs[e.run].writes
               /\ e.kind \in {"evidence.sealed", "stage.claimed", "stage.settled"} => e.run \in DOMAIN rs,
           ResultFits(pre, rs), AttemptFits(pre, rs),
           \A i \in DOMAIN pre : pre[i].kind = "migration.baseline" => i = 1 /\ NeedsBaseline,
           NeedsBaseline /\ gap.open =>
               \E e \in Range(pre) : e.kind = "migration.baseline" /\ e.seq = Len(transitions)
    PROVE  EventsFit(pre \o Transition(status), Moved(status), Append(transitions, status), rs)
<1> DEFINE es == pre \o Transition(status)
           t == Moved(status)
           ts == Append(transitions, status)
<1>1. PICK last \in EventRows :
        /\ Transition(status) = <<last>>
        /\ last.kind = "task.transition.committed" /\ last.rev = task.revision + 1 /\ last.run = 0
        /\ last.seq = Len(transitions) + 1 /\ last.says = status
  BY TransitionParts
<1>2. /\ es \in Seq(EventRows) /\ Len(pre) \in Nat
      /\ DOMAIN es = 1..(Len(pre) + 1) /\ es[Len(pre) + 1] = last
      /\ \A i \in DOMAIN pre : es[i] = pre[i]
      /\ Range(es) = Range(pre) \cup {last}
      /\ DOMAIN pre = 1..Len(pre)
  <2>1. <<last>> \in Seq(EventRows) /\ Len(<<last>>) = 1 /\ 1 \in DOMAIN <<last>> /\ <<last>>[1] = last
        /\ Range(<<last>>) = {last}
    BY OneEvent
  <2>2. es = pre \o <<last>>
    BY <1>1
  <2> DEFINE one == <<last>>
  <2>3. one \in Seq(EventRows) /\ Len(one) = 1 /\ 1 \in DOMAIN one /\ one[1] = last /\ Range(one) = {last}
    BY <2>1
  <2>4. es = pre \o one /\ pre \in Seq(EventRows)
    BY <2>2
  <2> HIDE DEF es, one
  <2>7. /\ pre \o one \in Seq(EventRows)
        /\ DOMAIN (pre \o one) = 1..(Len(pre) + Len(one))
        /\ \A i \in DOMAIN pre : (pre \o one)[i] = pre[i]
        /\ Range(pre \o one) = Range(pre) \cup Range(one)
    BY <2>3, Joined
  <2>5. /\ es \in Seq(EventRows) /\ Len(pre) \in Nat /\ DOMAIN pre = 1..Len(pre)
        /\ DOMAIN es = 1..(Len(pre) + 1)
        /\ \A i \in DOMAIN pre : es[i] = pre[i]
        /\ Range(es) = Range(pre) \cup {last}
    BY <2>3, <2>4, <2>7
  <2>6. es[Len(pre) + 1] = last
    BY <2>3, <2>4, Joined
  <2> QED BY <2>5, <2>6
<1>3. /\ t = [status |-> status, revision |-> task.revision + 1] /\ task.revision \in Nat
      /\ t.status = status /\ t.revision = task.revision + 1
  BY DEF Moved, TypesFit, TaskRows
<1>4. /\ transitions \in Seq(TASK_STATUSES) /\ ts \in Seq(TASK_STATUSES) /\ Len(transitions) \in Nat
      /\ DOMAIN ts = 1..(Len(transitions) + 1) /\ ts[Len(transitions) + 1] = status
      /\ DOMAIN transitions = 1..Len(transitions)
  BY DEF TypesFit
<1>5. last \notin Range(pre)
  BY <1>1
<1> HIDE DEF es, t, ts
<1>6. Trail(es, t, ts, rs)
  <2>1. Rising(es)
    <3>1. \A e \in Range(pre) : \A f \in Range(<<last>>) : e.rev <= f.rev
      BY <1>1, OneEvent
    <3>2. <<last>> \in Seq(EventRows) /\ Rising(<<last>>)
      BY OneEvent
    <3> QED BY <1>1, <3>1, <3>2, RisingJoined DEF es
  <2>2. ASSUME NEW e \in Range(es)
        PROVE  /\ task.revision <= e.rev /\ e.rev <= t.revision
               /\ e.run \in {0} \cup DOMAIN rs
               /\ e.kind = "task.transition.committed" => e.seq \in DOMAIN ts /\ ts[e.seq] = e.says
               /\ e.kind \in Provider => e.run \in DOMAIN rs /\ rs[e.run].writes
               /\ e.kind \in {"evidence.sealed", "stage.claimed", "stage.settled"} => e.run \in DOMAIN rs
    <3>1. CASE e \in Range(pre)
      BY <1>3, <3>1
    <3>2. CASE e = last
      BY <1>1, <1>3, <1>4, <3>2 DEF Provider
    <3> QED BY <1>2, <3>1, <3>2
  <2> QED BY <1>2, <2>1, <2>2 DEF Trail
<1>7. IntentFits(es, t, rs)
  BY <1>3 DEF IntentFits
<1>8. ResultFits(es, rs)
  BY <1>1, <1>2 DEF ResultFits
<1>9. AttemptFits(es, rs)
  <2> SUFFICES ASSUME NEW r \in DOMAIN rs
               PROVE  {e \in Range(es) : e.kind = "stage.settled" /\ e.run = r} =
                      {e \in Range(pre) : e.kind = "stage.settled" /\ e.run = r}
    BY DEF AttemptFits
  <2> QED BY <1>1, <1>2
<1>10. LastFits(es, t)
  <2>1. Len(pre) + 1 \in DOMAIN es /\ \A j \in DOMAIN es : ~(j > Len(pre) + 1)
    BY <1>2
  <2> QED BY <1>1, <1>2, <1>3, <2>1 DEF LastFits
<1>11. CoverFits(es, ts)
  <2>1. \A q \in DOMAIN ts : q \in DOMAIN transitions \/ q = Len(transitions) + 1
    BY <1>4
  <2>2. \A i \in DOMAIN es : i \in DOMAIN pre \/ es[i] = last
    <3>1. \A i \in DOMAIN es : i \in DOMAIN pre \/ i = Len(pre) + 1
      BY <1>2
    <3> QED BY <1>2, <3>1
  <2>3. \A i \in DOMAIN es : es[i].kind = "migration.baseline" => i = 1 /\ NeedsBaseline
    BY <1>1, <1>2, <2>2
  <2> QED BY <1>1, <1>2, <2>1, <2>3 DEF CoverFits
<1>12. EventsFit(es, t, ts, rs)
  BY <1>6, <1>7, <1>8, <1>9, <1>10, <1>11 DEF EventsFit
<1> QED BY <1>12 DEF es, t, ts

\* The rows of the runs only grow, but for the last.
RunsGrow(rs) ==
    /\ rs \in Seq(RunRows) /\ DOMAIN runs \subseteq DOMAIN rs
    /\ \A r \in DOMAIN runs :
          /\ rs[r].session = runs[r].session
          /\ rs[r].writes = runs[r].writes
          /\ r # Len(rs) => rs[r] = runs[r]
          /\ runs[r].sealed => rs[r].sealed
          /\ runs[r].status = "committed" => rs[r].status = "committed"

LEMMA MovedRows ==
    ASSUME TypesFit, NEW status \in TASK_STATUSES, NEW rs, RunsGrow(rs)
    PROVE  RowsGrow(Moved(status), Append(transitions, status), rs)
<1>1. /\ Moved(status) \in TaskRows /\ Moved(status).status = status
      /\ Moved(status).revision = task.revision + 1
  BY Stamps DEF Moved, TaskRows
<1>2. status # None
  BY NoneAssumption
<1>3. task.revision <= Moved(status).revision
  BY <1>1, Stamps
<1>4. /\ Append(transitions, status) \in Seq(TASK_STATUSES)
      /\ DOMAIN transitions \subseteq DOMAIN Append(transitions, status)
  BY DEF TypesFit
<1> QED BY <1>1, <1>2, <1>3, <1>4 DEF RowsGrow, RunsGrow

\* Submitted tasks move by a baseline if one is due, the end of a run that came
\* to nothing, if any, and a transition.
LEMMA BaselineMove ==
    ASSUME TypesFit, task.status # None, NEW status \in TASK_STATUSES \ {"running"},
           NEW writes \in BOOLEAN, NEW what, NEW mid \in Seq(EventRows), NEW rs, RunsGrow(rs),
           \A e \in Range(mid) : e.kind = "stage.settled" /\ e.rev = task.revision + 1 /\ e.run \in DOMAIN rs,
           \A r \in DOMAIN rs :
               /\ rs[r].status # "running"
               /\ rs[r].sealed => r \in DOMAIN runs /\ runs[r].sealed,
           AttemptFits(mid, rs)
    PROVE  LET es == Baseline \o mid \o Transition(status) IN
           /\ Fits(es, Moved(status), Append(transitions, status), rs, writes)
           /\ Storable(es, Moved(status), Append(transitions, status), rs, what)
<1> DEFINE pre == Baseline \o mid
           es == pre \o Transition(status)
           t == Moved(status)
           ts == Append(transitions, status)
<1>1. /\ Baseline \in Seq(EventRows) /\ Len(Baseline) \in {0, 1} /\ Rising(Baseline)
      /\ Range(Baseline) # {} <=> NeedsBaseline
      /\ \A e \in Range(Baseline) :
            /\ e.kind = "migration.baseline" /\ e.rev = task.revision
            /\ e.run = 0 /\ e.seq = Len(transitions)
  BY BaselineParts
<1>2. /\ pre \in Seq(EventRows) /\ DOMAIN pre = 1..(Len(Baseline) + Len(mid))
      /\ \A i \in DOMAIN Baseline : pre[i] = Baseline[i]
      /\ \A i \in DOMAIN mid : pre[Len(Baseline) + i] = mid[i]
      /\ Range(pre) = Range(Baseline) \cup Range(mid)
  BY <1>1, Joined
<1>3. RowsGrow(t, ts, rs)
  BY MovedRows
<1>4. BusyFits(t, rs, writes)
  BY DEF BusyFits, Moved
<1>5. SealFits(rs, writes)
  BY DEF SealFits
<1>6. Rising(pre)
  <2>1. Rising(mid)
    BY StampedRises
  <2>2. \A e \in Range(Baseline) : \A f \in Range(mid) : e.rev <= f.rev
    BY <1>1, Stamps
  <2> QED BY <1>1, <2>1, <2>2, RisingJoined
<1>7. ResultFits(pre, rs)
  BY <1>1, <1>2 DEF ResultFits
<1>8. AttemptFits(pre, rs)
  <2> SUFFICES ASSUME NEW r \in DOMAIN rs
               PROVE  {e \in Range(pre) : e.kind = "stage.settled" /\ e.run = r} =
                      {e \in Range(mid) : e.kind = "stage.settled" /\ e.run = r}
    BY DEF AttemptFits
  <2> QED BY <1>1, <1>2
<1>9. \A i \in DOMAIN pre : pre[i].kind = "migration.baseline" => i = 1 /\ NeedsBaseline
  <2> SUFFICES ASSUME NEW i \in DOMAIN pre, pre[i].kind = "migration.baseline"
               PROVE  i = 1 /\ NeedsBaseline
    OBVIOUS
  <2>1. i \in DOMAIN Baseline
    <3>1. CASE i \notin DOMAIN Baseline
      <4>1. i - Len(Baseline) \in DOMAIN mid /\ i = Len(Baseline) + (i - Len(Baseline))
        BY <1>1, <1>2, <3>1
      <4>2. pre[i] = mid[i - Len(Baseline)]
        BY <1>2, <4>1
      <4>3. mid[i - Len(Baseline)] \in Range(mid)
        BY <4>1 DEF Range
      <4> QED BY <4>2, <4>3
    <3> QED BY <3>1
  <2>2. i = 1
    BY <1>1, <2>1
  <2>3. Baseline[i] \in Range(Baseline)
    BY <2>1 DEF Range
  <2> QED BY <1>1, <2>2, <2>3
<1>10. NeedsBaseline => \E e \in Range(pre) : e.kind = "migration.baseline" /\ e.seq = Len(transitions)
  BY <1>1, <1>2
<1>11. ASSUME NEW e \in Range(pre)
       PROVE  /\ task.revision <= e.rev /\ e.rev <= task.revision + 1
              /\ e.run \in {0} \cup DOMAIN rs
              /\ e.kind \notin Provider \cup {"session.rebound", "task.transition.committed"}
              /\ e.kind \in {"evidence.sealed", "stage.claimed", "stage.settled"} => e.run \in DOMAIN rs
  <2>1. CASE e \in Range(Baseline)
    BY <1>1, <2>1, Stamps DEF Provider
  <2>2. CASE e \in Range(mid)
    BY <2>2, Stamps DEF Provider
  <2> QED BY <1>2, <2>1, <2>2
<1> HIDE DEF pre
<1>12. EventsFit(es, t, ts, rs)
  BY <1>2, <1>6, <1>7, <1>8, <1>9, <1>10, <1>11, MoveFits
<1>13. AllAppendable(es)
  <2>1. PICK last \in EventRows : Transition(status) = <<last>> /\ last.kind = "task.transition.committed"
    BY TransitionParts
  <2>2. Accepts(events, pre) /\ Accepts(events \o pre, <<last>>)
    <3>1. \A e \in Range(<<last>>) : e.kind \notin Provider \cup {"session.rebound"}
      BY <2>1, OneEvent DEF Provider
    <3> QED BY <1>11, <3>1, PlainAccepted
  <2>3. events \in Seq(EventRows) /\ <<last>> \in Seq(EventRows)
    BY OneEvent DEF TypesFit
  <2>4. Accepts(events, pre \o <<last>>)
    BY <1>2, <2>2, <2>3, AcceptsJoined
  <2> QED BY <2>1, <2>4 DEF AllAppendable, Accepts
<1>14. Parity(es, t, ts, rs)
  BY <1>12, TrailParity DEF EventsFit
<1> HIDE DEF es, t, ts
<1>15. Fits(es, t, ts, rs, writes) /\ Storable(es, t, ts, rs, what)
  BY <1>3, <1>4, <1>5, <1>12, <1>13, <1>14 DEF Fits, Storable
<1> QED BY <1>15 DEF es, t, ts, pre

\* A task that is not running has no running run.
LEMMA NoneBusy ==
    ASSUME TypesFit, OneBusyRun, task.status # "running"
    PROVE  /\ \A r \in DOMAIN runs : runs[r].status # "running"
           /\ RunsGrow(runs) /\ AttemptFits(<<>>, runs)
<1>1. \A r \in DOMAIN runs : runs[r].status # "running"
  BY DEF OneBusyRun
<1>2. RunsGrow(runs)
  BY DEF RunsGrow, TypesFit
<1>3. AttemptFits(<<>>, runs)
  BY NoEvent DEF AttemptFits
<1> QED BY <1>1, <1>2, <1>3

\* A stop at the cap, a resumption.
LEMMA PlainMove ==
    ASSUME IInv, task.status \notin {None, "running"}, NEW status \in TASK_STATUSES \ {"running"}, NEW what,
           Transact(gate, Baseline \o Transition(status), Moved(status),
                    Append(transitions, status), runs, what)
    PROVE  IInv'
<1> DEFINE es == Baseline \o Transition(status)
           t == Moved(status)
           ts == Append(transitions, status)
<1>1. Fits(es, t, ts, runs, gate) /\ Storable(es, t, ts, runs, what)
  <2>1. (Baseline \o <<>>) = Baseline
    BY BaselineParts, ConcatEmptySeq DEF IInv
  <2>2. gate \in BOOLEAN
    BY DEF IInv, TypesFit
  <2>3. /\ \A e \in Range(<<>>) : e.kind = "stage.settled" /\ e.rev = task.revision + 1 /\ e.run \in DOMAIN runs
        /\ <<>> \in Seq(EventRows)
    BY NoEvent
  <2>4. LET joined == Baseline \o <<>> \o Transition(status) IN
        /\ Fits(joined, t, ts, runs, gate)
        /\ Storable(joined, t, ts, runs, what)
    BY <2>2, <2>3, NoneBusy, BaselineMove DEF IInv
  <2> QED BY <2>1, <2>4
<1> QED BY <1>1, TransactStep DEF IInv, TypesFit

LEMMA StopForCapStep ==
    ASSUME IInv, StopForCap
    PROVE  IInv'
<1>1. "waiting_user" \in TASK_STATUSES \ {"running"} /\ task.status \notin {None, "running"}
  BY NoneAssumption DEF StopForCap, TASK_STATUSES
<1> QED BY <1>1, PlainMove DEF StopForCap

LEMMA ResumeStep ==
    ASSUME IInv, Resume
    PROVE  IInv'
<1>1. "queued" \in TASK_STATUSES \ {"running"} /\ task.status \notin {None, "running"}
  BY NoneAssumption DEF Resume, TASK_STATUSES, RESUMABLE
<1> QED BY <1>1, PlainMove DEF Resume

\* A stop before the start of a run, which it leaves over and not sealed.
LEMMA PreflightStopStep ==
    ASSUME IInv, NEW status \in {"paused", "blocked"}, PreflightStop(status)
    PROVE  IInv'
<1> DEFINE r == Len(runs) + 1
           row == Run(status, None)
           rs == Append(runs, row)
           t == Moved(status)
           ts == Append(transitions, status)
           es == Baseline \o Unsealed(r, status) \o Transition(status)
<1>1. /\ gate \in BOOLEAN /\ runs \in Seq(RunRows) /\ Len(runs) \in Nat /\ r \in Nat
      /\ status \in TASK_STATUSES \ {"running"} /\ task.status \notin {None, "running"}
  BY NoneAssumption DEF IInv, TypesFit, TASK_STATUSES, PreflightStop
<1>2. row \in RunRows /\ row.status = status /\ row.sealed = FALSE
  BY <1>1 DEF Run, RunRows, RunStatuses, MaybeSession
<1> HIDE DEF row
<1>3. /\ rs \in Seq(RunRows) /\ Len(rs) = r /\ DOMAIN rs = 1..r /\ DOMAIN runs = 1..Len(runs)
      /\ \A q \in DOMAIN runs : rs[q] = runs[q]
      /\ rs[r] = row
  BY <1>1, <1>2
<1> HIDE DEF rs
<1>4. \A q \in DOMAIN rs : q \in DOMAIN runs \/ q = r
  BY <1>1, <1>3
<1>5. r \in DOMAIN rs /\ r \notin DOMAIN runs
  BY <1>1, <1>3
<1>6. \A q \in DOMAIN runs : runs[q].status # "running"
  BY <1>1, NoneBusy DEF IInv
<1>7. RunsGrow(rs)
  BY <1>1, <1>3 DEF RunsGrow
<1>8. PICK e \in EventRows :
        /\ Unsealed(r, status) = <<e>>
        /\ e.kind = "stage.settled" /\ e.rev = task.revision + 1 /\ e.run = r
        /\ e.says = status /\ e.sealed = FALSE
  <2>1. r \in Nat /\ status \in TASK_STATUSES /\ TypesFit
    BY <1>1 DEF IInv
  <2> HIDE DEF r
  <2> QED BY ZenonT(30), <2>1, UnsealedParts
<1>9. Unsealed(r, status) \in Seq(EventRows) /\ Range(Unsealed(r, status)) = {e}
  BY <1>8, OneEvent
<1>10. AttemptFits(Unsealed(r, status), rs)
  <2> SUFFICES ASSUME NEW q \in DOMAIN rs
               PROVE  LET settled == {f \in {e} : f.kind = "stage.settled" /\ f.run = q} IN
                      \/ /\ q \in DOMAIN runs
                         /\ rs[q].status = runs[q].status /\ rs[q].sealed = runs[q].sealed
                         /\ settled = {}
                      \/ /\ q \in DOMAIN runs => runs[q].status = "running"
                         /\ settled = {} <=> rs[q].status = "running"
                         /\ \A f \in settled : Committed(f.says) = rs[q].status /\ f.sealed = rs[q].sealed
    BY <1>9 DEF AttemptFits
  <2>1. CASE q \in DOMAIN runs
    BY <1>3, <1>5, <1>8, <2>1
  <2>2. CASE q = r
    <3>1. Committed(status) = status
      BY DEF Committed
    <3> QED BY <1>1, <1>2, <1>3, <1>5, <1>8, <2>2, <3>1
  <2> QED BY <1>4, <2>1, <2>2
<1>11. \A q \in DOMAIN rs :
         /\ rs[q].status # "running"
         /\ rs[q].sealed => q \in DOMAIN runs /\ runs[q].sealed
  BY <1>1, <1>2, <1>3, <1>4, <1>6
<1>12. \A f \in Range(Unsealed(r, status)) :
         f.kind = "stage.settled" /\ f.rev = task.revision + 1 /\ f.run \in DOMAIN rs
  BY <1>5, <1>8, <1>9
<1>13. Fits(es, t, ts, rs, gate) /\ Storable(es, t, ts, rs, <<"preflight", None>>)
  BY <1>1, <1>7, <1>9, <1>10, <1>11, <1>12, BaselineMove DEF IInv
<1>14. Transact(gate, es, t, ts, rs, <<"preflight", None>>)
  BY DEF PreflightStop, rs, row
<1> HIDE DEF es, t, ts
<1> QED BY <1>1, <1>13, <1>14, TransactStep

\* A run whose process died is blocked as it stands.
LEMMA BlockOrphanedStep ==
    ASSUME IInv, BlockOrphanedRunning
    PROVE  IInv'
<1> DEFINE r == Len(runs)
           rs == [runs EXCEPT ![r].status = "blocked"]
           t == Moved("blocked")
           ts == Append(transitions, "blocked")
           es == Baseline \o Unsealed(r, "blocked") \o Transition("blocked")
<1>1. /\ gate \in BOOLEAN /\ runs \in Seq(RunRows) /\ Len(runs) \in Nat
      /\ "blocked" \in TASK_STATUSES \ {"running"} /\ task.status # None /\ task.status = "running"
  BY NoneAssumption DEF IInv, TypesFit, TASK_STATUSES, BlockOrphanedRunning
<1>2. /\ r \in DOMAIN runs /\ r \in Nat /\ runs[r] \in RunRows
      /\ runs[r].status = "running" /\ ~runs[r].sealed
      /\ \A q \in DOMAIN runs : runs[q].status = "running" => q = r
  BY <1>1 DEF IInv, OneBusyRun
<1>3. /\ rs \in Seq(RunRows) /\ Len(rs) = r /\ DOMAIN rs = DOMAIN runs
      /\ \A q \in DOMAIN runs : q # r => rs[q] = runs[q]
      /\ rs[r] = [runs[r] EXCEPT !.status = "blocked"]
  <2>1. [runs[r] EXCEPT !.status = "blocked"] \in RunRows
    BY <1>2 DEF RunRows, RunStatuses
  <2> QED BY <1>1, <1>2, <2>1
<1> HIDE DEF rs
<1>4. /\ rs[r].status = "blocked" /\ rs[r].sealed = runs[r].sealed
      /\ rs[r].session = runs[r].session /\ rs[r].writes = runs[r].writes
  BY <1>2, <1>3 DEF RunRows
<1>5. RunsGrow(rs)
  BY <1>1, <1>2, <1>3, <1>4 DEF RunsGrow
<1>6. PICK e \in EventRows :
        /\ Unsealed(r, "blocked") = <<e>>
        /\ e.kind = "stage.settled" /\ e.rev = task.revision + 1 /\ e.run = r
        /\ e.says = "blocked" /\ e.sealed = FALSE
  <2>1. r \in Nat /\ "blocked" \in TASK_STATUSES /\ TypesFit
    BY <1>1, <1>2 DEF IInv
  <2> HIDE DEF r
  <2> QED BY ZenonT(30), <2>1, UnsealedParts
<1>7. Unsealed(r, "blocked") \in Seq(EventRows) /\ Range(Unsealed(r, "blocked")) = {e}
  BY <1>6, OneEvent
<1>8. AttemptFits(Unsealed(r, "blocked"), rs)
  <2> SUFFICES ASSUME NEW q \in DOMAIN rs
               PROVE  LET settled == {f \in {e} : f.kind = "stage.settled" /\ f.run = q} IN
                      \/ /\ q \in DOMAIN runs
                         /\ rs[q].status = runs[q].status /\ rs[q].sealed = runs[q].sealed
                         /\ settled = {}
                      \/ /\ q \in DOMAIN runs => runs[q].status = "running"
                         /\ settled = {} <=> rs[q].status = "running"
                         /\ \A f \in settled : Committed(f.says) = rs[q].status /\ f.sealed = rs[q].sealed
    BY <1>7 DEF AttemptFits
  <2>1. CASE q # r
    BY <1>3, <1>6, <2>1
  <2>2. CASE q = r
    <3>1. Committed("blocked") = "blocked"
      BY DEF Committed
    <3>2. runs[r].sealed = FALSE
      BY <1>2 DEF RunRows
    <3> QED BY ZenonT(30), <1>2, <1>3, <1>4, <1>6, <2>2, <3>1, <3>2
  <2> QED BY <2>1, <2>2
<1>9. \A q \in DOMAIN rs :
        /\ rs[q].status # "running"
        /\ rs[q].sealed => q \in DOMAIN runs /\ runs[q].sealed
  BY <1>2, <1>3, <1>4
<1>10. \A f \in Range(Unsealed(r, "blocked")) :
         f.kind = "stage.settled" /\ f.rev = task.revision + 1 /\ f.run \in DOMAIN rs
  BY <1>2, <1>3, <1>6, <1>7
<1>11. Fits(es, t, ts, rs, gate) /\ Storable(es, t, ts, rs, <<"orphan", None>>)
  BY <1>1, <1>5, <1>7, <1>8, <1>9, <1>10, BaselineMove DEF IInv
<1>12. Transact(gate, es, t, ts, rs, <<"orphan", None>>)
  BY DEF BlockOrphanedRunning, rs
<1> HIDE DEF es, t, ts
<1> QED BY <1>1, <1>11, <1>12, TransactStep

LEMMA SubmitStep ==
    ASSUME IInv, Submit
    PROVE  IInv'
<1> DEFINE made == Event("task.created", 0)
           blank == Event("task.transition.committed", 0)
           first == [blank EXCEPT !.seq = 1, !.says = "queued"]
           es == <<made, first>>
           t == [status |-> "queued", revision |-> 0]
           ts == <<"queued">>
           rs == <<>>
<1>1. /\ gate \in BOOLEAN /\ task.status = None /\ transitions = <<>> /\ runs = <<>> /\ events = <<>>
      /\ gap.open = FALSE /\ task.revision = 0
  BY DEF IInv, TypesFit, Submitted, Submit
<1>2. /\ made \in EventRows /\ made.kind = "task.created" /\ made.rev = 0 /\ made.run = 0
  <2>1. "task.created" \in Kinds /\ 0 \in Nat
    BY DEF Kinds
  <2> QED BY <2>1, EventRow
<1>3. /\ blank \in EventRows /\ blank.kind = "task.transition.committed" /\ blank.rev = 0 /\ blank.run = 0
  <2>1. "task.transition.committed" \in Kinds /\ 0 \in Nat
    BY DEF Kinds
  <2> QED BY <2>1, EventRow
<1>4. Transact(gate, es, t, ts, rs, <<"submit", None>>)
  BY DEF Submit
<1> HIDE DEF made, blank
<1>5. /\ first \in EventRows /\ first.kind = "task.transition.committed" /\ first.rev = 0
      /\ first.run = 0 /\ first.seq = 1 /\ first.says = "queued"
  BY <1>3 DEF EventRows, TASK_STATUSES
<1> HIDE DEF first
<1>6. /\ es \in Seq(EventRows) /\ DOMAIN es = {1, 2} /\ es[1] = made /\ es[2] = first
      /\ Range(es) = {made, first}
  <2>1. es \in Seq(EventRows) /\ DOMAIN es = 1..2 /\ es[1] = made /\ es[2] = first
    BY <1>2, <1>5
  <2>2. DOMAIN es = {1, 2}
    BY <2>1
  <2> QED BY <2>1, <2>2 DEF Range
<1> HIDE DEF es
<1>7. /\ t \in TaskRows /\ t.status = "queued" /\ t.revision = 0 /\ "queued" # None /\ "queued" # "running"
  BY NoneAssumption DEF TaskRows, TASK_STATUSES
<1>8. ts \in Seq(TASK_STATUSES) /\ DOMAIN ts = {1} /\ ts[1] = "queued"
  BY DEF TASK_STATUSES
<1>9. rs \in Seq(RunRows) /\ DOMAIN rs = {}
  OBVIOUS
<1> HIDE DEF t, ts, rs
<1>10. RowsGrow(t, ts, rs)
  <2>1. DOMAIN runs = {} /\ DOMAIN transitions = {}
    BY <1>1
  <2> QED BY <1>1, <1>7, <1>8, <1>9, <2>1 DEF RowsGrow
<1>11. BusyFits(t, rs, gate) /\ SealFits(rs, gate)
  BY <1>7, <1>9 DEF BusyFits, SealFits
<1>12. Trail(es, t, ts, rs)
  <2>1. Rising(es)
    BY <1>2, <1>5, <1>6, StampedRises
  <2> QED BY <1>1, <1>2, <1>5, <1>6, <1>7, <1>8, <2>1 DEF Trail, Provider
<1>13. IntentFits(es, t, rs) /\ ResultFits(es, rs) /\ AttemptFits(es, rs)
  BY <1>2, <1>5, <1>6, <1>7, <1>9 DEF IntentFits, ResultFits, AttemptFits
<1>14. LastFits(es, t)
  <2>1. 2 \in DOMAIN es /\ \A j \in DOMAIN es : ~(j > 2)
    BY <1>6
  <2> QED BY <1>5, <1>6, <1>7, <2>1 DEF LastFits
<1>15. CoverFits(es, ts)
  <2>1. \A i \in DOMAIN es : es[i].kind # "migration.baseline"
    BY <1>2, <1>5, <1>6
  <2> QED BY <1>1, <1>2, <1>5, <1>6, <1>8, <2>1 DEF CoverFits
<1>16. Fits(es, t, ts, rs, gate)
  BY <1>10, <1>11, <1>12, <1>13, <1>14, <1>15 DEF Fits, EventsFit
<1>17. Storable(es, t, ts, rs, <<"submit", None>>)
  <2>1. AllAppendable(es)
    BY <1>2, <1>5, <1>6, PlainAccepted DEF Provider, AllAppendable, Accepts
  <2> QED BY <1>12, <2>1, TrailParity DEF Storable
<1> QED BY <1>1, <1>4, <1>16, <1>17, TransactStep DEF es, t, ts, rs

LEMMA ClaimStep ==
    ASSUME IInv, NEW session \in MaybeSession, Claim(session)
    PROVE  IInv'
<1> DEFINE r == Len(runs) + 1
           rev == task.revision + 1
           start == Event("stage.claimed", rev)
           call == Event("provider.dispatch_intent", rev)
           claimed == [start EXCEPT !.run = r]
           intent == [call EXCEPT !.run = r, !.session = session]
           es == Baseline \o <<claimed, intent>>
           row == Run("running", session)
           rs == Append(runs, row)
           t == Moved("running")
<1>1. /\ gate \in BOOLEAN /\ runs \in Seq(RunRows) /\ Len(runs) \in Nat /\ r \in Nat /\ r # 0
      /\ rev \in Nat /\ task.revision \in Nat /\ task.revision <= rev
      /\ task.status = "queued" /\ task.status # "running" /\ task.status # None
      /\ transitions \in Seq(TASK_STATUSES) /\ events \in Seq(EventRows)
  BY NoneAssumption DEF IInv, TypesFit, TaskRows, TASK_STATUSES, Claim
<1>2. Transact(gate, es, t, transitions, rs, <<"claim", None>>)
  BY DEF Claim
<1>3. start \in EventRows /\ start.kind = "stage.claimed" /\ start.rev = rev
  <2>1. "stage.claimed" \in Kinds
    BY DEF Kinds
  <2> QED BY <1>1, <2>1, EventRow
<1>4. call \in EventRows /\ call.kind = "provider.dispatch_intent" /\ call.rev = rev
  <2>1. "provider.dispatch_intent" \in Kinds
    BY DEF Kinds, Provider
  <2> QED BY <1>1, <2>1, EventRow
<1>5. row \in RunRows /\ row.status = "running" /\ row.sealed = FALSE /\ row.session = session /\ row.writes = gate
  BY <1>1 DEF Run, RunRows, RunStatuses
<1>6. t \in TaskRows /\ t.status = "running" /\ t.revision = rev /\ t.status # None
  BY <1>1, NoneAssumption DEF Moved, TaskRows, TASK_STATUSES
<1> HIDE DEF row, start, call, t
<1>7. /\ rs \in Seq(RunRows) /\ Len(rs) = r /\ DOMAIN rs = 1..r /\ DOMAIN runs = 1..Len(runs)
      /\ \A q \in DOMAIN runs : rs[q] = runs[q]
      /\ rs[r] = row /\ rs # <<>>
  BY SMTT(30), <1>1, <1>5
<1>8. /\ r \in DOMAIN rs /\ r \notin DOMAIN runs
      /\ \A q \in DOMAIN rs : q \in DOMAIN runs \/ q = r
  BY <1>1, <1>7
<1> HIDE DEF rs
<1>9. /\ claimed \in EventRows /\ claimed.kind = "stage.claimed" /\ claimed.rev = rev /\ claimed.run = r
      /\ intent \in EventRows /\ intent.kind = "provider.dispatch_intent" /\ intent.rev = rev
      /\ intent.run = r /\ intent.session = session
  BY <1>1, <1>3, <1>4 DEF EventRows
<1> HIDE DEF claimed, intent, r, rev
<1> DEFINE two == <<claimed, intent>>
           b == Len(Baseline)
<1>10. /\ two \in Seq(EventRows) /\ DOMAIN two = 1..2 /\ Len(two) = 2 /\ two[1] = claimed /\ two[2] = intent
  BY <1>9
<1>11. Range(two) = {claimed, intent}
  BY <1>10 DEF Range
<1>12. /\ Baseline \in Seq(EventRows) /\ b \in {0, 1} /\ Rising(Baseline)
       /\ Range(Baseline) # {} <=> NeedsBaseline
       /\ \A e \in Range(Baseline) :
             /\ e.kind = "migration.baseline" /\ e.rev = task.revision
             /\ e.run = 0 /\ e.seq = Len(transitions)
  BY BaselineParts DEF IInv
<1>13. es = Baseline \o two
  OBVIOUS
<1> HIDE DEF two, es
<1>14. /\ es \in Seq(EventRows) /\ DOMAIN es = 1..(b + 2)
       /\ \A i \in DOMAIN Baseline : es[i] = Baseline[i]
       /\ es[b + 1] = claimed /\ es[b + 2] = intent
       /\ Range(es) = Range(Baseline) \cup {claimed, intent}
       /\ DOMAIN Baseline = 1..b
  <2>1. /\ Baseline \o two \in Seq(EventRows)
        /\ DOMAIN (Baseline \o two) = 1..(Len(Baseline) + Len(two))
        /\ \A i \in DOMAIN Baseline : (Baseline \o two)[i] = Baseline[i]
        /\ \A i \in DOMAIN two : (Baseline \o two)[Len(Baseline) + i] = two[i]
        /\ Range(Baseline \o two) = Range(Baseline) \cup Range(two)
    BY <1>10, <1>12, Joined
  <2>2. 1 \in DOMAIN two /\ 2 \in DOMAIN two
    BY <1>10
  <2> QED BY <1>10, <1>11, <1>12, <1>13, <2>1, <2>2
<1>15. \A i \in DOMAIN es : i \in DOMAIN Baseline \/ i = b + 1 \/ i = b + 2
  BY <1>12, <1>14
<1>16. RowsGrow(t, transitions, rs)
  BY <1>1, <1>6, <1>7, <1>8 DEF RowsGrow
<1>17. BusyFits(t, rs, gate)
  <2>1. \A q \in DOMAIN runs : runs[q].status # "running"
    BY <1>1, NoneBusy DEF IInv
  <2> QED BY <1>5, <1>6, <1>7, <1>8, <2>1 DEF BusyFits
<1>18. SealFits(rs, gate)
  BY <1>5, <1>7, <1>8 DEF SealFits
<1>19. gate => Trail(es, t, transitions, rs)
  <2> SUFFICES ASSUME gate PROVE Trail(es, t, transitions, rs)
    OBVIOUS
  <2>1. Rising(es)
    <3>1. Rising(two)
      BY <1>9, <1>10, <1>11, StampedRises
    <3>2. \A e \in Range(Baseline) : \A f \in Range(two) : e.rev <= f.rev
      BY <1>1, <1>9, <1>11, <1>12
    <3> QED BY <1>10, <1>12, <1>13, <3>1, <3>2, RisingJoined
  <2>2. ASSUME NEW e \in Range(es)
        PROVE  /\ task.revision <= e.rev /\ e.rev <= t.revision
               /\ e.run \in {0} \cup DOMAIN rs
               /\ e.kind # "task.transition.committed"
               /\ e.kind \in Provider => e.run \in DOMAIN rs /\ rs[e.run].writes
               /\ e.kind \in {"evidence.sealed", "stage.claimed", "stage.settled"} => e.run \in DOMAIN rs
    <3>1. CASE e \in Range(Baseline)
      BY <1>1, <1>6, <1>12, <3>1 DEF Provider
    <3>2. CASE e \in {claimed, intent}
      <4>1. rs[r].writes
        BY <1>5, <1>7
      <4> QED BY <1>1, <1>6, <1>8, <1>9, <3>2, <4>1
    <3> QED BY <1>14, <3>1, <3>2
  <2> QED BY <1>14, <2>1, <2>2 DEF Trail
<1>20. IntentFits(es, t, rs)
  BY <1>5, <1>7, <1>8, <1>9, <1>12, <1>14 DEF IntentFits, Provider
<1>21. ResultFits(es, rs)
  BY <1>5, <1>7, <1>8, <1>9, <1>12, <1>14 DEF ResultFits
<1>22. AttemptFits(es, rs)
  <2>1. \A q : {e \in Range(es) : e.kind = "stage.settled" /\ e.run = q} = {}
    BY <1>9, <1>12, <1>14
  <2> QED BY <1>5, <1>7, <1>8, <2>1 DEF AttemptFits
<1>23. LastFits(es, t)
  <2>1. b + 1 \in DOMAIN es /\ \A j \in DOMAIN es : j > b + 1 => es[j] = intent
    BY <1>12, <1>14, <1>15
  <2>2. intent.kind \notin Lifecycle \cup {"migration.baseline"}
    BY <1>9 DEF Lifecycle
  <2> QED BY <1>6, <1>9, <1>14, <2>1, <2>2 DEF LastFits
<1>24. CoverFits(es, transitions)
  <2>1. ASSUME NEW i \in DOMAIN es, es[i].kind = "migration.baseline"
        PROVE  i = 1 /\ NeedsBaseline
    <3>1. i \in DOMAIN Baseline
      BY <1>9, <1>14, <1>15, <2>1
    <3>2. Baseline[i] \in Range(Baseline)
      BY <3>1 DEF Range
    <3> QED BY <1>12, <1>14, <3>1, <3>2
  <2>2. NeedsBaseline => \E e \in Range(es) : e.kind = "migration.baseline" /\ e.seq = Len(transitions)
    BY <1>12, <1>14
  <2> QED BY <1>1, <2>1, <2>2 DEF CoverFits
<1>25. Fits(es, t, transitions, rs, gate)
  BY <1>16, <1>17, <1>18, <1>19, <1>20, <1>21, <1>22, <1>23, <1>24 DEF Fits, EventsFit
<1>26. AllAppendable(es)
  <2> DEFINE head == <<claimed>>
             tail == <<intent>>
             pre == Baseline \o head
  <2>0. /\ head \in Seq(EventRows) /\ Range(head) = {claimed} /\ Len(head) = 1 /\ head[1] = claimed
        /\ tail \in Seq(EventRows) /\ Len(tail) = 1 /\ tail[1] = intent
    BY <1>9, OneEvent
  <2> HIDE DEF head, tail
  <2>1. pre \in Seq(EventRows) /\ Range(pre) = Range(Baseline) \cup {claimed}
    BY <1>12, <2>0, Joined
  <2>2. es = pre \o tail
    <3>1. two = head \o tail
      <4> DEFINE both == head \o tail
      <4>1. both \in Seq(EventRows) /\ Len(both) = 2 /\ both[1] = claimed /\ both[2] = intent
        <5>1. DOMAIN head = {1} /\ DOMAIN tail = {1}
          BY <2>0
        <5>2. /\ head \o tail \in Seq(EventRows) /\ Len(head \o tail) = Len(head) + Len(tail)
              /\ \A i \in DOMAIN head : (head \o tail)[i] = head[i]
              /\ \A i \in DOMAIN tail : (head \o tail)[Len(head) + i] = tail[i]
          BY <2>0, Joined
        <5>3. (head \o tail)[Len(head) + 1] = tail[1] /\ (head \o tail)[1] = head[1]
          BY <5>1, <5>2
        <5> QED BY <2>0, <5>2, <5>3
      <4> HIDE DEF both
      <4>2. \A i \in 1..2 : two[i] = both[i]
        <5>1. \A i \in 1..2 : i = 1 \/ i = 2
          OBVIOUS
        <5> QED BY <1>10, <4>1, <5>1
      <4>3. two = both
        BY <1>10, <4>1, <4>2, SeqEqual
      <4> QED BY <4>3 DEF both
    <3>2. (Baseline \o head) \o tail = Baseline \o (head \o tail)
      BY <1>12, <2>0, ConcatAssociative
    <3> QED BY <1>13, <3>1, <3>2
  <2>3. Accepts(events, pre)
    BY <1>9, <1>12, <2>1, PlainAccepted DEF Provider
  <2>4. Appendable(events \o pre, intent)
    <3>1. Range(events \o pre) = Range(events) \cup Range(pre)
      BY <1>1, <2>1, Joined
    <3>2. \A e \in Range(events) : e.kind \in Provider => e.run # r
      BY <1>8 DEF IInv, Mirrored
    <3>3. \A e \in Range(pre) : e.kind \notin Provider
      BY <1>9, <1>12, <2>1 DEF Provider
    <3>4. OfRun(events \o pre, r, Provider) = {}
      BY <3>1, <3>2, <3>3, OfRange
    <3> QED BY <1>9, <3>4 DEF Appendable
  <2> HIDE DEF pre
  <2>5. events \o pre \in Seq(EventRows)
    BY <1>1, <2>1
  <2>6. Accepts(events \o pre, tail)
    BY <1>9, <2>4, <2>5, AcceptsOne DEF tail
  <2>7. Accepts(events, pre \o tail)
    BY <1>1, <2>0, <2>1, <2>3, <2>6, AcceptsJoined
  <2> QED BY <2>2, <2>7 DEF AllAppendable, Accepts
<1>27. gate => Storable(es, t, transitions, rs, <<"claim", None>>)
  BY <1>19, <1>26, TrailParity DEF Storable
<1>28. Transact(gate, es, t, transitions, rs, <<"claim", None>>)
  BY <1>2 DEF es, rs, t, two, claimed, intent, row, r, rev, start, call
<1> QED BY <1>1, <1>25, <1>27, <1>28, TransactStep

-----------------------------------------------------------------------------
\* The commit of a run.

LEMMA LatestExists ==
    ASSUME NEW n \in Nat, NEW S \in SUBSET (1..n), S # {}
    PROVE  \E k \in S : \A j \in S : j <= k
<1> DEFINE R == {ss \in Nat \X Nat : ss[1] < ss[2]}
           T == {n - k : k \in S}
<1>1. T \subseteq Nat /\ T # {}
  <2>1. \A k \in S : n - k \in Nat
    OBVIOUS
  <2>2. T # {}
    BY Zenon
  <2> QED BY <2>1, <2>2
<1>2. IsWellFoundedOn(R, Nat)
  BY NatLessThanWellFounded, Zenon DEF OpToRel
<1>3. PICK x \in T : \A y \in T : <<y, x>> \notin R
  <2> HIDE DEF R, T
  <2> QED BY <1>1, <1>2, WFMin
<1>4. \A y \in T : ~(y < x)
  BY <1>1, <1>3
<1>5. PICK k \in S : x = n - k
  OBVIOUS
<1>6. \A j \in S : n - j \in T /\ ~(n - j < n - k)
  BY <1>4, <1>5
<1> QED BY <1>6, <1>5

\* There is a latest event of some kinds.
LEMMA Latest ==
    ASSUME TypesFit, NEW kinds, NEW is, is = {i \in DOMAIN events : events[i].kind \in kinds}, is # {}
    PROVE  \E k \in is : \A j \in is : j <= k
<1>1. is \in SUBSET (1..Len(events)) /\ Len(events) \in Nat
  BY DEF TypesFit
<1> QED BY <1>1, LatestExists

LEMMA SessionParts ==
    ASSUME TypesFit, NEW session \in MaybeSession
    PROVE  /\ SessionEvent(session) \in Seq(EventRows)
           /\ \A e \in Range(SessionEvent(session)) :
                 e.kind \in SessionKinds /\ e.rev = task.revision + 1 /\ e.run = 0
           /\ \A log \in Seq(EventRows) : Accepts(events \o log, SessionEvent(session))
<1> DEFINE born == Event("session.bound", task.revision + 1)
           bound == [born EXCEPT !.session = session]
           blank == Event("session.rebound", task.revision + 1)
           rebound == [blank EXCEPT !.session = session, !.pred = LatestBinding]
<1>1. \/ SessionEvent(session) = <<>>
      \/ SessionEvent(session) = <<bound>>
      \/ /\ LatestBinding # 0 /\ events[LatestBinding].session # session
         /\ SessionEvent(session) = <<rebound>>
  BY DEF SessionEvent
<1>2. born \in EventRows /\ born.kind = "session.bound" /\ born.rev = task.revision + 1 /\ born.run = 0
  <2>1. "session.bound" \in Kinds /\ task.revision + 1 \in Nat
    BY Stamps DEF Kinds, SessionKinds
  <2> QED BY <2>1, EventRow
<1>3. blank \in EventRows /\ blank.kind = "session.rebound" /\ blank.rev = task.revision + 1 /\ blank.run = 0
  <2>1. "session.rebound" \in Kinds /\ task.revision + 1 \in Nat
    BY Stamps DEF Kinds, SessionKinds
  <2> QED BY <2>1, EventRow
<1>4. LatestBinding # 0 =>
        LatestBinding \in DOMAIN events /\ events[LatestBinding].kind \in SessionKinds
  <2> DEFINE is == {i \in DOMAIN events : events[i].kind \in SessionKinds}
             k == CHOOSE i \in is : \A j \in is : j <= i
  <2>1. LatestBinding = IF is = {} THEN 0 ELSE k
    BY DEF LatestBinding
  <2>2. is # {} => k \in is
    <3>1. is # {} => \E i \in is : \A j \in is : j <= i
      BY Latest
    <3> HIDE DEF is
    <3> QED BY <3>1, Zenon
  <2> HIDE DEF k
  <2> QED BY <2>1, <2>2
<1>5. LatestBinding # 0 => LatestBinding \in Nat
  BY <1>4 DEF TypesFit
<1> HIDE DEF born, blank
<1>6. /\ bound \in EventRows /\ bound.kind = "session.bound" /\ bound.rev = task.revision + 1
      /\ bound.run = 0
  BY <1>2 DEF EventRows
<1>7. LatestBinding # 0 =>
        /\ rebound \in EventRows /\ rebound.kind = "session.rebound" /\ rebound.rev = task.revision + 1
        /\ rebound.run = 0 /\ rebound.pred = LatestBinding /\ rebound.session = session
  BY <1>3, <1>5 DEF EventRows
<1> HIDE DEF bound, rebound
<1>8. CASE SessionEvent(session) = <<>>
  BY <1>8, NoEvent
<1>9. CASE SessionEvent(session) = <<bound>>
  <2>1. /\ <<bound>> \in Seq(EventRows) /\ Range(<<bound>>) = {bound}
    BY <1>6, OneEvent
  <2>2. bound.kind \notin Provider \cup {"session.rebound"}
    BY <1>6 DEF Provider
  <2>3. \A log : Accepts(log, <<bound>>)
    BY <2>1, <2>2, PlainAccepted
  <2> QED BY <1>6, <1>9, <2>1, <2>3 DEF SessionKinds
<1>10. CASE /\ LatestBinding # 0 /\ events[LatestBinding].session # session
            /\ SessionEvent(session) = <<rebound>>
  <2>1. /\ rebound \in EventRows
        /\ <<rebound>> \in Seq(EventRows) /\ Range(<<rebound>>) = {rebound}
    BY <1>7, <1>10, OneEvent
  <2>2. ASSUME NEW log \in Seq(EventRows)
        PROVE  Accepts(events \o log, <<rebound>>)
    <3>1. /\ events \in Seq(EventRows) /\ events \o log \in Seq(EventRows)
          /\ DOMAIN events \subseteq DOMAIN (events \o log)
          /\ \A i \in DOMAIN events : (events \o log)[i] = events[i]
      BY DEF TypesFit
    <3>2. Appendable(events \o log, rebound)
      <4>1. rebound.kind \notin Provider
        BY <1>7, <1>10 DEF Provider
      <4> QED BY <1>4, <1>7, <1>10, <3>1, <4>1 DEF Appendable
    <3> QED BY <2>1, <3>1, <3>2, AcceptsOne
  <2> QED BY <1>7, <1>10, <2>1, <2>2 DEF SessionKinds
<1> QED BY <1>1, <1>8, <1>9, <1>10

Classes == {"success", "waiting_user", "blocked", "paused"}

\* What the commit of a run emits before the transition; the store accepts it
\* when the call kept to the session of its intent.
LEMMA SettledParts ==
    ASSUME TypesFit, NEW r \in DOMAIN runs, NEW call \in Calls, NEW class \in Classes
    PROVE  LET pre == RunSettled(r, call, class) IN
           /\ pre \in Seq(EventRows)
           /\ \A e \in Range(pre) :
                 /\ e.rev = task.revision + 1
                 /\ \/ e.kind \in SessionKinds /\ e.run = 0
                    \/ /\ e.kind \in {"provider.dispatched", "provider.settled",
                                      "evidence.sealed", "stage.settled"}
                       /\ e.run = r
                 /\ e.kind = "provider.settled" => e.says = ResultClass(class)
                 /\ e.kind = "stage.settled" => e.says = class /\ e.sealed = TRUE
           /\ \E e \in Range(pre) : e.kind = "provider.settled" /\ e.run = r
           /\ \E e \in Range(pre) : e.kind = "stage.settled" /\ e.run = r
           /\ /\ call = "raised" => runs[r].session = None
              /\ OfRun(events, r, {"provider.dispatch_intent"}) # {}
              /\ \A e \in OfRun(events, r, Provider) :
                    e.kind = "provider.dispatch_intent" /\ e.session = runs[r].session
              => Accepts(events, pre)
<1> DEFINE rev == task.revision + 1
           session == IF call = "raised" THEN None ELSE runs[r].session
           ev(kind) == Event(kind, rev)
           dispatched == [ev("provider.dispatched") EXCEPT !.run = r, !.session = session]
           settled == [ev("provider.settled") EXCEPT !.run = r, !.session = session, !.says = ResultClass(class)]
           sealed == [ev("evidence.sealed") EXCEPT !.run = r]
           staged == [ev("stage.settled") EXCEPT !.run = r, !.says = class, !.sealed = TRUE]
           first == IF call = "answered" THEN <<dispatched>> ELSE <<>>
           second == <<settled>>
           third == SessionEvent(session)
           last == <<sealed, staged>>
           pre == RunSettled(r, call, class)
<1>1. pre = first \o second \o third \o last
  BY DEF RunSettled
<1>2. /\ events \in Seq(EventRows) /\ runs[r] \in RunRows /\ r \in Nat /\ rev \in Nat
      /\ runs[r].session \in MaybeSession /\ session \in MaybeSession
      /\ class \in TASK_STATUSES \cup {None, "success"} /\ ResultClass(class) \in {"success", "blocked", "paused"}
  <2>1. runs[r] \in RunRows /\ r \in Nat
    BY DEF TypesFit
  <2>2. runs[r].session \in MaybeSession
    BY <2>1 DEF RunRows
  <2>3. session \in MaybeSession
    BY <2>2 DEF MaybeSession
  <2>4. class \in TASK_STATUSES \cup {None, "success"} /\ ResultClass(class) \in {"success", "blocked", "paused"}
    BY DEF Classes, TASK_STATUSES, ResultClass
  <2> QED BY <2>1, <2>2, <2>3, <2>4, Stamps DEF TypesFit
<1> HIDE DEF rev
<1>3. \A kind \in Kinds : ev(kind) \in EventRows /\ ev(kind).kind = kind /\ ev(kind).rev = rev /\ ev(kind).run = 0
  BY <1>2, EventRow
<1>4. {"provider.dispatched", "provider.settled", "evidence.sealed", "stage.settled"} \subseteq Kinds
  BY DEF Kinds, Provider
<1> HIDE DEF ev, pre, session
<1>5. /\ dispatched \in EventRows /\ dispatched.kind = "provider.dispatched" /\ dispatched.rev = rev
      /\ dispatched.run = r /\ dispatched.session = session
  <2>1. ev("provider.dispatched") \in EventRows /\ ev("provider.dispatched").kind = "provider.dispatched"
        /\ ev("provider.dispatched").rev = rev
    BY <1>3, <1>4
  <2> QED BY <1>2, <2>1 DEF EventRows
<1>6. /\ settled \in EventRows /\ settled.kind = "provider.settled" /\ settled.rev = rev
      /\ settled.run = r /\ settled.session = session /\ settled.says = ResultClass(class)
  <2>1. ev("provider.settled") \in EventRows /\ ev("provider.settled").kind = "provider.settled"
        /\ ev("provider.settled").rev = rev
    BY <1>3, <1>4
  <2>2. ResultClass(class) \in TASK_STATUSES \cup {None, "success"}
    BY <1>2 DEF TASK_STATUSES
  <2> QED BY <1>2, <2>1, <2>2 DEF EventRows
<1>7. /\ sealed \in EventRows /\ sealed.kind = "evidence.sealed" /\ sealed.rev = rev /\ sealed.run = r
  <2>1. ev("evidence.sealed") \in EventRows /\ ev("evidence.sealed").kind = "evidence.sealed"
        /\ ev("evidence.sealed").rev = rev
    BY <1>3, <1>4
  <2> QED BY <1>2, <2>1 DEF EventRows
<1>8. /\ staged \in EventRows /\ staged.kind = "stage.settled" /\ staged.rev = rev /\ staged.run = r
      /\ staged.says = class /\ staged.sealed = TRUE
  <2>1. ev("stage.settled") \in EventRows /\ ev("stage.settled").kind = "stage.settled"
        /\ ev("stage.settled").rev = rev
    BY <1>3, <1>4
  <2> QED BY <1>2, <2>1 DEF EventRows
<1> HIDE DEF dispatched, settled, sealed, staged
<1>9. first \in Seq(EventRows) /\ Range(first) = IF call = "answered" THEN {dispatched} ELSE {}
  BY <1>5, OneEvent, NoEvent
<1>10. second \in Seq(EventRows) /\ Range(second) = {settled}
  BY <1>6, OneEvent
<1>11. /\ third \in Seq(EventRows)
       /\ \A e \in Range(third) : e.kind \in SessionKinds /\ e.rev = rev /\ e.run = 0
       /\ \A log \in Seq(EventRows) : Accepts(events \o log, third)
  BY <1>2, SessionParts DEF rev
<1>12. last \in Seq(EventRows) /\ Range(last) = {sealed, staged}
  <2>1. last \in Seq(EventRows) /\ DOMAIN last = 1..2 /\ last[1] = sealed /\ last[2] = staged
    BY <1>7, <1>8
  <2>2. 1..2 = {1, 2}
    OBVIOUS
  <2> QED BY <2>1, <2>2 DEF Range
<1> HIDE DEF first, second, third, last
<1> DEFINE two == first \o second
           three == two \o third
<1>13. two \in Seq(EventRows) /\ Range(two) = Range(first) \cup Range(second)
  BY <1>9, <1>10, Joined
<1>14. three \in Seq(EventRows) /\ Range(three) = Range(two) \cup Range(third)
  <2> HIDE DEF two
  <2> QED BY <1>11, <1>13, Joined
<1>15. pre \in Seq(EventRows) /\ Range(pre) = Range(three) \cup Range(last)
  <2>1. pre = three \o last
    BY <1>1
  <2> HIDE DEF three
  <2> QED BY <1>12, <1>14, <2>1, Joined
<1>16. \A e \in Range(pre) :
         /\ e.rev = rev
         /\ \/ e.kind \in SessionKinds /\ e.run = 0
            \/ /\ e.kind \in {"provider.dispatched", "provider.settled",
                              "evidence.sealed", "stage.settled"}
               /\ e.run = r
         /\ e.kind = "provider.settled" => e.says = ResultClass(class)
         /\ e.kind = "stage.settled" => e.says = class /\ e.sealed = TRUE
  <2> HIDE DEF two, three
  <2>1. \A e \in Range(pre) : e \in Range(third) \/ e \in {dispatched, settled, sealed, staged}
    BY <1>9, <1>10, <1>12, <1>13, <1>14, <1>15
  <2> QED BY <1>5, <1>6, <1>7, <1>8, <1>11, <2>1 DEF SessionKinds
<1>17. settled \in Range(pre) /\ staged \in Range(pre)
  BY <1>10, <1>12, <1>13, <1>14, <1>15
<1>18. ASSUME call = "raised" => runs[r].session = None,
              OfRun(events, r, {"provider.dispatch_intent"}) # {},
              \A e \in OfRun(events, r, Provider) :
                  e.kind = "provider.dispatch_intent" /\ e.session = runs[r].session
       PROVE  Accepts(events, pre)
  <2>1. session = runs[r].session
    BY <1>18 DEF session
  <2>2. /\ \A e \in Range(events) : e.kind \in Provider /\ e.run = r =>
               e.kind = "provider.dispatch_intent" /\ e.session = session
        /\ \E e \in Range(events) : e.kind = "provider.dispatch_intent" /\ e.run = r
    BY <1>18, <2>1, OfRange DEF Provider
  <2>3. Appendable(events, dispatched)
    <3>1. OfRun(events, r, {"provider.settled", "provider.dispatched"}) = {}
      BY <2>2, OfRange DEF Provider
    <3>2. KnownSessions(events, r) # {} => session \in KnownSessions(events, r)
      BY <1>18, <2>1 DEF KnownSessions
    <3> QED BY <1>5, <1>18, <3>1, <3>2 DEF Appendable
  <2>4. Accepts(events, first)
    <3>1. CASE call = "answered"
      BY <1>2, <1>5, <2>3, <3>1, AcceptsOne DEF first
    <3>2. CASE call # "answered"
      BY <3>2, NoEvent DEF first
    <3> QED BY <3>1, <3>2
  <2>5. Appendable(events \o first, settled)
    <3> DEFINE log == events \o first
    <3>1. Range(log) = Range(events) \cup Range(first)
      BY <1>2, <1>9, Joined
    <3> HIDE DEF log
    <3>2. \A e \in Range(log) : e.kind \in Provider /\ e.run = r =>
             e.kind # "provider.settled" /\ e.session = session
      BY <1>5, <1>9, <2>2, <3>1
    <3>3. OfRun(log, r, {"provider.settled"}) = {}
      BY <3>2, OfRange DEF Provider
    <3>4. OfRun(log, r, {"provider.dispatch_intent"}) # {}
      BY <2>2, <3>1, OfRange
    <3>5. KnownSessions(log, r) # {} => session \in KnownSessions(log, r)
      <4>1. \A e \in OfRun(log, r, Provider) : e.session = session
        BY <3>2, OfRange
      <4> QED BY <4>1 DEF KnownSessions
    <3>6. Appendable(log, settled)
      BY <1>6, <3>3, <3>4, <3>5 DEF Appendable
    <3> QED BY <3>6 DEF log
  <2>6. Accepts(events \o first, second)
    <3>1. events \o first \in Seq(EventRows)
      BY <1>2, <1>9
    <3> QED BY <1>6, <2>5, <3>1, AcceptsOne DEF second
  <2>7. Accepts(events, two)
    BY <1>2, <1>9, <1>10, <2>4, <2>6, AcceptsJoined
  <2>8. Accepts(events \o two, third)
    BY <1>11, <1>13
  <2> HIDE DEF two
  <2>9. Accepts(events, three)
    BY <1>2, <1>11, <1>13, <2>7, <2>8, AcceptsJoined
  <2>10. Accepts(events \o three, last)
    <3>1. \A e \in Range(last) : e.kind \notin Provider \cup {"session.rebound"}
      BY <1>7, <1>8, <1>12 DEF Provider
    <3> QED BY <3>1, PlainAccepted
  <2>11. pre = three \o last
    BY <1>1 DEF two
  <2> HIDE DEF three
  <2> QED BY <1>2, <1>12, <1>14, <2>9, <2>10, <2>11, AcceptsJoined
<1> QED BY <1>6, <1>8, <1>15, <1>16, <1>17, <1>18 DEF pre, rev

LEMMA CommitRunStep ==
    ASSUME IInv, NEW call \in Calls, NEW class \in Classes,
           NEW status \in {"queued", "waiting_user", "done", "failed", "blocked", "paused"},
           CommitRun(call, class, status)
    PROVE  IInv'
<1> DEFINE r == Len(runs)
           pre == RunSettled(r, call, class)
           es == pre \o Transition(status)
           t == Moved(status)
           ts == Append(transitions, status)
           rs == [runs EXCEPT ![r].status = Committed(class), ![r].sealed = TRUE]
           writes == runs[r].writes
           what == <<"commit", call>>
<1>1. /\ TypesFit /\ runs \in Seq(RunRows) /\ Len(runs) \in Nat
      /\ status \in TASK_STATUSES \ {"running"} /\ task.status # None /\ task.status = "running"
  BY NoneAssumption DEF IInv, TypesFit, TASK_STATUSES, CommitRun
<1>2. /\ r \in DOMAIN runs /\ r \in Nat /\ r # 0 /\ runs[r] \in RunRows
      /\ runs[r].status = "running" /\ ~runs[r].sealed /\ gap.open = ~runs[r].writes
      /\ \A q \in DOMAIN runs : runs[q].status = "running" => q = r
  BY <1>1 DEF IInv, OneBusyRun
<1>3. Transact(writes, es, t, ts, rs, what)
  BY DEF CommitRun
<1>4. Committed(class) \in {"committed", "blocked", "paused"}
  BY DEF Classes, Committed
<1>5. /\ rs \in Seq(RunRows) /\ Len(rs) = r /\ DOMAIN rs = DOMAIN runs
      /\ \A q \in DOMAIN runs : q # r => rs[q] = runs[q]
      /\ rs[r].status = Committed(class) /\ rs[r].sealed = TRUE
      /\ rs[r].session = runs[r].session /\ rs[r].writes = runs[r].writes
  <2> DEFINE row == [runs[r] EXCEPT !.status = Committed(class), !.sealed = TRUE]
  <2>1. row \in RunRows
    BY <1>2, <1>4 DEF RunRows, RunStatuses
  <2>2. /\ row.status = Committed(class) /\ row.sealed = TRUE
        /\ row.session = runs[r].session /\ row.writes = runs[r].writes
    BY <1>2 DEF RunRows
  <2>3. rs = [runs EXCEPT ![r] = row]
    BY <1>1, <1>2
  <2> HIDE DEF row, rs
  <2>4. rs \in Seq(RunRows) /\ Len(rs) = r /\ DOMAIN rs = DOMAIN runs
    BY <1>1, <1>2, <2>1, <2>3
  <2>5. rs[r] = row /\ \A q \in DOMAIN runs : q # r => rs[q] = runs[q]
    BY <1>1, <1>2, <2>3
  <2> QED BY <2>2, <2>4, <2>5
<1> HIDE DEF rs
<1>6. writes \in BOOLEAN
  BY <1>2 DEF RunRows
<1>7. RunsGrow(rs)
  BY <1>1, <1>2, <1>5 DEF RunsGrow
<1>8. RowsGrow(t, ts, rs)
  BY <1>1, <1>7, MovedRows
<1>9. BusyFits(t, rs, writes)
  <2>1. t.status = status
    BY DEF Moved
  <2>2. \A q \in DOMAIN rs : rs[q].status # "running"
    BY <1>2, <1>4, <1>5
  <2> QED BY <1>1, <2>1, <2>2 DEF BusyFits
<1>10. SealFits(rs, writes)
  BY <1>2, <1>5 DEF SealFits
<1>11. /\ pre \in Seq(EventRows)
       /\ \A e \in Range(pre) :
             /\ e.rev = task.revision + 1
             /\ \/ e.kind \in SessionKinds /\ e.run = 0
                \/ /\ e.kind \in {"provider.dispatched", "provider.settled",
                                  "evidence.sealed", "stage.settled"}
                   /\ e.run = r
             /\ e.kind = "provider.settled" => e.says = ResultClass(class)
             /\ e.kind = "stage.settled" => e.says = class /\ e.sealed = TRUE
       /\ \E e \in Range(pre) : e.kind = "provider.settled" /\ e.run = r
       /\ \E e \in Range(pre) : e.kind = "stage.settled" /\ e.run = r
       /\ /\ call = "raised" => runs[r].session = None
          /\ OfRun(events, r, {"provider.dispatch_intent"}) # {}
          /\ \A e \in OfRun(events, r, Provider) :
                e.kind = "provider.dispatch_intent" /\ e.session = runs[r].session
          => Accepts(events, pre)
  <2> HIDE DEF r
  <2> QED BY <1>1, <1>2, SettledParts
<1> HIDE DEF pre
<1>12. writes => EventsFit(es, t, ts, rs)
  <2> SUFFICES ASSUME writes PROVE EventsFit(es, t, ts, rs)
    OBVIOUS
  <2>1. Rising(pre)
    BY <1>11, StampedRises
  <2>2. ASSUME NEW e \in Range(pre)
        PROVE  /\ task.revision <= e.rev /\ e.rev <= task.revision + 1
               /\ e.run \in {0} \cup DOMAIN rs
               /\ e.kind # "task.transition.committed"
               /\ e.kind \in Provider => e.run \in DOMAIN rs /\ rs[e.run].writes
               /\ e.kind \in {"evidence.sealed", "stage.claimed", "stage.settled"} => e.run \in DOMAIN rs
    <3>1. task.revision <= e.rev /\ e.rev <= task.revision + 1
      BY <1>1, <1>11, Stamps
    <3>2. rs[r].writes /\ r \in DOMAIN rs
      BY <1>2, <1>5
    <3>3. CASE e.kind \in SessionKinds /\ e.run = 0
      BY <3>1, <3>3 DEF SessionKinds, Provider
    <3>4. CASE /\ e.kind \in {"provider.dispatched", "provider.settled",
                              "evidence.sealed", "stage.settled"}
               /\ e.run = r
      BY <3>1, <3>2, <3>4
    <3> QED BY <1>11, <3>3, <3>4
  <2>3. ResultFits(pre, rs)
    <3>1. ResultClass(class) \in {"success", "blocked", "paused"}
      BY DEF Classes, ResultClass
    <3>2. ResultClass(class) = "success" => Committed(class) = "committed"
      BY DEF Classes, ResultClass, Committed
    <3>3. \A e \in Range(pre) : e.kind = "provider.settled" => e.run = r
      BY <1>11 DEF SessionKinds
    <3> QED BY <1>5, <1>11, <3>1, <3>2, <3>3 DEF ResultFits
  <2>4. AttemptFits(pre, rs)
    <3>1. \A e \in Range(pre) : e.kind = "stage.settled" => e.run = r
      BY <1>11 DEF SessionKinds
    <3>2. ASSUME NEW q \in DOMAIN rs, q # r
          PROVE  /\ q \in DOMAIN runs
                 /\ rs[q].status = runs[q].status /\ rs[q].sealed = runs[q].sealed
                 /\ {e \in Range(pre) : e.kind = "stage.settled" /\ e.run = q} = {}
      BY <1>5, <3>1, <3>2
    <3>3. /\ runs[r].status = "running" /\ rs[r].status # "running"
          /\ {e \in Range(pre) : e.kind = "stage.settled" /\ e.run = r} # {}
          /\ \A e \in {f \in Range(pre) : f.kind = "stage.settled" /\ f.run = r} :
                Committed(e.says) = rs[r].status /\ e.sealed = rs[r].sealed
      BY <1>2, <1>4, <1>5, <1>11
    <3> HIDE DEF r
    <3> QED BY <3>2, <3>3 DEF AttemptFits
  <2>5. \A i \in DOMAIN pre : pre[i].kind # "migration.baseline"
    <3>1. \A i \in DOMAIN pre : pre[i] \in Range(pre)
      BY DEF Range
    <3> QED BY <1>11, <3>1 DEF SessionKinds
  <2>6. ~gap.open
    BY <1>2
  <2> QED BY <1>1, <1>11, <2>1, <2>2, <2>3, <2>4, <2>5, <2>6, MoveFits
<1>13. writes => Storable(es, t, ts, rs, what)
  <2> SUFFICES ASSUME writes PROVE Storable(es, t, ts, rs, what)
    OBVIOUS
  <2>1. CASE call = "raised" /\ runs[r].session # None
    <3>1. what = <<"commit", "raised">> /\ runs # <<>>
      BY <1>2, <2>1
    <3> QED BY <2>1, <3>1 DEF Storable, RaisedBound
  <2>2. CASE ~(call = "raised" /\ runs[r].session # None)
    <3>1. /\ OfRun(events, r, {"provider.dispatch_intent"}) # {}
          /\ \A e \in OfRun(events, r, Provider) :
                e.kind = "provider.dispatch_intent" /\ e.session = runs[r].session
      BY <1>2 DEF IInv, Intended
    <3>2. Accepts(events, pre)
      BY <1>11, <2>2, <3>1
    <3>3. PICK last \in EventRows : Transition(status) = <<last>> /\ last.kind = "task.transition.committed"
      BY <1>1, TransitionParts
    <3>4. Accepts(events \o pre, <<last>>) /\ <<last>> \in Seq(EventRows)
      <4>1. \A e \in Range(<<last>>) : e.kind \notin Provider \cup {"session.rebound"}
        BY <3>3, OneEvent DEF Provider
      <4> QED BY <4>1, PlainAccepted, OneEvent
    <3>5. Accepts(events, pre \o <<last>>)
      BY <1>1, <1>11, <3>2, <3>4, AcceptsJoined DEF TypesFit
    <3>6. AllAppendable(es)
      BY <3>3, <3>5 DEF AllAppendable, Accepts
    <3> QED BY <1>12, <3>6, TrailParity DEF Storable, EventsFit
  <2> QED BY <2>1, <2>2
<1> HIDE DEF es, t, ts, writes, what
<1>14. Fits(es, t, ts, rs, writes)
  BY <1>8, <1>9, <1>10, <1>12 DEF Fits
<1> QED BY <1>3, <1>6, <1>13, <1>14, TransactStep

-----------------------------------------------------------------------------
\* The invariant holds.

LEMMA InitHolds == Init => IInv
<1> SUFFICES ASSUME Init PROVE IInv
  OBVIOUS
<1>1. /\ gate \in BOOLEAN /\ task = [status |-> None, revision |-> 0]
      /\ transitions = <<>> /\ runs = <<>> /\ events = <<>>
      /\ gap = [open |-> FALSE, count |-> 0] /\ refused = {}
  BY DEF Init
<1>2. /\ task \in TaskRows /\ task.status = None /\ task.revision = 0 /\ None # "running"
      /\ gap.open = FALSE /\ gap.count = 0
      /\ DOMAIN runs = {} /\ DOMAIN transitions = {} /\ DOMAIN events = {}
      /\ Range(events) = {}
  BY <1>1, NoneAssumption, NoEvent DEF TaskRows, TASK_STATUSES
<1>3. TypesFit
  BY <1>1, <1>2 DEF TypesFit
<1>4. OneBusyRun /\ Submitted /\ Mirrored /\ Intended /\ ResultsKnown /\ AttemptsTold /\ LatestTold
  BY <1>1, <1>2 DEF OneBusyRun, Submitted, Mirrored, Intended, ResultsKnown, AttemptsTold, LatestTold
<1>5. BaselineCovers
  BY <1>2 DEF BaselineCovers, Of
<1>6. Chained
  BY <1>2 DEF Chained, Accepts, Rising
<1>7. RefusedFits
  BY <1>1 DEF RefusedFits, OnlyRaisedBoundCallRefused
<1> QED BY <1>3, <1>4, <1>5, <1>6, <1>7 DEF IInv

\* A step of the operator or of retention touches none of this.
LEMMA OtherStep ==
    ASSUME IInv, UNCHANGED <<canonical, events, gap, refused>>, gate' \in BOOLEAN
    PROVE  IInv'
<1>1. UNCHANGED <<task, transitions, runs, events, gap, refused>>
  BY DEF canonical
<1>2. TypesFit'
  BY <1>1 DEF IInv, TypesFit
<1>3. OneBusyRun' /\ Submitted' /\ Mirrored' /\ Intended' /\ ResultsKnown' /\ AttemptsTold'
  BY <1>1 DEF IInv, OneBusyRun, Submitted, Mirrored, Intended, ResultsKnown, AttemptsTold
<1>4. LatestTold' /\ BaselineCovers' /\ Chained'
  BY <1>1 DEF IInv, LatestTold, Told, BaselineCovers, Chained
<1>5. RefusedFits'
  BY <1>1 DEF IInv, RefusedFits, OnlyRaisedBoundCallRefused
<1> QED BY <1>2, <1>3, <1>4, <1>5 DEF IInv

LEMMA StepHolds == IInv /\ [Next]_vars => IInv'
<1> SUFFICES ASSUME IInv, [Next]_vars PROVE IInv'
  OBVIOUS
<1>1. CASE Submit
  BY <1>1, SubmitStep
<1>2. CASE StopForCap
  BY <1>2, StopForCapStep
<1>3. CASE BlockOrphanedRunning
  BY <1>3, BlockOrphanedStep
<1>4. CASE Resume
  BY <1>4, ResumeStep
<1>5. CASE Flip
  BY <1>5, OtherStep DEF Flip
<1>6. ASSUME NEW session \in Sessions \cup {None}, Claim(session)
      PROVE  IInv'
  BY <1>6, ClaimStep DEF MaybeSession
<1>7. ASSUME NEW status \in {"paused", "blocked"}, PreflightStop(status)
      PROVE  IInv'
  BY <1>7, PreflightStopStep
<1>8. ASSUME NEW call \in Calls, NEW class \in {"success", "waiting_user", "blocked", "paused"},
             NEW status \in {"queued", "waiting_user", "done", "failed", "blocked", "paused"},
             CommitRun(call, class, status)
      PROVE  IInv'
  BY <1>8, CommitRunStep DEF Classes
<1>9. ASSUME NEW r \in DOMAIN runs, NEW how \in {"unavailable", "corrupt"}, Decay(r, how)
      PROVE  IInv'
  <2>1. gate' = gate /\ gate \in BOOLEAN
    BY <1>9 DEF Decay, IInv, TypesFit
  <2> QED BY <1>9, <2>1, OtherStep DEF Decay
<1>10. CASE UNCHANGED vars
  <2>1. gate' = gate /\ gate \in BOOLEAN
    BY <1>10 DEF vars, IInv, TypesFit
  <2>2. UNCHANGED <<canonical, events, gap, refused>>
    BY <1>10 DEF vars, canonical
  <2> QED BY <2>1, <2>2, OtherStep
<1> QED BY <1>1, <1>2, <1>3, <1>4, <1>5, <1>6, <1>7, <1>8, <1>9, <1>10 DEF Next

LEMMA IInvHolds == Spec => []IInv
BY InitHolds, StepHolds, PTL DEF Spec

-----------------------------------------------------------------------------
\* What the invariant says of the replay.

LEMMA LatestIs ==
    ASSUME TypesFit, NEW kinds, NEW i \in DOMAIN events, events[i].kind \in kinds,
           \A j \in DOMAIN events : j > i => events[j].kind \notin kinds
    PROVE  LatestOf(kinds) = events[i]
<1> DEFINE is == {j \in DOMAIN events : events[j].kind \in kinds}
           k == CHOOSE m \in is : \A j \in is : j <= m
<1>1. is # {} /\ LatestOf(kinds) = events[k]
  BY DEF LatestOf
<1>2. k \in is /\ \A j \in is : j <= k
  <2>1. \E m \in is : \A j \in is : j <= m
    BY <1>1, Latest
  <2> HIDE DEF is
  <2> QED BY <2>1, Zenon
<1> HIDE DEF k
<1>3. k = i
  <2>1. k \in DOMAIN events /\ i \in is /\ DOMAIN events = 1..Len(events) /\ Len(events) \in Nat
    BY <1>2 DEF TypesFit
  <2>2. i <= k /\ ~(k > i)
    BY <1>2, <2>1
  <2> QED BY <2>1, <2>2
<1> QED BY <1>1, <1>3

LEMMA TaskTold ==
    ASSUME IInv, task.status # None, ~gap.open, gap.count <= 1
    PROVE  TaskAgrees
<1>1. TypesFit
  BY DEF IInv
<1>2. PICK i \in DOMAIN events : Told(i)
  BY DEF IInv, LatestTold
<1>3. /\ events[i].kind \in {"task.transition.committed", "stage.claimed"}
      /\ events[i].rev = task.revision
      /\ task.status = IF events[i].kind = "stage.claimed" THEN "running" ELSE events[i].says
      /\ \A j \in DOMAIN events :
            j > i => events[j].kind \notin Lifecycle \cup {"migration.baseline"}
  BY <1>2 DEF Told
<1>4. LatestOf(Lifecycle) = events[i]
  <2>1. events[i].kind \in Lifecycle /\ \A j \in DOMAIN events : j > i => events[j].kind \notin Lifecycle
    BY <1>3 DEF Lifecycle
  <2> QED BY <1>1, <2>1, LatestIs
<1>5. LatestOf(Lifecycle \cup {"migration.baseline"}) = events[i]
  <2>1. events[i].kind \in Lifecycle \cup {"migration.baseline"}
    BY <1>3 DEF Lifecycle
  <2> QED BY <1>1, <1>3, <2>1, LatestIs
<1>6. events # <<>>
  BY <1>2
<1>7. ProjectedStatus = task.status /\ ProjectedRevision = task.revision
  <2>1. ProjectedRevision = task.revision
    BY <1>3, <1>5 DEF ProjectedRevision
  <2>2. ProjectedStatus = task.status
    BY <1>3, <1>4 DEF ProjectedStatus
  <2> QED BY <2>1, <2>2
<1>8. ASSUME NEW q \in DOMAIN transitions, q > Coverage, q \notin Live(events)
      PROVE  FALSE
  <2>1. PICK e \in Of(events, {"migration.baseline"}) : q <= e.seq
    BY <1>8 DEF IInv, BaselineCovers
  <2>2. PICK j \in DOMAIN events : e = events[j] /\ events[j].kind = "migration.baseline"
    BY DEF Of
  <2>3. \A m \in DOMAIN events : m > j => events[m].kind \notin {"migration.baseline"}
    <3>1. j \in Nat
      BY <1>1 DEF TypesFit
    <3>2. \A m \in DOMAIN events : events[m].kind = "migration.baseline" => m = j
      BY <2>2 DEF IInv, BaselineCovers
    <3> QED BY <3>1, <3>2
  <2>4. LatestOf({"migration.baseline"}) = e
    BY <1>1, <2>2, <2>3, LatestIs
  <2>5. Coverage = e.seq
    BY <2>1, <2>4 DEF Coverage
  <2>6. q \in Nat /\ e.seq \in Nat
    <3>1. e \in EventRows
      BY <1>1, <2>2 DEF TypesFit
    <3>2. q \in Nat
      BY <1>1 DEF TypesFit
    <3>3. e.seq \in Nat
      BY <3>1 DEF EventRows
    <3> QED BY <3>2, <3>3
  <2> QED BY <1>8, <2>1, <2>5, <2>6
<1> QED BY <1>6, <1>7, <1>8 DEF TaskAgrees

LEMMA AttemptTold ==
    ASSUME IInv, gap.count = 0, NEW r \in Attempts
    PROVE  AttemptAgrees(r)
<1>1. r \in DOMAIN runs
  <2>1. PICK e \in Of(events, {"stage.claimed", "stage.settled"}) : e.run = r
    BY DEF Attempts
  <2>2. e \in Range(events) /\ e.kind \in {"stage.claimed", "stage.settled"}
    BY OfRange
  <2> QED BY <2>1, <2>2 DEF IInv, Mirrored
<1>2. /\ OfRun(events, r, {"stage.settled"}) = {} <=> runs[r].status = "running"
      /\ \A e \in OfRun(events, r, {"stage.settled"}) :
            Committed(e.says) = runs[r].status /\ e.sealed = runs[r].sealed
  BY <1>1 DEF IInv, AttemptsTold
<1> QED BY <1>2 DEF AttemptAgrees

LEMMA NoneMisplaced ==
    ASSUME TypesFit, Chained, NEW i \in DOMAIN events
    PROVE  ~Misplaced(i)
<1> DEFINE e == events[i]
           earlier == SubSeq(events, 1, i - 1)
<1>1. Appendable(earlier, e)
  <2>1. events \in Seq(EventRows) /\ i \in 1..Len(events) /\ Len(events) \in Nat
    BY DEF TypesFit
  <2>2. earlier \in Seq(EventRows)
    <3>1. \A j \in 1..(i - 1) : events[j] \in EventRows
      BY <2>1
    <3> QED BY <2>1, <3>1, SubSeqProperties
  <2>3. <<>> \o earlier = earlier
    <3> HIDE DEF earlier
    <3> QED BY <2>2, ConcatEmptySeq
  <2>4. Appendable(<<>> \o earlier, e)
    BY DEF Chained, Accepts
  <2> QED BY <2>3, <2>4
<1> HIDE DEF earlier, e
<1>2. CASE e.kind = "provider.dispatch_intent"
  <2>1. OfRun(earlier, e.run, Provider) = {}
    BY <1>1, <1>2 DEF Appendable
  <2>2. OfRun(earlier, e.run, {e.kind}) = {}
    BY <1>2, <2>1, OfRange DEF Provider
  <2> QED BY <1>2, <2>2 DEF Misplaced, e, earlier
<1>3. CASE e.kind \in {"provider.dispatched", "provider.settled"}
  <2>1. /\ OfRun(earlier, e.run, {"provider.dispatch_intent"}) # {}
        /\ OfRun(earlier, e.run, {"provider.settled", e.kind}) = {}
    BY <1>1, <1>3 DEF Appendable
  <2>2. OfRun(earlier, e.run, {e.kind}) = {}
    <3> DEFINE kind == e.kind
               run == e.run
    <3> HIDE DEF kind, run
    <3>1. OfRun(earlier, run, {"provider.settled", kind}) = {}
      BY <2>1 DEF kind, run
    <3>2. Of(earlier, {kind}) \subseteq Of(earlier, {"provider.settled", kind})
      BY DEF Of
    <3>3. OfRun(earlier, run, {kind}) = {}
      BY <3>1, <3>2 DEF OfRun
    <3> QED BY <3>3 DEF kind, run
  <2> QED BY <1>3, <2>1, <2>2 DEF Misplaced, e, earlier
<1>4. CASE e.kind \notin Provider
  BY <1>1, <1>4 DEF Misplaced, e, earlier
<1> QED BY <1>2, <1>3, <1>4 DEF Provider

LEMMA CorruptTold ==
    ASSUME IInv, IntegrityStatus = "corrupt"
    PROVE  \E r \in DOMAIN runs : evidence[r] = "corrupt"
<1>1. Broken
  BY DEF IntegrityStatus
<1>2. ASSUME NEW i \in DOMAIN events, i > 1
      PROVE  ~(events[i].rev < events[i - 1].rev)
  <2>1. i - 1 \in DOMAIN events /\ i - 1 <= i /\ events[i] \in EventRows /\ events[i - 1] \in EventRows
    BY <1>2 DEF IInv, TypesFit
  <2>2. events[i - 1].rev <= events[i].rev
    BY <2>1 DEF IInv, Chained, Rising
  <2> QED BY <2>1, <2>2 DEF EventRows
<1>3. PICK r \in Inventory : evidence[r] = "corrupt"
  BY <1>1, <1>2, NoneMisplaced DEF Broken, IInv
<1>4. PICK e \in Of(events, {"evidence.sealed"}) : e.run = r
  BY DEF Inventory
<1>5. e \in Range(events) /\ e.kind = "evidence.sealed"
  BY OfRange
<1>6. r \in DOMAIN runs
  BY <1>4, <1>5 DEF IInv, Mirrored
<1> QED BY <1>3, <1>6

LEMMA ResultsTold == IInv => CrashStaysUnknown
<1> SUFFICES ASSUME IInv, NEW r \in Invocations
             PROVE  /\ ResultState(r) = "unknown" <=> ~runs[r].sealed
                    /\ ResultState(r) = "success" => runs[r].status = "committed"
  BY DEF CrashStaysUnknown
<1> DEFINE settled == OfRun(events, r, {"provider.settled"})
<1>1. r \in DOMAIN runs /\ runs[r].writes
  <2>1. PICK e \in Of(events, {"provider.dispatch_intent"}) : e.run = r
    BY DEF Invocations
  <2>2. e \in Range(events) /\ e.kind \in Provider
    BY OfRange DEF Provider
  <2> QED BY <2>1, <2>2 DEF IInv, Mirrored
<1>2. /\ runs[r].sealed => settled # {}
      /\ \A e \in settled :
            /\ runs[r].sealed
            /\ e.says \in {"success", "blocked", "paused"}
            /\ e.says = "success" => runs[r].status = "committed"
  BY <1>1 DEF IInv, ResultsKnown
<1>3. ResultState(r) = IF settled = {} THEN "unknown" ELSE (CHOOSE e \in settled : TRUE).says
  BY DEF ResultState
<1> HIDE DEF settled
<1>4. settled # {} => (CHOOSE e \in settled : TRUE) \in settled
  BY Zenon
<1> QED BY <1>2, <1>3, <1>4

-----------------------------------------------------------------------------

\* The store and the parity check undo no transaction of the controller but the
\* commit of a run whose call raised in a session (controller.py, runner.py and
\* trajectory.py together), whatever the gate did before.
THEOREM RefusalsNarrow == Spec => []OnlyRaisedBoundCallRefused
<1>1. IInv => OnlyRaisedBoundCallRefused
  BY DEF IInv, RefusedFits
<1> QED BY <1>1, IInvHolds, PTL

\* A call whose process died, or whose commit was undone, is never read as
\* settled, and a sealed one never as unknown (trajectory_replay.py).
THEOREM UnknownStays == Spec => []CrashStaysUnknown
BY ResultsTold, IInvHolds, PTL

\* The replay agrees with the canonical rows after every commit that wrote its
\* events, across one stretch of commits that wrote none, and calls a trajectory
\* corrupt only when sealed evidence was altered.
THEOREM ReplayTellsRows == Spec => []ReplayAgrees
<1>1. IInv => ReplayAgrees
  BY TaskTold, AttemptTold, CorruptTold DEF ReplayAgrees
<1> QED BY <1>1, IInvHolds, PTL
=============================================================================
