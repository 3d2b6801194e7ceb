------------------------- MODULE ProviderRunProofs -------------------------
(***************************************************************************)
(* What holds of ProviderRun for every size of the queue, every budget and *)
(* every bound: a stream that says it is complete holds every record, its  *)
(* terminal record has room, a success is a run read to its end and        *)
(* reaped, and every result can be sealed and read back.                   *)
(***************************************************************************)
EXTENDS ProviderRun, SequenceTheorems, TLAPS

-----------------------------------------------------------------------------
\* Types.

Code == {None, 0, 1, 9}
Running == {"draining", "waiting", "terminating", "final drain", "reaping", "ended"}
Over == {"closing", "joining", "closed", "returned"}
Before == {"preflight", "stopped", "start"}

Child == [state : {"none", "running", "exited"}, code : Code, killed : BOOLEAN]
Pipe == [holders : SUBSET {"child", "grandchild"}, unread : Nat]
Capture == {"absent", "text", "empty", "huge", "damaged"}
Drained == [read : Nat, held : BOOLEAN]
FinalErrors == {"missing", "empty", "too_large", "unreadable"}
Final == [text : {None, "the capture"}, error : {None} \cup FinalErrors]
Result ==
    [exit : Code, timed_out : BOOLEAN, error : {None, "spawn", "interrupted", "undecodable"},
     output : {"none", "all", "all, with an outcome", "error"},
     stop : {None} \cup ContainmentStops, source : {Whole, Native}, final : Final]

\* A record that is not the terminal one: fragments, stage_start, heartbeats.
Rec == Nat \cup {Beat}
Writer ==
    [at : {"none", "starting", "writing", "done"}, handle : BOOLEAN, failed : BOOLEAN,
     bytes : Nat, file : Seq(Int)]

LifeTypes ==
    /\ pc \in Before \cup Running \cup Over
    /\ protocol \in {Whole, Native}
    /\ child \in Child
    /\ pipe \in Pipe
    /\ said \in Nat
    /\ capture \in Capture
    /\ late \in BOOLEAN
    /\ drained \in Drained
    /\ result \in Result

StreamTypes ==
    /\ queue \in Seq(Int)
    /\ closing \in BOOLEAN
    /\ incomplete \in BOOLEAN
    /\ offered \in Seq(Rec)
    /\ writer \in Writer
    /\ faults \in Nat

TypeOK == LifeTypes /\ StreamTypes

-----------------------------------------------------------------------------
\* The lifecycle thread and the child.

\* Nothing has happened before a child is spawned.
Untouched ==
    pc \in Before =>
        /\ child.state = "none"
        /\ result = Result0
        /\ drained = [read |-> 0, held |-> FALSE]
        /\ writer.at = "none" /\ ~closing /\ queue = <<>> /\ offered = <<>>

\* A run that is being waited for has a child, and no error yet; it is past the
\* wait only over a child that has exited.
Waited ==
    /\ pc \in Running => child.state # "none"
    /\ pc = "ended" => child.state = "exited"
    /\ pc \in Running \ {"terminating"} => result.error = None

\* An exit code is the code of a child that has exited, and stays it.
ExitKnown == result.exit # None => child.state = "exited" /\ result.exit = child.code

\* An outcome is reported of a stream read as far as the outcome.
OutcomeRead ==
    result.output = "all, with an outcome" =>
        /\ pc \in Over
        /\ result.error = None
        /\ said # 0 /\ said <= drained.read

CaptureLate == capture # "absent" => child.state = "exited"

\* What a final response comes to under either protocol.
Settled ==
    pc = "returned" =>
        /\ result.stop = None => result.source = protocol
        /\ result.source = Whole => result.final = Answer(None, None)
        /\ result.source = Native =>
              \/ result.final = Answer("the capture", None) /\ capture = "text"
              \/ result.final.text = None /\ result.final.error # None

LifeOK == Untouched /\ Waited /\ ExitKnown /\ OutcomeRead /\ CaptureLate /\ Settled

-----------------------------------------------------------------------------
\* The stream.

\* The terminal record comes last, from a run that offers nothing more.
TerminalLast ==
    /\ closing => pc \in {"joining", "closed", "returned"}
    /\ writer.at = "done" => closing
    /\ IF closing THEN queue \in Seq(Rec \cup {Terminal}) ELSE queue \in Seq(Rec)

\* The file holds optional records only, and leaves room for the terminal one.
RoomLeft ==
    /\ writer.at \in {"none", "starting"} => writer.bytes = 0 /\ writer.file = <<>>
    /\ writer.at # "done" => writer.bytes + RESERVE <= MAX_BYTES /\ writer.file \in Seq(Rec)
    /\ writer.at = "writing" /\ ~writer.failed => writer.handle

\* Unless the stream is known to be incomplete, what was offered is in the file
\* or still in the queue.
NothingLost ==
    writer.at \in {"starting", "writing"} /\ ~incomplete =>
        writer.file \o queue = IF closing THEN Append(offered, Terminal) ELSE offered

\* ... and, once it is written, in the file.
AllWritten ==
    Ended /\ LastOf(writer.file) = StageEnd(TRUE) =>
        SubSeq(writer.file, 1, Len(writer.file) - 1) = offered

\* What was read was offered, but for what the decoder holds back.
ReadOffered ==
    /\ drained.read > 0 /\ ~drained.held => \E i \in DOMAIN offered : offered[i] = drained.read
    /\ pc \in Over /\ result.error = None => ~drained.held

StreamOK == TerminalLast /\ RoomLeft /\ NothingLost /\ AllWritten /\ ReadOffered /\ EndFits

\* The inductive invariant.
IInv == TypeOK /\ LifeOK /\ StreamOK

-----------------------------------------------------------------------------
\* Sequences: an element moved from the front of one to the end of another.

LEMMA AppendAcross ==
    ASSUME NEW S, NEW s \in Seq(S), NEW t \in Seq(S), NEW e \in S
    PROVE  s \o Append(t, e) = Append(s \o t, e)
<1>1. /\ Append(t, e) \in Seq(S) /\ Len(Append(t, e)) = Len(t) + 1
      /\ s \o t \in Seq(S) /\ Len(s \o t) = Len(s) + Len(t)
      /\ Len(s) \in Nat /\ Len(t) \in Nat
  BY AppendProperties, ConcatProperties, LenProperties
<1>2. /\ s \o Append(t, e) \in Seq(S) /\ Len(s \o Append(t, e)) = Len(s) + Len(t) + 1
      /\ Append(s \o t, e) \in Seq(S) /\ Len(Append(s \o t, e)) = Len(s) + Len(t) + 1
  BY <1>1, AppendProperties, ConcatProperties
<1>3. ASSUME NEW i \in 1..(Len(s) + Len(t) + 1)
      PROVE  (s \o Append(t, e))[i] = Append(s \o t, e)[i]
  <2>1. CASE i <= Len(s)
    BY <1>1, <2>1, ConcatProperties, AppendProperties
  <2>2. CASE i > Len(s) /\ i <= Len(s) + Len(t)
    BY <1>1, <2>2, ConcatProperties, AppendProperties
  <2>3. CASE i = Len(s) + Len(t) + 1
    BY <1>1, <2>3, ConcatProperties, AppendProperties
  <2> QED BY <1>1, <2>1, <2>2, <2>3
<1> QED BY <1>2, <1>3, SeqEqual

LEMMA TailAcross ==
    ASSUME NEW S, NEW s \in Seq(S), NEW t \in Seq(S), t # <<>>
    PROVE  Append(s, Head(t)) \o Tail(t) = s \o t
<1>1. /\ Head(t) \in S /\ Head(t) = t[1] /\ Tail(t) \in Seq(S) /\ Len(Tail(t)) = Len(t) - 1
      /\ Len(s) \in Nat /\ Len(t) \in Nat \ {0}
      /\ \A i \in 1..Len(Tail(t)) : Tail(t)[i] = t[i + 1]
  BY HeadTailProperties, LenProperties, EmptySeq
<1>2. /\ Append(s, Head(t)) \in Seq(S) /\ Len(Append(s, Head(t))) = Len(s) + 1
      /\ \A i \in 1..Len(s) : Append(s, Head(t))[i] = s[i]
      /\ Append(s, Head(t))[Len(s) + 1] = t[1]
  BY <1>1, AppendProperties
<1>3. /\ Append(s, Head(t)) \o Tail(t) \in Seq(S)
      /\ Len(Append(s, Head(t)) \o Tail(t)) = Len(s) + Len(t)
      /\ \A i \in 1..(Len(s) + Len(t)) : (Append(s, Head(t)) \o Tail(t))[i] =
            IF i <= Len(s) + 1 THEN Append(s, Head(t))[i] ELSE Tail(t)[i - (Len(s) + 1)]
  BY <1>1, <1>2, ConcatProperties
<1>4. /\ s \o t \in Seq(S) /\ Len(s \o t) = Len(s) + Len(t)
      /\ \A i \in 1..(Len(s) + Len(t)) :
            (s \o t)[i] = IF i <= Len(s) THEN s[i] ELSE t[i - Len(s)]
  BY ConcatProperties
<1>5. ASSUME NEW i \in 1..(Len(s) + Len(t))
      PROVE  (Append(s, Head(t)) \o Tail(t))[i] = (s \o t)[i]
  <2>1. CASE i <= Len(s)
    BY <1>1, <1>2, <1>3, <1>4, <2>1
  <2>2. CASE i = Len(s) + 1
    BY <1>1, <1>2, <1>3, <1>4, <2>2
  <2>3. CASE i > Len(s) + 1
    BY <1>1, <1>3, <1>4, <2>3
  <2> QED BY <1>1, <2>1, <2>2, <2>3
<1> QED BY <1>3, <1>4, <1>5, SeqEqual

LEMMA AllButLast ==
    ASSUME NEW S, NEW s \in Seq(S), NEW e \in S
    PROVE  SubSeq(Append(s, e), 1, Len(Append(s, e)) - 1) = s
<1> DEFINE t == Append(s, e)
<1>1. /\ t \in Seq(S) /\ Len(t) = Len(s) + 1 /\ Len(s) \in Nat
      /\ \A i \in 1..Len(s) : t[i] = s[i]
  BY AppendProperties, LenProperties
<1>2. \A i \in 1..Len(s) : t[i] \in S
  BY <1>1, ElementOfSeq
<1> HIDE DEF t
<1>3. /\ SubSeq(t, 1, Len(s)) \in Seq(S)
      /\ Len(SubSeq(t, 1, Len(s))) = IF 1 <= Len(s) THEN Len(s) - 1 + 1 ELSE 0
      /\ \A i \in 1..(Len(s) - 1 + 1) : SubSeq(t, 1, Len(s))[i] = t[1 + i - 1]
  BY <1>1, <1>2, SubSeqProperties
<1>4. Len(SubSeq(t, 1, Len(s))) = Len(s) /\ \A i \in 1..Len(s) : SubSeq(t, 1, Len(s))[i] = s[i]
  BY <1>1, <1>3
<1>5. SubSeq(t, 1, Len(s)) = s
  BY <1>3, <1>4, SeqEqual
<1> QED BY <1>1, <1>5 DEF t

-----------------------------------------------------------------------------
\* Types.

LEMMA ResultsTyped ==
    /\ Result0 \in Result
    /\ Classification(result) \in {"success", "blocked"}
BY DEF Result0, Result, Code, Final, Answer, Classification, AuthoritativeText

LEMMA AnswerFields ==
    \A text, error : Answer(text, error).text = text /\ Answer(text, error).error = error
BY DEF Answer

LEMMA FinalTyped ==
    ASSUME capture \in Capture, protocol \in {Whole, Native}
    PROVE  /\ ReadFinalResponse \in Final
           /\ protocol = Whole => ReadFinalResponse = Answer(None, None)
           /\ protocol = Native =>
                 \/ ReadFinalResponse = Answer("the capture", None) /\ capture = "text"
                 \/ ReadFinalResponse.text = None /\ ReadFinalResponse.error # None
BY NoneAssumption DEF ReadFinalResponse, Captured, Answer, Final, FinalErrors, Capture, Whole, Native

\* The environment, and steps that change where the run is and what it found out.
LEMMA ProcessTyped ==
    ASSUME LifeTypes, Prints \/ ClosesOutput \/ LeavesGrandchild \/ GrandchildCloses \/ Killed
                      \/ (\E code \in {0, 1} : Exits(code))
    PROVE  child' \in Child /\ pipe' \in Pipe /\ said' \in Nat /\ capture' \in Capture
<1> USE DEF LifeTypes, Child, Pipe, Capture, Code
<1>1. CASE Prints
  BY <1>1 DEF Prints, Drained
<1>2. CASE ClosesOutput
  BY <1>2 DEF ClosesOutput
<1>3. CASE LeavesGrandchild
  BY <1>3 DEF LeavesGrandchild
<1>4. CASE GrandchildCloses
  BY <1>4 DEF GrandchildCloses
<1>5. CASE Killed
  BY <1>5 DEF Killed
<1>6. ASSUME NEW code \in {0, 1}, Exits(code)
      PROVE  child' \in Child /\ pipe' \in Pipe /\ said' \in Nat /\ capture' \in Capture
  BY <1>6 DEF Exits
<1> QED BY <1>1, <1>2, <1>3, <1>4, <1>5, <1>6

-----------------------------------------------------------------------------
\* The child and the pipe.

LEMMA ChildMoves ==
    ASSUME IInv, Prints \/ ClosesOutput \/ LeavesGrandchild \/ GrandchildCloses \/ Killed
                 \/ (\E code \in {0, 1} : Exits(code))
    PROVE  /\ child.state # "running" => child' = child /\ capture' = capture
           /\ child.state = "running" => child'.state \in {"running", "exited"}
           /\ child.state = "none" => child'.state = "none"
           /\ said # 0 => said' = said
           /\ capture' # "absent" => child'.state = "exited"
<1> USE DEF IInv, TypeOK, LifeTypes, LifeOK, CaptureLate, Child, Alive
<1>1. CASE Prints
  BY <1>1 DEF Prints
<1>2. CASE ClosesOutput
  BY <1>2 DEF ClosesOutput
<1>3. CASE LeavesGrandchild
  BY <1>3 DEF LeavesGrandchild
<1>4. CASE GrandchildCloses
  BY <1>4 DEF GrandchildCloses
<1>5. CASE Killed
  BY <1>5 DEF Killed
<1>6. ASSUME NEW code \in {0, 1}, Exits(code)
      PROVE  /\ child.state # "running" => child' = child /\ capture' = capture
             /\ child.state = "running" => child'.state \in {"running", "exited"}
             /\ child.state = "none" => child'.state = "none"
             /\ said # 0 => said' = said
             /\ capture' # "absent" => child'.state = "exited"
  BY <1>6 DEF Exits
<1> QED BY <1>1, <1>2, <1>3, <1>4, <1>5, <1>6

\* A step that leaves the stream and what was offered to it alone.
LEMMA StreamUntouched ==
    ASSUME IInv, UNCHANGED <<queue, closing, incomplete, writer, offered, drained>>,
           closing => pc' \in {"joining", "closed", "returned"},
           pc' \in Over /\ result'.error = None => ~drained.held
    PROVE  StreamOK'
<1> USE DEF IInv, StreamOK
<1>1. TerminalLast'
  BY DEF TerminalLast
<1>2. RoomLeft'
  BY DEF RoomLeft
<1>3. NothingLost'
  BY DEF NothingLost
<1>4. AllWritten' /\ EndFits'
  BY DEF AllWritten, EndFits, Ended
<1>5. ReadOffered'
  BY DEF ReadOffered
<1> QED BY <1>1, <1>2, <1>3, <1>4, <1>5

LEMMA ProcessStep ==
    ASSUME IInv, Environment \/ Dies \/ Lets
    PROVE  IInv'
<1>1. /\ Prints \/ ClosesOutput \/ LeavesGrandchild \/ GrandchildCloses \/ Killed
                \/ (\E code \in {0, 1} : Exits(code))
      /\ UNCHANGED <<pc, drained, result, offered, queue, closing, incomplete, writer,
                     protocol, late, faults>>
  BY DEF Environment, Dies, Lets, lifecycle, stream
<1>2. TypeOK'
  BY <1>1, ProcessTyped DEF IInv, TypeOK, LifeTypes, StreamTypes
<1>3. /\ child.state # "running" => child' = child /\ capture' = capture
      /\ child.state = "running" => child'.state \in {"running", "exited"}
      /\ child.state = "none" => child'.state = "none"
      /\ said # 0 => said' = said
      /\ capture' # "absent" => child'.state = "exited"
  BY <1>1, ChildMoves
<1>4. child.state \in {"none", "running", "exited"}
  BY DEF IInv, TypeOK, LifeTypes, Child
<1>5. LifeOK'
  <2> USE <1>1, <1>3, <1>4 DEF IInv, LifeOK
  <2>1. Untouched'
    BY DEF Untouched
  <2>2. Waited'
    BY DEF Waited
  <2>3. ExitKnown'
    BY DEF ExitKnown
  <2>4. OutcomeRead'
    BY DEF OutcomeRead
  <2>5. CaptureLate'
    BY DEF CaptureLate
  <2>6. Settled'
    BY DEF Settled, CaptureLate
  <2> QED BY <2>1, <2>2, <2>3, <2>4, <2>5, <2>6
<1>6. StreamOK'
  BY <1>1, StreamUntouched DEF IInv, StreamOK, TerminalLast, ReadOffered
<1> QED BY <1>2, <1>5, <1>6 DEF IInv

-----------------------------------------------------------------------------
\* Steps that leave the stream alone.

LEMMA QuietStep ==
    ASSUME IInv,
           \/ Preflight \/ Refuse \/ Eof \/ Wait \/ Timeout \/ Gone \/ Kills
           \/ ReadFails \/ Interrupt \/ Join \/ DeadlinePasses
    PROVE  IInv'
<1> USE DEF IInv, TypeOK, LifeOK
<1>t. /\ LifeTypes /\ StreamTypes /\ closing \in BOOLEAN /\ late \in BOOLEAN
      /\ child.state \in {"none", "running", "exited"} /\ child.code \in Code
  BY DEF LifeTypes, StreamTypes, Child
<1>1. CASE Preflight
  <2> USE DEF Before, Running, Over, process, stream
  <2>1. LifeTypes' /\ StreamTypes'
    BY <1>1 DEF Preflight, ProbeStatus, LifeTypes, StreamTypes
  <2>2. Untouched'
    BY <1>1, <1>t, NoneAssumption DEF Preflight, ProbeStatus, Untouched
  <2>3. Waited'
    BY <1>1, <1>t, NoneAssumption DEF Preflight, ProbeStatus, Waited, Untouched
  <2>4. ExitKnown'
    BY <1>1, <1>t, NoneAssumption DEF Preflight, ProbeStatus, ExitKnown, Result0
  <2>5. OutcomeRead'
    BY <1>1, <1>t, NoneAssumption DEF Preflight, ProbeStatus, OutcomeRead, Result0
  <2>6. CaptureLate'
    BY <1>1, <1>t, NoneAssumption DEF Preflight, ProbeStatus, CaptureLate
  <2>7. Settled'
    BY <1>1, <1>t, NoneAssumption DEF Preflight, ProbeStatus, Settled, Result0, Answer, Whole, Native
  <2>8. UNCHANGED <<queue, closing, incomplete, writer, offered, drained>> /\ ~closing'
    BY <1>1 DEF Preflight, ProbeStatus, StreamOK, TerminalLast, lifecycle
  <2>9. pc' \in Over /\ result'.error = None => ~drained.held
    BY <1>1, <1>t, NoneAssumption DEF Preflight, ProbeStatus, StreamOK, ReadOffered, Waited, Untouched
  <2>10. closing => pc' \in {"joining", "closed", "returned"}
    BY <1>1, <2>8 DEF Preflight, ProbeStatus, StreamOK, TerminalLast
  <2> HIDE DEF Before, Running, Over, process, stream
  <2>11. StreamOK'
    BY <2>8, <2>9, <2>10, StreamUntouched DEF IInv
  <2> QED BY <2>1, <2>2, <2>3, <2>4, <2>5, <2>6, <2>7, <2>11
<1>2. CASE Refuse
  <2> USE DEF Before, Running, Over, process, stream
  <2>r. result' \in Result
    BY <1>2, ResultsTyped DEF Refuse, LifeTypes, Result, Code, Child
  <2>1. LifeTypes' /\ StreamTypes'
    BY <1>2, <2>r DEF Refuse, LifeTypes, StreamTypes
  <2>2. Untouched'
    BY <1>2, <1>t, NoneAssumption DEF Refuse, Untouched, LifeTypes, Result
  <2>3. Waited'
    BY <1>2, <1>t, NoneAssumption DEF Refuse, Waited, Untouched, LifeTypes, Result
  <2>4. ExitKnown'
    BY <1>2, <1>t, NoneAssumption DEF Refuse, ExitKnown, Result0, LifeTypes, Result
  <2>5. OutcomeRead'
    BY <1>2, <1>t, NoneAssumption DEF Refuse, OutcomeRead, Result0, LifeTypes, Result
  <2>6. CaptureLate'
    BY <1>2, <1>t, NoneAssumption DEF Refuse, CaptureLate, LifeTypes, Result
  <2>7. Settled'
    <3>1. PICK reason \in ContainmentStops : result' = [Result0 EXCEPT !.stop = reason, !.output = "error"]
      BY <1>2 DEF Refuse
    <3>2. result'.stop # None /\ result'.source = Whole /\ result'.final = Answer(None, None)
      BY <3>1, NoneAssumption DEF Result0
    <3> QED BY <3>2 DEF Settled, Whole, Native
  <2>8. UNCHANGED <<queue, closing, incomplete, writer, offered, drained>> /\ ~closing'
    BY <1>2 DEF Refuse, StreamOK, TerminalLast, lifecycle
  <2>9. pc' \in Over /\ result'.error = None => ~drained.held
    <3>1. drained = [read |-> 0, held |-> FALSE]
      BY <1>2 DEF Refuse, Untouched
    <3> QED BY <3>1
  <2>10. closing => pc' \in {"joining", "closed", "returned"}
    BY <1>2, <2>8 DEF Refuse, StreamOK, TerminalLast
  <2> HIDE DEF Before, Running, Over, process, stream
  <2>11. StreamOK'
    BY <2>8, <2>9, <2>10, StreamUntouched DEF IInv
  <2> QED BY <2>1, <2>2, <2>3, <2>4, <2>5, <2>6, <2>7, <2>11
<1>3. CASE Eof
  <2> USE DEF Before, Running, Over, process, stream
  <2>1. LifeTypes' /\ StreamTypes'
    BY <1>3 DEF Eof, Draining, LifeTypes, StreamTypes
  <2>2. Untouched'
    BY <1>3, <1>t, NoneAssumption DEF Eof, Draining, Untouched
  <2>3. Waited'
    BY <1>3, <1>t, NoneAssumption DEF Eof, Draining, Waited, Untouched
  <2>4. ExitKnown'
    BY <1>3, <1>t, NoneAssumption DEF Eof, Draining, ExitKnown, Result0
  <2>5. OutcomeRead'
    BY <1>3, <1>t, NoneAssumption DEF Eof, Draining, OutcomeRead, Result0
  <2>6. CaptureLate'
    BY <1>3, <1>t, NoneAssumption DEF Eof, Draining, CaptureLate
  <2>7. Settled'
    BY <1>3, <1>t, NoneAssumption DEF Eof, Draining, Settled, Result0, Answer, Whole, Native
  <2>8. UNCHANGED <<queue, closing, incomplete, writer, offered, drained>> /\ ~closing'
    BY <1>3 DEF Eof, Draining, StreamOK, TerminalLast, lifecycle
  <2>9. pc' \in Over /\ result'.error = None => ~drained.held
    BY <1>3, <1>t, NoneAssumption DEF Eof, Draining, StreamOK, ReadOffered, Waited, Untouched
  <2>10. closing => pc' \in {"joining", "closed", "returned"}
    BY <1>3, <2>8 DEF Eof, Draining, StreamOK, TerminalLast
  <2> HIDE DEF Before, Running, Over, process, stream
  <2>11. StreamOK'
    BY <2>8, <2>9, <2>10, StreamUntouched DEF IInv
  <2> QED BY <2>1, <2>2, <2>3, <2>4, <2>5, <2>6, <2>7, <2>11
<1>4. CASE Wait
  <2> USE DEF Before, Running, Over, process, stream
  <2>1. LifeTypes' /\ StreamTypes'
    BY <1>4 DEF Wait, Alive, LifeTypes, StreamTypes
  <2>2. Untouched'
    BY <1>4, <1>t, NoneAssumption DEF Wait, Alive, Untouched
  <2>3. Waited'
    BY <1>4, <1>t, NoneAssumption DEF Wait, Alive, Waited, Untouched
  <2>4. ExitKnown'
    BY <1>4, <1>t, NoneAssumption DEF Wait, Alive, ExitKnown, Result0
  <2>5. OutcomeRead'
    BY <1>4, <1>t, NoneAssumption DEF Wait, Alive, OutcomeRead, Result0
  <2>6. CaptureLate'
    BY <1>4, <1>t, NoneAssumption DEF Wait, Alive, CaptureLate
  <2>7. Settled'
    BY <1>4, <1>t, NoneAssumption DEF Wait, Alive, Settled, Result0, Answer, Whole, Native
  <2>8. UNCHANGED <<queue, closing, incomplete, writer, offered, drained>> /\ ~closing'
    BY <1>4 DEF Wait, Alive, StreamOK, TerminalLast, lifecycle
  <2>9. pc' \in Over /\ result'.error = None => ~drained.held
    BY <1>4, <1>t, NoneAssumption DEF Wait, Alive, StreamOK, ReadOffered, Waited, Untouched
  <2>10. closing => pc' \in {"joining", "closed", "returned"}
    BY <1>4, <2>8 DEF Wait, Alive, StreamOK, TerminalLast
  <2> HIDE DEF Before, Running, Over, process, stream
  <2>11. StreamOK'
    BY <2>8, <2>9, <2>10, StreamUntouched DEF IInv
  <2> QED BY <2>1, <2>2, <2>3, <2>4, <2>5, <2>6, <2>7, <2>11
<1>5. CASE Timeout
  <2> USE DEF Before, Running, Over, process, stream
  <2>r. result' \in Result
    BY <1>5, ResultsTyped DEF Timeout, Alive, LifeTypes, Result, Code, Child
  <2>1. LifeTypes' /\ StreamTypes'
    BY <1>5, <2>r DEF Timeout, Alive, LifeTypes, StreamTypes
  <2>2. Untouched'
    BY <1>5, <1>t, NoneAssumption DEF Timeout, Alive, Untouched, LifeTypes, Result
  <2>3. Waited'
    BY <1>5, <1>t, NoneAssumption DEF Timeout, Alive, Waited, Untouched, LifeTypes, Result
  <2>4. ExitKnown'
    BY <1>5, <1>t, NoneAssumption DEF Timeout, Alive, ExitKnown, Result0, LifeTypes, Result
  <2>5. OutcomeRead'
    BY <1>5, <1>t, NoneAssumption DEF Timeout, Alive, OutcomeRead, Result0, LifeTypes, Result
  <2>6. CaptureLate'
    BY <1>5, <1>t, NoneAssumption DEF Timeout, Alive, CaptureLate, LifeTypes, Result
  <2>7. Settled'
    BY <1>5, <1>t, NoneAssumption DEF Timeout, Alive, Settled, Result0, Answer, Whole, Native, LifeTypes, Result
  <2>8. UNCHANGED <<queue, closing, incomplete, writer, offered, drained>> /\ ~closing'
    BY <1>5 DEF Timeout, Alive, StreamOK, TerminalLast, lifecycle
  <2>9. pc' \in Over /\ result'.error = None => ~drained.held
    BY <1>5, <1>t, NoneAssumption DEF Timeout, Alive, StreamOK, ReadOffered, Waited, Untouched, LifeTypes, Result
  <2>10. closing => pc' \in {"joining", "closed", "returned"}
    BY <1>5, <2>8 DEF Timeout, Alive, StreamOK, TerminalLast
  <2> HIDE DEF Before, Running, Over, process, stream
  <2>11. StreamOK'
    BY <2>8, <2>9, <2>10, StreamUntouched DEF IInv
  <2> QED BY <2>1, <2>2, <2>3, <2>4, <2>5, <2>6, <2>7, <2>11
<1>6. CASE Gone
  <2> USE DEF Before, Running, Over, process, stream
  <2>r. result' \in Result
    BY <1>6, ResultsTyped DEF Gone, After, Alive, LifeTypes, Result, Code, Child
  <2>1. LifeTypes' /\ StreamTypes'
    BY <1>6, <2>r DEF Gone, After, Alive, LifeTypes, StreamTypes
  <2>2. Untouched'
    BY <1>6, <1>t, NoneAssumption DEF Gone, After, Alive, Untouched, LifeTypes, Result
  <2>3. Waited'
    BY <1>6, <1>t, NoneAssumption DEF Gone, After, Alive, Waited, Untouched, LifeTypes, Result
  <2>4. ExitKnown'
    BY <1>6, <1>t DEF Gone, Alive, ExitKnown, Waited, LifeTypes, Result
  <2>5. OutcomeRead'
    BY <1>6, <1>t, NoneAssumption DEF Gone, After, Alive, OutcomeRead, Result0, LifeTypes, Result
  <2>6. CaptureLate'
    BY <1>6, <1>t, NoneAssumption DEF Gone, After, Alive, CaptureLate, LifeTypes, Result
  <2>7. Settled'
    BY <1>6, <1>t, NoneAssumption DEF Gone, After, Alive, Settled, Result0, Answer, Whole, Native, LifeTypes, Result
  <2>8. UNCHANGED <<queue, closing, incomplete, writer, offered, drained>> /\ ~closing'
    BY <1>6 DEF Gone, After, Alive, StreamOK, TerminalLast, lifecycle
  <2>9. pc' \in Over /\ result'.error = None => ~drained.held
    BY <1>6, <1>t, NoneAssumption DEF Gone, After, Alive, StreamOK, ReadOffered, Waited, Untouched, LifeTypes, Result
  <2>10. closing => pc' \in {"joining", "closed", "returned"}
    BY <1>6, <2>8 DEF Gone, After, Alive, StreamOK, TerminalLast
  <2> HIDE DEF Before, Running, Over, process, stream
  <2>11. StreamOK'
    BY <2>8, <2>9, <2>10, StreamUntouched DEF IInv
  <2> QED BY <2>1, <2>2, <2>3, <2>4, <2>5, <2>6, <2>7, <2>11
<1>7. CASE Kills
  <2> USE DEF Before, Running, Over, process, stream
  <2>c. child' \in Child
    BY <1>7 DEF Kills, Kill, After, Alive, LifeTypes, Child
  <2>1. LifeTypes' /\ StreamTypes'
    BY <1>7, <2>c DEF Kills, Kill, After, Alive, LifeTypes, StreamTypes
  <2>2. Untouched'
    BY <1>7, <1>t, NoneAssumption DEF Kills, Kill, After, Alive, Untouched, LifeTypes, Child
  <2>3. Waited'
    BY <1>7, <1>t, NoneAssumption DEF Kills, Kill, After, Alive, Waited, Untouched, LifeTypes, Child
  <2>4. ExitKnown'
    BY <1>7, <1>t, NoneAssumption DEF Kills, Kill, After, Alive, ExitKnown, Result0, LifeTypes, Child
  <2>5. OutcomeRead'
    BY <1>7, <1>t, NoneAssumption DEF Kills, Kill, After, Alive, OutcomeRead, Result0, LifeTypes, Child
  <2>6. CaptureLate'
    BY <1>7, <1>t, NoneAssumption DEF Kills, Kill, After, Alive, CaptureLate, LifeTypes, Child
  <2>7. Settled'
    BY <1>7, <1>t, NoneAssumption DEF Kills, Kill, After, Alive, Settled, Result0, Answer, Whole, Native, LifeTypes, Child
  <2>8. UNCHANGED <<queue, closing, incomplete, writer, offered, drained>> /\ ~closing'
    BY <1>7 DEF Kills, Kill, After, Alive, StreamOK, TerminalLast, lifecycle
  <2>9. pc' \in Over /\ result'.error = None => ~drained.held
    BY <1>7, <1>t, NoneAssumption DEF Kills, Kill, After, Alive, StreamOK, ReadOffered, Waited, Untouched, LifeTypes, Child
  <2>10. closing => pc' \in {"joining", "closed", "returned"}
    BY <1>7, <2>8 DEF Kills, Kill, After, Alive, StreamOK, TerminalLast
  <2> HIDE DEF Before, Running, Over, process, stream
  <2>11. StreamOK'
    BY <2>8, <2>9, <2>10, StreamUntouched DEF IInv
  <2> QED BY <2>1, <2>2, <2>3, <2>4, <2>5, <2>6, <2>7, <2>11
<1>8. CASE ReadFails
  <2> USE DEF Before, Running, Over, process, stream
  <2>r. result' \in Result
    BY <1>8, ResultsTyped DEF ReadFails, Draining, LifeTypes, Result, Code, Child
  <2>u. /\ pc' \in {"terminating", "closing"} /\ faults' = faults + 1
        /\ UNCHANGED <<drained, offered, process, stream, protocol, late>>
    BY <1>8 DEF ReadFails
  <2>1. LifeTypes' /\ StreamTypes'
    <3>1. faults' \in Nat
      BY <2>u DEF StreamTypes
    <3>2. StreamTypes'
      BY <2>u, <3>1 DEF StreamTypes
    <3> QED BY <2>u, <2>r, <3>2 DEF LifeTypes
  <2>2. Untouched'
    BY <1>8, <1>t, NoneAssumption DEF ReadFails, Draining, Untouched, LifeTypes, Result
  <2>3. Waited'
    BY <1>8, <1>t, NoneAssumption DEF ReadFails, Draining, Waited, Untouched, LifeTypes, Result
  <2>4. ExitKnown'
    BY <1>8, <1>t, NoneAssumption DEF ReadFails, Draining, ExitKnown, Result0, LifeTypes, Result
  <2>5. OutcomeRead'
    BY <1>8, <1>t, NoneAssumption DEF ReadFails, Draining, OutcomeRead, Result0, LifeTypes, Result
  <2>6. CaptureLate'
    BY <1>8, <1>t, NoneAssumption DEF ReadFails, Draining, CaptureLate, LifeTypes, Result
  <2>7. Settled'
    BY <1>8, <1>t, NoneAssumption DEF ReadFails, Draining, Settled, Result0, Answer, Whole, Native, LifeTypes, Result
  <2>8. UNCHANGED <<queue, closing, incomplete, writer, offered, drained>> /\ ~closing'
    BY <1>8 DEF ReadFails, Draining, StreamOK, TerminalLast, lifecycle
  <2>9. pc' \in Over /\ result'.error = None => ~drained.held
    BY <1>8, <1>t, NoneAssumption DEF ReadFails, Draining, StreamOK, ReadOffered, Waited, Untouched, LifeTypes, Result
  <2>10. closing => pc' \in {"joining", "closed", "returned"}
    BY <1>8, <2>8 DEF ReadFails, Draining, StreamOK, TerminalLast
  <2> HIDE DEF Before, Running, Over, process, stream
  <2>11. StreamOK'
    BY <2>8, <2>9, <2>10, StreamUntouched DEF IInv
  <2> QED BY <2>1, <2>2, <2>3, <2>4, <2>5, <2>6, <2>7, <2>11
<1>9. CASE Interrupt
  <2> USE DEF Before, Running, Over, process, stream
  <2>r. result' \in Result
    BY <1>9, ResultsTyped DEF Interrupt, Alive, LifeTypes, Result, Code, Child
  <2>u. /\ pc' \in {"terminating", "closing"} /\ faults' = faults + 1
        /\ UNCHANGED <<drained, offered, process, stream, protocol, late>>
    BY <1>9 DEF Interrupt
  <2>1. LifeTypes' /\ StreamTypes'
    <3>1. faults' \in Nat
      BY <2>u DEF StreamTypes
    <3>2. StreamTypes'
      BY <2>u, <3>1 DEF StreamTypes
    <3> QED BY <2>u, <2>r, <3>2 DEF LifeTypes
  <2>2. Untouched'
    BY <1>9, <1>t, NoneAssumption DEF Interrupt, Alive, Untouched, LifeTypes, Result
  <2>3. Waited'
    BY <1>9, <1>t, NoneAssumption DEF Interrupt, Alive, Waited, Untouched, LifeTypes, Result
  <2>4. ExitKnown'
    BY <1>9, <1>t, NoneAssumption DEF Interrupt, Alive, ExitKnown, Result0, LifeTypes, Result
  <2>5. OutcomeRead'
    BY <1>9, <1>t, NoneAssumption DEF Interrupt, Alive, OutcomeRead, Result0, LifeTypes, Result
  <2>6. CaptureLate'
    BY <1>9, <1>t, NoneAssumption DEF Interrupt, Alive, CaptureLate, LifeTypes, Result
  <2>7. Settled'
    BY <1>9, <1>t, NoneAssumption DEF Interrupt, Alive, Settled, Result0, Answer, Whole, Native, LifeTypes, Result
  <2>8. UNCHANGED <<queue, closing, incomplete, writer, offered, drained>> /\ ~closing'
    BY <1>9 DEF Interrupt, Alive, StreamOK, TerminalLast, lifecycle
  <2>9. pc' \in Over /\ result'.error = None => ~drained.held
    BY <1>9, <1>t, NoneAssumption DEF Interrupt, Alive, StreamOK, ReadOffered, Waited, Untouched, LifeTypes, Result
  <2>10. closing => pc' \in {"joining", "closed", "returned"}
    BY <1>9, <2>8 DEF Interrupt, Alive, StreamOK, TerminalLast
  <2> HIDE DEF Before, Running, Over, process, stream
  <2>11. StreamOK'
    BY <2>8, <2>9, <2>10, StreamUntouched DEF IInv
  <2> QED BY <2>1, <2>2, <2>3, <2>4, <2>5, <2>6, <2>7, <2>11
<1>10. CASE Join
  <2> USE DEF Before, Running, Over, process, stream
  <2>1. LifeTypes' /\ StreamTypes'
    BY <1>10 DEF Join, LifeTypes, StreamTypes
  <2>2. Untouched'
    BY <1>10, <1>t, NoneAssumption DEF Join, Untouched
  <2>3. Waited'
    BY <1>10, <1>t, NoneAssumption DEF Join, Waited, Untouched
  <2>4. ExitKnown'
    BY <1>10, <1>t, NoneAssumption DEF Join, ExitKnown, Result0
  <2>5. OutcomeRead'
    BY <1>10, <1>t, NoneAssumption DEF Join, OutcomeRead, Result0
  <2>6. CaptureLate'
    BY <1>10, <1>t, NoneAssumption DEF Join, CaptureLate
  <2>7. Settled'
    BY <1>10, <1>t, NoneAssumption DEF Join, Settled, Result0, Answer, Whole, Native
  <2>8. UNCHANGED <<queue, closing, incomplete, writer, offered, drained>>
    BY <1>10 DEF Join, lifecycle
  <2>9. pc' \in Over /\ result'.error = None => ~drained.held
    BY <1>10, <1>t, NoneAssumption DEF Join, StreamOK, ReadOffered, Waited, Untouched
  <2>10. closing => pc' \in {"joining", "closed", "returned"}
    BY <1>10, <2>8 DEF Join, StreamOK, TerminalLast
  <2> HIDE DEF Before, Running, Over, process, stream
  <2>11. StreamOK'
    BY <2>8, <2>9, <2>10, StreamUntouched DEF IInv
  <2> QED BY <2>1, <2>2, <2>3, <2>4, <2>5, <2>6, <2>7, <2>11
<1>11. CASE DeadlinePasses
  <2> USE DEF Before, Running, Over, process, stream
  <2>1. LifeTypes' /\ StreamTypes'
    BY <1>11 DEF DeadlinePasses, lifecycle, LifeTypes, StreamTypes
  <2>2. Untouched'
    BY <1>11, <1>t, NoneAssumption DEF DeadlinePasses, lifecycle, Untouched
  <2>3. Waited'
    BY <1>11, <1>t, NoneAssumption DEF DeadlinePasses, lifecycle, Waited, Untouched
  <2>4. ExitKnown'
    BY <1>11, <1>t, NoneAssumption DEF DeadlinePasses, lifecycle, ExitKnown, Result0
  <2>5. OutcomeRead'
    BY <1>11, <1>t, NoneAssumption DEF DeadlinePasses, lifecycle, OutcomeRead, Result0
  <2>6. CaptureLate'
    BY <1>11, <1>t, NoneAssumption DEF DeadlinePasses, lifecycle, CaptureLate
  <2>7. Settled'
    BY <1>11, <1>t, NoneAssumption DEF DeadlinePasses, lifecycle, Settled, Result0, Answer, Whole, Native
  <2>8. UNCHANGED <<queue, closing, incomplete, writer, offered, drained>>
    BY <1>11 DEF DeadlinePasses, lifecycle, lifecycle
  <2>9. pc' \in Over /\ result'.error = None => ~drained.held
    BY <1>11, <1>t, NoneAssumption DEF DeadlinePasses, lifecycle, StreamOK, ReadOffered, Waited, Untouched
  <2>10. closing => pc' \in {"joining", "closed", "returned"}
    BY <1>11, <2>8 DEF DeadlinePasses, lifecycle, StreamOK, TerminalLast
  <2> HIDE DEF Before, Running, Over, process, stream
  <2>11. StreamOK'
    BY <2>8, <2>9, <2>10, StreamUntouched DEF IInv
  <2> QED BY <2>1, <2>2, <2>3, <2>4, <2>5, <2>6, <2>7, <2>11
<1> QED BY <1>1, <1>2, <1>3, <1>4, <1>5, <1>6, <1>7, <1>8, <1>9, <1>10, <1>11

LEMMA ReturnStep ==
    ASSUME IInv, Return
    PROVE  IInv'
<1> USE DEF IInv, TypeOK, LifeOK
<1>1. /\ pc = "closed" /\ pc' = "returned"
      /\ result' = [result EXCEPT !.source = protocol, !.final = ReadFinalResponse]
      /\ UNCHANGED <<drained, offered, child, pipe, said, capture, queue, closing, incomplete,
                     writer, protocol, late, faults>>
  BY DEF Return, process, stream
<1>2. /\ result \in Result /\ protocol \in {Whole, Native} /\ capture \in Capture
  BY DEF LifeTypes
<1>3. /\ ReadFinalResponse \in Final
      /\ protocol = Whole => ReadFinalResponse = Answer(None, None)
      /\ protocol = Native =>
            \/ ReadFinalResponse = Answer("the capture", None) /\ capture = "text"
            \/ ReadFinalResponse.text = None /\ ReadFinalResponse.error # None
  BY <1>2, FinalTyped
<1>4. /\ result' \in Result
      /\ result'.source = protocol /\ result'.final = ReadFinalResponse
      /\ result'.exit = result.exit /\ result'.error = result.error /\ result'.output = result.output
  BY <1>1, <1>2, <1>3 DEF Result
<1>5. TypeOK'
  <2>1. StreamTypes'
    BY <1>1 DEF StreamTypes
  <2>2. LifeTypes'
    BY <1>1, <1>4 DEF LifeTypes, Over
  <2> QED BY <2>1, <2>2
<1>6. LifeOK'
  <2>1. Untouched'
    BY <1>1 DEF Untouched, Before
  <2>2. Waited'
    BY <1>1 DEF Waited, Running
  <2>3. ExitKnown'
    BY <1>1, <1>4 DEF ExitKnown
  <2>4. OutcomeRead'
    BY <1>1, <1>4 DEF OutcomeRead, Over
  <2>5. CaptureLate'
    BY <1>1 DEF CaptureLate
  <2>6. Settled'
    BY <1>1, <1>2, <1>3, <1>4 DEF Settled
  <2> QED BY <2>1, <2>2, <2>3, <2>4, <2>5, <2>6
<1>7. StreamOK'
  <2>1. pc' \in Over /\ result'.error = None => ~drained.held
    BY <1>1, <1>4 DEF StreamOK, ReadOffered, Over
  <2> QED BY <1>1, <2>1, StreamUntouched
<1> QED BY <1>5, <1>6, <1>7

LEMMA SpawnStep ==
    ASSUME IInv, NEW started \in BOOLEAN, Spawn(started)
    PROVE  IInv'
<1> USE DEF IInv, TypeOK, LifeOK
<1>1. /\ pc = "start" /\ pc' = "draining"
      /\ child' = [child EXCEPT !.state = "running"]
      /\ pipe' = [pipe EXCEPT !.holders = {"child"}]
      /\ writer' = Writer0(IF started THEN "starting" ELSE "none")
      /\ queue' = IF started THEN <<StageStart>> ELSE <<>>
      /\ incomplete' = ~started /\ offered' = <<StageStart>>
      /\ UNCHANGED <<drained, result, said, capture, closing, protocol, late, faults>>
  BY DEF Spawn
<1>2. /\ child.state = "none" /\ result = Result0
      /\ drained = [read |-> 0, held |-> FALSE] /\ ~closing
  BY <1>1 DEF Untouched, Before
<1>3. child' \in Child /\ pipe' \in Pipe /\ child'.state = "running"
  BY <1>1 DEF LifeTypes, Child, Pipe
<1>4. /\ <<StageStart>> \in Seq(Rec) /\ <<>> \in Seq(Rec) /\ <<>> \in Seq(Int)
      /\ <<StageStart>> \in Seq(Int)
  BY DEF StageStart, Rec
<1>5. /\ writer' \in Writer /\ writer'.file = <<>> /\ writer'.bytes = 0
      /\ writer'.at = IF started THEN "starting" ELSE "none"
  BY <1>1, <1>4 DEF Writer0, Writer
<1>6. TypeOK'
  <2>1. StreamTypes'
    BY <1>1, <1>4, <1>5 DEF StreamTypes
  <2>2. LifeTypes'
    BY <1>1, <1>3 DEF LifeTypes, Running
  <2> QED BY <2>1, <2>2
<1>7. LifeOK'
  <2>1. Untouched'
    BY <1>1 DEF Untouched, Before
  <2>2. Waited'
    BY <1>1, <1>2, <1>3 DEF Waited, Running, Result0
  <2>3. ExitKnown'
    BY <1>1, <1>2 DEF ExitKnown, Result0
  <2>4. OutcomeRead'
    BY <1>1, <1>2 DEF OutcomeRead, Result0
  <2>5. CaptureLate'
    BY <1>1, <1>2 DEF CaptureLate
  <2>6. Settled'
    BY <1>1 DEF Settled
  <2> QED BY <2>1, <2>2, <2>3, <2>4, <2>5, <2>6
<1>8. StreamOK'
  <2>1. TerminalLast'
    BY <1>1, <1>2, <1>4, <1>5 DEF TerminalLast
  <2>2. RoomLeft'
    BY <1>4, <1>5, BudgetAssumption DEF RoomLeft
  <2>3. NothingLost'
    BY <1>1, <1>2, <1>4, <1>5, ConcatEmptySeq DEF NothingLost
  <2>4. AllWritten' /\ EndFits'
    BY <1>5, BudgetAssumption DEF AllWritten, EndFits, Ended
  <2>5. ReadOffered'
    BY <1>1, <1>2 DEF ReadOffered, Over
  <2> QED BY <2>1, <2>2, <2>3, <2>4, <2>5 DEF StreamOK
<1> QED BY <1>6, <1>7, <1>8

LEMMA SpawnFailsStep ==
    ASSUME IInv, SpawnFails
    PROVE  IInv'
<1> USE DEF IInv, TypeOK, LifeOK
<1>1. /\ pc = "start" /\ pc' = "closing" /\ faults' = faults + 1
      /\ result' = [result EXCEPT !.error = "spawn", !.output = "error"]
      /\ writer' = Writer0("starting")
      /\ UNCHANGED <<drained, offered, child, pipe, said, capture, queue, closing, incomplete,
                     protocol, late>>
  BY DEF SpawnFails, process
<1>2. /\ child.state = "none" /\ result = Result0
      /\ drained = [read |-> 0, held |-> FALSE] /\ ~closing /\ queue = <<>> /\ offered = <<>>
  BY <1>1 DEF Untouched, Before
<1>3. /\ result' \in Result /\ result'.exit = None /\ result'.error = "spawn"
      /\ result'.output = "error"
  BY <1>1, <1>2, ResultsTyped DEF Result, Result0
<1>4. <<>> \in Seq(Rec) /\ <<>> \in Seq(Int)
  OBVIOUS
<1>5. /\ writer' \in Writer /\ writer'.file = <<>> /\ writer'.bytes = 0
      /\ writer'.at = "starting"
  BY <1>1, <1>4 DEF Writer0, Writer
<1>6. TypeOK'
  <2>1. faults' \in Nat
    BY <1>1 DEF StreamTypes
  <2>2. StreamTypes'
    BY <1>1, <1>5, <2>1 DEF StreamTypes
  <2>3. LifeTypes'
    BY <1>1, <1>3 DEF LifeTypes, Over
  <2> QED BY <2>2, <2>3
<1>7. LifeOK'
  <2>1. Untouched'
    BY <1>1 DEF Untouched, Before
  <2>2. Waited'
    BY <1>1 DEF Waited, Running
  <2>3. ExitKnown'
    BY <1>3 DEF ExitKnown
  <2>4. OutcomeRead'
    BY <1>3 DEF OutcomeRead
  <2>5. CaptureLate'
    BY <1>1, <1>2 DEF CaptureLate
  <2>6. Settled'
    BY <1>1 DEF Settled
  <2> QED BY <2>1, <2>2, <2>3, <2>4, <2>5, <2>6
<1>8. StreamOK'
  <2>1. TerminalLast'
    BY <1>1, <1>2, <1>4, <1>5 DEF TerminalLast
  <2>2. RoomLeft'
    BY <1>4, <1>5, BudgetAssumption DEF RoomLeft
  <2>3. NothingLost'
    BY <1>1, <1>2, <1>4, <1>5, ConcatEmptySeq DEF NothingLost
  <2>4. AllWritten' /\ EndFits'
    BY <1>5, BudgetAssumption DEF AllWritten, EndFits, Ended
  <2>5. ReadOffered'
    BY <1>1, <1>2 DEF ReadOffered
  <2> QED BY <2>1, <2>2, <2>3, <2>4, <2>5 DEF StreamOK
<1> QED BY <1>6, <1>7, <1>8

-----------------------------------------------------------------------------
\* Steps that offer a record to a stream that is still open.

LEMMA OfferKeeps ==
    ASSUME IInv, ~closing, NEW r \in Rec, Offer(r), UNCHANGED <<writer, closing>>
    PROVE  /\ queue' \in Seq(Int) /\ incomplete' \in BOOLEAN /\ offered' \in Seq(Rec)
           /\ TerminalLast' /\ RoomLeft' /\ NothingLost' /\ AllWritten' /\ EndFits'
           /\ \E i \in DOMAIN offered' : offered'[i] = r
           /\ \A i \in DOMAIN offered : i \in DOMAIN offered' /\ offered'[i] = offered[i]
<1> USE DEF IInv, TypeOK, StreamOK
<1>1. /\ queue \in Seq(Int) /\ queue \in Seq(Rec) /\ offered \in Seq(Rec) /\ r \in Int
      /\ writer.at # "done" /\ incomplete \in BOOLEAN
  BY DEF TerminalLast, StreamTypes, Rec, Beat
<1>2. offered' = Append(offered, r)
  BY DEF Offer
<1>3. \/ queue' = Append(queue, r) /\ incomplete' = incomplete
      \/ queue' = queue /\ incomplete' = TRUE
  BY DEF Offer, Dropped
<1>4. queue' \in Seq(Int) /\ queue' \in Seq(Rec) /\ offered' \in Seq(Rec)
  BY ZenonT(30), <1>1, <1>2, <1>3, AppendProperties
<1>5. incomplete' \in BOOLEAN
  BY <1>1, <1>3
<1>6. /\ \E i \in DOMAIN offered' : offered'[i] = r
      /\ \A i \in DOMAIN offered : i \in DOMAIN offered' /\ offered'[i] = offered[i]
  <2>1. /\ Len(offered') = Len(offered) + 1 /\ offered'[Len(offered) + 1] = r
        /\ \A i \in 1..Len(offered) : offered'[i] = offered[i]
    BY <1>1, <1>2, AppendProperties
  <2>2. /\ DOMAIN offered = 1..Len(offered) /\ Len(offered) \in Nat
        /\ DOMAIN offered' = 1..Len(offered')
    BY <1>1, <1>4, LenProperties
  <2>3. Len(offered) + 1 \in DOMAIN offered'
    BY <2>1, <2>2
  <2>4. \A i \in DOMAIN offered : i \in DOMAIN offered'
    BY <2>1, <2>2
  <2> QED BY <2>1, <2>2, <2>3, <2>4
<1>7. TerminalLast'
  BY <1>1, <1>4 DEF TerminalLast
<1>8. RoomLeft'
  BY DEF RoomLeft
<1>9. NothingLost'
  <2> SUFFICES ASSUME writer.at \in {"starting", "writing"}, ~incomplete'
               PROVE  writer.file \o queue' = offered'
    BY DEF NothingLost
  <2>1. queue' = Append(queue, r) /\ writer.file \o queue = offered
    BY <1>3 DEF NothingLost
  <2>2. writer.file \in Seq(Rec)
    BY <1>1 DEF RoomLeft
  <2>3. writer.file \o Append(queue, r) = Append(writer.file \o queue, r)
    <3>1. \A s, t \in Seq(Rec), e \in Rec : s \o Append(t, e) = Append(s \o t, e)
      BY AppendAcross
    <3> QED BY <1>1, <2>2, <3>1
  <2> QED BY <1>2, <2>1, <2>3
<1>10. AllWritten' /\ EndFits'
  BY <1>1 DEF AllWritten, EndFits, Ended
<1> QED BY <1>4, <1>5, <1>6, <1>7, <1>8, <1>9, <1>10

LEMMA SilenceStep ==
    ASSUME IInv, Silence
    PROVE  IInv'
<1> USE DEF IInv, TypeOK, LifeOK
<1>1. /\ pc \in {"draining", "final drain"} /\ Offer(Beat)
      /\ UNCHANGED <<pc, drained, result, child, pipe, said, capture, closing, writer, protocol,
                     late, faults>>
  BY DEF Silence, Draining, process
<1>2. ~closing /\ Beat \in Rec
  BY <1>1 DEF StreamOK, TerminalLast, Rec
<1>3. /\ queue' \in Seq(Int) /\ incomplete' \in BOOLEAN /\ offered' \in Seq(Rec)
      /\ TerminalLast' /\ RoomLeft' /\ NothingLost' /\ AllWritten' /\ EndFits'
      /\ \A i \in DOMAIN offered : i \in DOMAIN offered' /\ offered'[i] = offered[i]
  BY <1>1, <1>2, OfferKeeps
<1>4. TypeOK'
  BY <1>1, <1>3 DEF LifeTypes, StreamTypes
<1>5. Untouched' /\ Waited' /\ ExitKnown' /\ OutcomeRead' /\ CaptureLate' /\ Settled'
  BY <1>1 DEF Untouched, Waited, ExitKnown, OutcomeRead, CaptureLate, Settled, Before
<1>6. ReadOffered'
  BY <1>1, <1>3 DEF StreamOK, ReadOffered
<1> QED BY <1>3, <1>4, <1>5, <1>6 DEF StreamOK

LEMMA ReadStep ==
    ASSUME IInv, ReadChunk
    PROVE  IInv'
<1> USE DEF IInv, TypeOK, LifeOK
<1>1. /\ pc \in {"draining", "final drain"} /\ pipe.unread > 0
      /\ pipe' = [pipe EXCEPT !.unread = @ - 1]
      /\ UNCHANGED <<pc, result, child, said, capture, closing, writer, protocol, late, faults>>
  BY DEF ReadChunk, Draining
<1>2. PICK held \in BOOLEAN :
        /\ drained' = [read |-> drained.read + 1, held |-> held]
        /\ IF held THEN UNCHANGED <<queue, incomplete, offered>> ELSE Offer(drained.read + 1)
  BY DEF ReadChunk, Fragment
<1>3. /\ ~closing /\ drained.read \in Nat /\ pipe' \in Pipe
      /\ drained' \in Drained /\ drained'.read = drained.read + 1 /\ drained'.held = held
      /\ drained.read + 1 \in Rec
  <2>1. ~closing
    BY <1>1 DEF StreamOK, TerminalLast
  <2>2. drained.read \in Nat /\ drained.read + 1 \in Nat /\ pipe.unread \in Nat /\ pipe \in Pipe
    BY DEF LifeTypes, Drained, Pipe
  <2>3. pipe.unread - 1 \in Nat
    <3>1. pipe.unread > 0
      BY <1>1
    <3> QED BY <2>2, <3>1
  <2>4. pipe' \in Pipe
    BY <1>1, <2>2, <2>3 DEF Pipe
  <2> QED BY <1>2, <2>1, <2>2, <2>4 DEF Drained, Rec
<1>4. LifeTypes'
  BY <1>1, <1>3 DEF LifeTypes
<1>5. LifeOK'
  <2>1. Untouched' /\ Waited' /\ ExitKnown' /\ CaptureLate' /\ Settled'
    BY <1>1 DEF Untouched, Waited, ExitKnown, CaptureLate, Settled, Before
  <2>2. OutcomeRead'
    BY <1>1 DEF OutcomeRead, Over
  <2> QED BY <2>1, <2>2
<1>6. CASE held
  <2>1. UNCHANGED <<queue, incomplete, offered>>
    BY <1>2, <1>6
  <2>2. StreamTypes'
    BY <1>1, <2>1 DEF StreamTypes
  <2>3. TerminalLast' /\ RoomLeft' /\ NothingLost' /\ AllWritten' /\ EndFits'
    BY <1>1, <2>1 DEF StreamOK, TerminalLast, RoomLeft, NothingLost, AllWritten, EndFits, Ended
  <2>4. ReadOffered'
    BY <1>1, <1>3, <1>6 DEF ReadOffered, Over
  <2> QED BY <1>4, <1>5, <2>2, <2>3, <2>4 DEF StreamOK
<1>7. CASE ~held
  <2>1. /\ queue' \in Seq(Int) /\ incomplete' \in BOOLEAN /\ offered' \in Seq(Rec)
        /\ TerminalLast' /\ RoomLeft' /\ NothingLost' /\ AllWritten' /\ EndFits'
        /\ \E i \in DOMAIN offered' : offered'[i] = drained.read + 1
    BY <1>1, <1>2, <1>3, <1>7, OfferKeeps
  <2>2. StreamTypes'
    BY <1>1, <2>1 DEF StreamTypes
  <2>3. ReadOffered'
    BY <1>1, <1>3, <2>1 DEF ReadOffered, Over
  <2> QED BY <1>4, <1>5, <2>1, <2>2, <2>3 DEF StreamOK
<1> QED BY <1>6, <1>7

LEMMA DecodeStep ==
    ASSUME IInv, Decode
    PROVE  IInv'
<1> USE DEF IInv, TypeOK, LifeOK
<1>1. /\ pc = "ended" /\ pc' = "closing" /\ FlushDecoder
      /\ \/ result' = [result EXCEPT !.exit = child.code, !.output = Output]
         \/ result' = [result EXCEPT !.error = "undecodable", !.output = "error"]
      /\ drained' = [drained EXCEPT !.held = FALSE]
      /\ UNCHANGED <<child, pipe, said, capture, closing, writer, protocol, late, faults>>
  BY DEF Decode, process
<1>2. /\ result \in Result /\ result.error = None /\ child.state = "exited" /\ child.code \in Code
      /\ ~closing
  BY <1>1 DEF LifeTypes, Child, Waited, Running, StreamOK, TerminalLast
<1>3. /\ drained \in Drained /\ drained' \in Drained
      /\ drained'.read = drained.read /\ ~drained'.held /\ drained.read \in Rec
  BY <1>1 DEF LifeTypes, Drained, Rec
<1>4. /\ result' \in Result
      /\ \/ result'.exit = child.code /\ result'.output = Output /\ result'.error = None
         \/ result'.exit = result.exit /\ result'.output = "error"
  BY <1>1, <1>2 DEF Result, Output
<1>5. LifeTypes'
  BY <1>1, <1>3, <1>4 DEF LifeTypes, Over
<1>6. LifeOK'
  <2>1. Untouched' /\ Waited' /\ CaptureLate' /\ Settled'
    BY <1>1 DEF Untouched, Waited, CaptureLate, Settled, Before, Running
  <2>2. ExitKnown'
    BY <1>1, <1>2, <1>4 DEF ExitKnown
  <2>3. OutcomeRead'
    BY <1>1, <1>3, <1>4 DEF OutcomeRead, Output, Over
  <2> QED BY <2>1, <2>2, <2>3
<1>7. CASE drained.held
  <2>1. Offer(drained.read)
    BY <1>1, <1>7 DEF FlushDecoder
  <2>2. /\ queue' \in Seq(Int) /\ incomplete' \in BOOLEAN /\ offered' \in Seq(Rec)
        /\ TerminalLast' /\ RoomLeft' /\ NothingLost' /\ AllWritten' /\ EndFits'
        /\ \E i \in DOMAIN offered' : offered'[i] = drained.read
    BY <1>1, <1>2, <1>3, <2>1, OfferKeeps
  <2>3. StreamTypes'
    BY <1>1, <2>2 DEF StreamTypes
  <2>4. ReadOffered'
    BY <1>3, <2>2 DEF ReadOffered
  <2> QED BY <1>5, <1>6, <2>2, <2>3, <2>4 DEF StreamOK
<1>8. CASE ~drained.held
  <2>1. UNCHANGED <<queue, incomplete, offered>>
    BY <1>1, <1>8 DEF FlushDecoder
  <2>2. StreamTypes'
    BY <1>1, <2>1 DEF StreamTypes
  <2>3. RoomLeft' /\ NothingLost' /\ AllWritten' /\ EndFits'
    BY <1>1, <2>1 DEF StreamOK, RoomLeft, NothingLost, AllWritten, EndFits, Ended
  <2>4. TerminalLast'
    BY <1>1, <1>2, <2>1 DEF StreamOK, TerminalLast
  <2>5. ReadOffered'
    BY <1>3, <1>8, <2>1 DEF StreamOK, ReadOffered
  <2> QED BY <1>5, <1>6, <2>2, <2>3, <2>4, <2>5 DEF StreamOK
<1> QED BY <1>7, <1>8

-----------------------------------------------------------------------------
\* The terminal record, and the writer.

LEMMA CloseStep ==
    ASSUME IInv, Close
    PROVE  IInv'
<1> USE DEF IInv, TypeOK, LifeOK
<1>1. /\ pc = "closing" /\ pc' \in {"joining", "closed"} /\ closing' = TRUE
      /\ \/ queue' = Append(queue, Terminal) /\ incomplete' = incomplete
         \/ queue' = queue /\ incomplete' = TRUE
      /\ UNCHANGED <<drained, result, offered, child, pipe, said, capture, writer, protocol, late,
                     faults>>
  BY DEF Close, process
<1>2. /\ ~closing /\ queue \in Seq(Int) /\ writer.at # "done" /\ Terminal \in Int
      /\ incomplete \in BOOLEAN
  BY <1>1 DEF StreamOK, TerminalLast, StreamTypes, Terminal
<1>3. TypeOK'
  <2>1. queue' \in Seq(Int) /\ incomplete' \in BOOLEAN
    BY ZenonT(30), <1>1, <1>2, AppendProperties
  <2>2. StreamTypes'
    BY <1>1, <2>1 DEF StreamTypes
  <2>3. LifeTypes'
    BY <1>1 DEF LifeTypes, Over
  <2> QED BY <2>2, <2>3
<1>4. Untouched' /\ Waited' /\ ExitKnown' /\ OutcomeRead' /\ CaptureLate' /\ Settled'
  BY <1>1 DEF Untouched, Waited, ExitKnown, OutcomeRead, CaptureLate, Settled, Before, Running, Over
<1>5. RoomLeft' /\ AllWritten' /\ EndFits'
  BY <1>1, <1>2 DEF StreamOK, RoomLeft, AllWritten, EndFits, Ended
<1>8. TerminalLast'
  <2>1. queue \in Seq(Rec \cup {Terminal})
    BY <1>2, SeqMonotonic DEF StreamOK, TerminalLast
  <2>2. queue' \in Seq(Rec \cup {Terminal})
    BY <1>1, <2>1, AppendProperties
  <2> QED BY <1>1, <2>2 DEF TerminalLast
<1>6. ReadOffered'
  BY <1>1 DEF StreamOK, ReadOffered, Over
<1>7. NothingLost'
  <2> SUFFICES ASSUME writer.at \in {"starting", "writing"}, ~incomplete'
               PROVE  writer.file \o queue' = Append(offered, Terminal)
    BY <1>1 DEF NothingLost
  <2>1. queue' = Append(queue, Terminal) /\ writer.file \o queue = offered
    BY <1>1, <1>2 DEF StreamOK, NothingLost
  <2>2. writer.file \in Seq(Int)
    BY DEF StreamTypes, Writer
  <2>3. writer.file \o Append(queue, Terminal) = Append(writer.file \o queue, Terminal)
    <3>1. \A s, t \in Seq(Int), e \in Int : s \o Append(t, e) = Append(s \o t, e)
      BY AppendAcross
    <3> QED BY <1>2, <2>2, <3>1
  <2> QED BY <2>1, <2>3
<1> QED BY <1>3, <1>4, <1>5, <1>6, <1>7, <1>8 DEF StreamOK

\* A writer's step leaves the run and what it offered alone.
LEMMA WriterStep ==
    ASSUME IInv, UNCHANGED <<lifecycle, process, protocol, late>>, faults' \in Nat,
           writer.at # "none",
           queue' \in Seq(Int), UNCHANGED closing, incomplete' \in BOOLEAN, writer' \in Writer,
           TerminalLast', RoomLeft', NothingLost', AllWritten', EndFits'
    PROVE  IInv'
<1> USE DEF IInv, TypeOK, LifeOK, StreamOK, lifecycle, process
<1>1. TypeOK'
  BY DEF LifeTypes, StreamTypes
<1>2. LifeOK'
  BY DEF Untouched, Waited, ExitKnown, OutcomeRead, CaptureLate, Settled
<1>3. ReadOffered'
  BY DEF ReadOffered
<1> QED BY <1>1, <1>2, <1>3

LEMMA CreatedStep ==
    ASSUME IInv, NEW ok \in BOOLEAN, Created(ok),
           UNCHANGED <<lifecycle, process, protocol, late>>, faults' \in Nat
    PROVE  IInv'
<1> USE DEF IInv, TypeOK, StreamOK
<1>1. /\ writer.at = "starting" /\ writer \in Writer /\ queue' = queue /\ closing' = closing
      /\ writer' = [writer EXCEPT !.at = "writing", !.handle = ok, !.failed = ~ok]
      /\ incomplete' = (incomplete \/ ~ok)
  BY DEF Created, StreamTypes
<1>2. /\ writer' \in Writer /\ writer'.at = "writing" /\ writer'.handle = ok
      /\ writer'.failed = ~ok /\ writer'.bytes = writer.bytes /\ writer'.file = writer.file
  BY <1>1 DEF Writer
<1>3. queue' \in Seq(Int) /\ incomplete' \in BOOLEAN
  BY <1>1 DEF StreamTypes
<1>4. TerminalLast'
  BY <1>1, <1>2 DEF TerminalLast, lifecycle
<1>5. RoomLeft'
  BY <1>1, <1>2 DEF RoomLeft
<1>6. NothingLost'
  BY <1>1, <1>2 DEF NothingLost, lifecycle
<1>7. AllWritten' /\ EndFits'
  BY <1>1, <1>2 DEF AllWritten, EndFits, Ended
<1> QED BY <1>1, <1>2, <1>3, <1>4, <1>5, <1>6, <1>7, WriterStep

LEMMA WriteRecordStep ==
    ASSUME IInv, NEW ok \in BOOLEAN, WriteRecord(ok),
           UNCHANGED <<lifecycle, process, protocol, late>>, faults' \in Nat
    PROVE  IInv'
<1> USE DEF IInv, TypeOK, StreamOK
<1>1. /\ writer.at = "writing" /\ writer \in Writer /\ queue # <<>> /\ Head(queue) # Terminal
      /\ queue' = Tail(queue) /\ closing' = closing /\ incomplete \in BOOLEAN
      /\ queue \in Seq(Int) /\ queue \in Seq(Rec \cup {Terminal})
  <2>1. queue \in Seq(Rec \cup {Terminal})
    BY SeqMonotonic DEF TerminalLast
  <2> QED BY <2>1 DEF WriteRecord, StreamTypes
<1>2. /\ Head(queue) \in Rec /\ Head(queue) \in Int
      /\ queue' \in Seq(Int) /\ queue' \in Seq(Rec \cup {Terminal})
  <2>1. Head(queue) \in Rec \cup {Terminal} /\ Tail(queue) \in Seq(Rec \cup {Terminal})
    BY <1>1, HeadTailProperties
  <2>2. Head(queue) \in Int /\ Tail(queue) \in Seq(Int)
    BY <1>1, HeadTailProperties
  <2> QED BY <1>1, <2>1, <2>2
<1>3. /\ RECORD \in Nat /\ RESERVE \in Nat /\ MAX_BYTES \in Nat
      /\ writer.bytes \in Nat /\ writer.bytes + RESERVE <= MAX_BYTES
      /\ writer.file \in Seq(Rec) /\ writer.file \in Seq(Int)
  BY <1>1, BudgetAssumption DEF RoomLeft, Writer
<1>4. TerminalLast'
  <2>1. ~closing => queue' \in Seq(Rec)
    BY <1>1, HeadTailProperties DEF TerminalLast
  <2>2. writer'.at # "done"
    BY <1>1 DEF WriteRecord, Writer
  <2>3. closing' => pc' \in {"joining", "closed", "returned"}
    BY <1>1 DEF TerminalLast, lifecycle
  <2> QED BY <1>1, <1>2, <2>1, <2>2, <2>3 DEF TerminalLast
<1>5. CASE writer.handle /\ WithinBudget /\ ok
  <2>1. /\ writer' = [writer EXCEPT !.bytes = @ + RECORD, !.file = Append(@, Head(queue))]
        /\ incomplete' = incomplete /\ writer.bytes + RECORD + RESERVE <= MAX_BYTES
    BY <1>1, <1>5 DEF WriteRecord, WithinBudget
  <2>2. /\ Append(writer.file, Head(queue)) \in Seq(Int)
        /\ Append(writer.file, Head(queue)) \in Seq(Rec)
    BY <1>2, <1>3, AppendProperties
  <2>3. /\ writer' \in Writer /\ writer'.at = "writing" /\ writer'.handle
        /\ writer'.bytes = writer.bytes + RECORD
        /\ writer'.file = Append(writer.file, Head(queue))
    <3>1. writer.bytes + RECORD \in Nat
      BY <1>3
    <3> QED BY <1>1, <1>5, <2>1, <2>2, <3>1 DEF Writer
  <2>4. RoomLeft'
    BY <1>3, <2>1, <2>2, <2>3 DEF RoomLeft
  <2>5. NothingLost'
    <3>1. \A s, t \in Seq(Int) : t # <<>> => Append(s, Head(t)) \o Tail(t) = s \o t
      BY TailAcross
    <3>2. writer'.file \o queue' = writer.file \o queue
      BY <1>1, <1>3, <2>3, <3>1
    <3> QED BY <1>1, <2>1, <2>3, <3>2 DEF NothingLost, lifecycle
  <2>6. writer'.bytes <= MAX_BYTES
    BY <1>3, <2>1, <2>3
  <2>7. AllWritten' /\ EndFits'
    BY <2>3, <2>6 DEF AllWritten, EndFits, Ended
  <2> QED BY <1>1, <1>2, <1>4, <2>1, <2>3, <2>4, <2>5, <2>7, WriterStep
<1>6. CASE writer.handle /\ WithinBudget /\ ~ok
  <2>1. writer' = [writer EXCEPT !.handle = FALSE, !.failed = TRUE] /\ incomplete' = TRUE
    BY <1>1, <1>6 DEF WriteRecord
  <2>2. /\ writer' \in Writer /\ writer'.at = "writing" /\ writer'.failed
        /\ writer'.bytes = writer.bytes /\ writer'.file = writer.file
    BY <1>1, <2>1 DEF Writer
  <2>3. RoomLeft' /\ NothingLost' /\ AllWritten' /\ EndFits'
    BY <1>3, <2>1, <2>2 DEF RoomLeft, NothingLost, AllWritten, EndFits, Ended
  <2> QED BY <1>1, <1>2, <1>4, <2>1, <2>2, <2>3, WriterStep
<1>7. CASE ~(writer.handle /\ WithinBudget)
  <2>1. writer' = writer /\ incomplete' = TRUE
    BY <1>7 DEF WriteRecord
  <2>3. RoomLeft' /\ NothingLost' /\ AllWritten' /\ EndFits'
    BY <1>1, <1>3, <2>1 DEF RoomLeft, NothingLost, AllWritten, EndFits, Ended
  <2> QED BY <1>1, <1>2, <1>4, <2>1, <2>3, WriterStep
<1> QED BY <1>5, <1>6, <1>7

LEMMA FinalizeStep ==
    ASSUME IInv, Finalize,
           UNCHANGED <<lifecycle, process, protocol, late>>, faults' \in Nat
    PROVE  IInv'
<1> USE DEF IInv, TypeOK, StreamOK
<1>1. /\ writer.at = "writing" /\ writer \in Writer /\ queue # <<>> /\ Head(queue) = Terminal
      /\ queue' = Tail(queue) /\ closing' = closing
      /\ incomplete' = (incomplete \/ Tail(queue) # <<>>)
      /\ queue \in Seq(Int)
  BY DEF Finalize, StreamTypes
<1>2. /\ closing /\ queue' \in Seq(Int) /\ queue' \in Seq(Rec \cup {Terminal})
  <2>1. closing
    <3>1. Terminal \notin Rec
      BY DEF Terminal, Rec, Beat
    <3> QED BY <1>1, <3>1, HeadTailProperties DEF TerminalLast
  <2> QED BY <1>1, <2>1, HeadTailProperties DEF TerminalLast
<1>3. /\ END \in Nat /\ RESERVE \in Nat /\ MAX_BYTES \in Nat /\ END <= RESERVE
      /\ writer.bytes \in Nat /\ writer.bytes + RESERVE <= MAX_BYTES
      /\ writer.bytes + END <= MAX_BYTES
      /\ writer.file \in Seq(Rec) /\ writer.file \in Seq(Int)
  BY <1>1, BudgetAssumption DEF RoomLeft, Writer
<1>4. incomplete' \in BOOLEAN
  BY <1>1 DEF StreamTypes
<1>5. StageEnd(~incomplete') \in {-3, -4} /\ (StageEnd(~incomplete') = -4 => ~incomplete')
  BY <1>4 DEF StageEnd
<1>6. CASE writer.handle
  <2>1. writer' = [writer EXCEPT !.at = "done", !.handle = FALSE, !.bytes = @ + END,
                                 !.file = Append(@, StageEnd(~incomplete'))]
    BY <1>1, <1>3, <1>6 DEF Finalize
  <2> DEFINE end == StageEnd(~incomplete')
             file == Append(writer.file, end)
  <2>2. end \in Int
    BY <1>5
  <2>3. /\ file \in Seq(Int) /\ file # <<>> /\ Len(file) = Len(writer.file) + 1
        /\ LastOf(file) = end /\ SubSeq(file, 1, Len(file) - 1) = writer.file
    <3>1. SubSeq(file, 1, Len(file) - 1) = writer.file
      BY <1>3, <2>2, AllButLast
    <3>2. writer.file \in Seq(Int)
      BY <1>3
    <3> HIDE DEF end
    <3>3. /\ file \in Seq(Int) /\ file # <<>> /\ Len(file) = Len(writer.file) + 1
          /\ file[Len(writer.file) + 1] = end
      BY ONLY <2>2, <3>2, AppendProperties
    <3> HIDE DEF file
    <3> QED BY <3>1, <3>3 DEF LastOf
  <2>4. /\ writer' \in Writer /\ writer'.at = "done" /\ writer'.file = file
        /\ writer'.bytes = writer.bytes + END
    <3>1. writer.bytes + END \in Nat
      BY <1>3
    <3> HIDE DEF file
    <3>2. writer' = [writer EXCEPT !.at = "done", !.handle = FALSE, !.bytes = @ + END, !.file = file]
      BY <2>1 DEF file
    <3> QED BY <1>1, <2>3, <3>1, <3>2 DEF Writer
  <2>5. TerminalLast' /\ RoomLeft' /\ NothingLost'
    BY <1>1, <1>2, <2>4 DEF TerminalLast, RoomLeft, NothingLost, lifecycle
  <2>6. EndFits'
    BY <1>3, <1>5, <2>3, <2>4 DEF EndFits, Ended, StageEnd
  <2>7. AllWritten'
    <3> SUFFICES ASSUME end = -4
                 PROVE  writer.file = offered
      BY <2>3, <2>4 DEF AllWritten, StageEnd, lifecycle
    <3>1. ~incomplete /\ Tail(queue) = <<>>
      BY <1>1, <1>5
    <3>2. writer.file \o queue = Append(offered, Terminal)
      BY <1>1, <1>2, <3>1 DEF NothingLost
    <3>3. Append(writer.file, Terminal) \o <<>> = writer.file \o queue
      BY <1>1, <1>3, <3>1, TailAcross
    <3>4. /\ Append(writer.file, Terminal) \in Seq(Int) /\ offered \in Seq(Int)
          /\ Terminal \in Int
      <4>1. offered \in Seq(Int)
        BY SeqMonotonic DEF StreamTypes, Rec, Beat
      <4> QED BY <1>3, <4>1, AppendProperties DEF Terminal
    <3>5. Append(writer.file, Terminal) = Append(offered, Terminal)
      BY <3>2, <3>3, <3>4, ConcatEmptySeq
    <3>6. \A s, t \in Seq(Int), e \in Int : Append(s, e) = Append(t, e) => s = t
      BY AppendInjective
    <3> QED BY <1>3, <3>4, <3>5, <3>6
  <2> QED BY <1>1, <1>2, <1>4, <2>4, <2>5, <2>6, <2>7, WriterStep
<1>7. CASE ~writer.handle
  <2>1. writer' = [writer EXCEPT !.at = "done", !.handle = FALSE, !.bytes = @ + 0, !.file = @]
    BY <1>1, <1>7 DEF Finalize
  <2>2. /\ writer' \in Writer /\ writer'.at = "done" /\ writer'.file = writer.file
        /\ writer'.bytes = writer.bytes /\ writer'.failed
    <3>1. writer.failed
      BY <1>1, <1>7 DEF RoomLeft
    <3>2. writer.bytes + 0 = writer.bytes
      BY <1>3
    <3>3. writer' = [writer EXCEPT !.at = "done", !.handle = FALSE, !.bytes = writer.bytes]
      BY <1>1, <2>1, <3>2 DEF Writer
    <3> QED BY <1>1, <1>3, <3>1, <3>3 DEF Writer
  <2>3. TerminalLast' /\ RoomLeft' /\ NothingLost'
    BY <1>1, <1>2, <2>2 DEF TerminalLast, RoomLeft, NothingLost, lifecycle
  <2>4. EndFits'
    BY <1>3, <2>2 DEF EndFits
  <2>5. writer.file # <<>> => LastOf(writer.file) \in Rec
    BY <1>3, LenProperties, EmptySeq DEF LastOf
  <2>6. AllWritten'
    BY <2>2, <2>5 DEF AllWritten, Ended, StageEnd, Rec, Beat
  <2> QED BY <1>1, <1>2, <1>4, <2>2, <2>3, <2>4, <2>6, WriterStep
<1> QED BY <1>6, <1>7

-----------------------------------------------------------------------------
\* The invariant.

LEMMA Initially == Init => IInv
<1> SUFFICES ASSUME Init PROVE IInv
  OBVIOUS
<1> USE DEF Init
<1>1. <<>> \in Seq(Int) /\ <<>> \in Seq(Rec)
  OBVIOUS
<1>2. /\ writer \in Writer /\ writer.at = "none" /\ writer.bytes = 0 /\ writer.file = <<>>
  BY <1>1 DEF Writer0, Writer
<1>3. StreamTypes
  BY <1>1, <1>2 DEF StreamTypes
<1>4. LifeTypes
  BY ResultsTyped DEF LifeTypes, Before, Child, Code, Pipe, Capture, Drained
<1>5. Untouched /\ Waited /\ ExitKnown /\ OutcomeRead /\ CaptureLate /\ Settled
  BY <1>2 DEF Untouched, Waited, ExitKnown, OutcomeRead, CaptureLate, Settled, Running, Over, Result0
<1>6. TerminalLast /\ NothingLost /\ AllWritten
  BY <1>1, <1>2 DEF TerminalLast, NothingLost, AllWritten, Ended
<1>7. RoomLeft /\ EndFits
  <2>1. RESERVE \in Nat /\ MAX_BYTES \in Nat /\ RESERVE <= MAX_BYTES
    BY BudgetAssumption
  <2>2. 0 + RESERVE <= MAX_BYTES /\ 0 <= MAX_BYTES
    BY <2>1
  <2> QED BY <1>1, <1>2, <2>2 DEF RoomLeft, EndFits
<1>8. ReadOffered
  BY DEF ReadOffered, Over
<1> QED BY <1>3, <1>4, <1>5, <1>6, <1>7, <1>8 DEF IInv, TypeOK, LifeOK, StreamOK

LEMMA Stutters == ASSUME IInv, UNCHANGED vars PROVE IInv'
<1> USE DEF vars, IInv, TypeOK, LifeOK, StreamOK
<1>1. TypeOK'
  BY DEF LifeTypes, StreamTypes
<1>2. LifeOK'
  BY DEF Untouched, Waited, ExitKnown, OutcomeRead, CaptureLate, Settled
<1>3. TerminalLast' /\ RoomLeft' /\ NothingLost' /\ AllWritten' /\ ReadOffered' /\ EndFits'
  BY ZenonT(30) DEF TerminalLast, RoomLeft, NothingLost, AllWritten, ReadOffered, EndFits, Ended
<1> QED BY <1>1, <1>2, <1>3

LEMMA Inductive == ASSUME IInv, [Next]_vars PROVE IInv'
<1>1. CASE Run
  <2>1. CASE \E ok \in BOOLEAN : Spawn(ok)
    BY <2>1, SpawnStep
  <2> QED BY <1>1, <2>1, QuietStep, ReadStep, SilenceStep, DecodeStep, CloseStep, ReturnStep DEF Run
<1>2. CASE SpawnFails
  BY <1>2, SpawnFailsStep
<1>3. CASE ReadFails \/ Interrupt \/ DeadlinePasses
  BY <1>3, QuietStep
<1>4. CASE Write
  <2>1. UNCHANGED <<lifecycle, process, protocol, late>> /\ faults' \in Nat
    BY <1>4 DEF Write, IInv, TypeOK, StreamTypes
  <2> QED BY <1>4, <2>1, FinalizeStep, CreatedStep, WriteRecordStep DEF Write
<1>5. CASE WriteFails
  <2>1. UNCHANGED <<lifecycle, process, protocol, late>>
    BY <1>5 DEF WriteFails
  <2>2. faults' \in Nat
    BY <1>5 DEF WriteFails, IInv, TypeOK, StreamTypes
  <2> QED BY <1>5, <2>1, <2>2, CreatedStep, WriteRecordStep DEF WriteFails
<1>6. CASE Environment \/ Dies \/ Lets
  BY <1>6, ProcessStep
<1>7. CASE UNCHANGED vars
  BY <1>7, Stutters
<1> QED BY <1>1, <1>2, <1>3, <1>4, <1>5, <1>6, <1>7 DEF Next

LEMMA AlwaysInv == Spec => []IInv
<1>1. Init => IInv
  BY Initially
<1>2. IInv /\ [Next]_vars => IInv'
  BY Inductive
<1> QED BY <1>1, <1>2, PTL DEF Spec

-----------------------------------------------------------------------------
\* What follows from it.

LEMMA CompleteFollows == IInv => CompleteMeansAll
<1> SUFFICES ASSUME IInv, Ended, LastOf(writer.file) = StageEnd(TRUE)
             PROVE  /\ SubSeq(writer.file, 1, Len(writer.file) - 1) = offered
                    /\ result.error = None /\ drained.read > 0 =>
                          \E i \in DOMAIN offered : offered[i] = drained.read
  BY DEF CompleteMeansAll
<1> USE DEF IInv, StreamOK
<1>1. SubSeq(writer.file, 1, Len(writer.file) - 1) = offered
  BY DEF AllWritten
<1>2. pc \in Over
  BY DEF TerminalLast, Ended, Over
<1> QED BY <1>1, <1>2 DEF ReadOffered

LEMMA SuccessFollows == IInv => SuccessIsWhole
<1> SUFFICES ASSUME IInv, pc = "returned", Classification(result) = "success"
             PROVE  /\ ~result.timed_out
                    /\ ~Alive /\ child.code = 0
                    /\ protocol = Whole => result.error = None /\ said \in 1..drained.read
                    /\ protocol = Native => capture = "text"
  BY DEF SuccessIsWhole
<1> USE DEF IInv, TypeOK, LifeOK
<1>1. /\ result.stop = None /\ ~result.timed_out /\ result.exit = 0 /\ result.final.error = None
      /\ AuthoritativeText(result) \in {"the capture", "all, with an outcome"}
  BY DEF Classification, Undecided
<1>2. child.state = "exited" /\ child.code = 0
  <2>1. \A x \in Int : x # None
    BY NoneAssumption
  <2>2. result.exit = 0
    BY <1>1
  <2>3. 0 \in Int
    OBVIOUS
  <2>4. result.exit # None
    BY <2>1, <2>2, <2>3, Zenon
  <2> QED BY <2>2, <2>4 DEF ExitKnown
<1>3. result.source = protocol /\ result.output # "the capture"
  BY <1>1 DEF Settled, LifeTypes, Result
<1>4. CASE protocol = Whole
  <2>1. result.output = "all, with an outcome"
    <3>1. result.final.text = None
      BY <1>3, <1>4, AnswerFields DEF Settled
    <3> QED BY <1>1, <1>3, <3>1 DEF AuthoritativeText
  <2>2. result.error = None /\ said # 0 /\ said <= drained.read /\ said \in Nat /\ drained.read \in Nat
    BY <2>1 DEF OutcomeRead, LifeTypes, Drained
  <2>3. said \in 1..drained.read
    BY <2>2
  <2> QED BY <1>1, <1>2, <1>4, <2>2, <2>3 DEF Alive, Whole, Native
<1>5. CASE protocol = Native
  BY <1>1, <1>2, <1>3, <1>5 DEF Settled, Alive, Whole, Native
<1> QED BY <1>4, <1>5 DEF LifeTypes

LEMMA SealsFollow == IInv => EveryResultSeals
<1> SUFFICES ASSUME IInv, pc = "returned"
             PROVE  /\ ValidBoundary(Manifest(result))
                    /\ ReadSealed(Manifest(result)) =
                          IF result.final.error # None THEN None ELSE AuthoritativeText(result)
  BY DEF EveryResultSeals
<1> USE DEF IInv, TypeOK, LifeOK
<1> DEFINE mf == Manifest(result)
<1>1. /\ result.final.error \in {None, "missing", "empty", "unreadable", "too_large"}
      /\ result.source \in {Whole, Native}
  BY DEF LifeTypes, Result, Final, FinalErrors
<1>2. /\ mf.source = result.source /\ mf.separate = (result.final.text # None)
      /\ mf.error = result.final.error /\ mf.output = result.output
      /\ mf.path = (IF result.final.text # None THEN "final" ELSE "output")
      /\ mf.text = AuthoritativeText(result)
  BY DEF Manifest
<1>3. /\ result.source = Whole => result.final.text = None /\ result.final.error = None
      /\ result.source = Native => ((result.final.text # None) <=> result.final.error = None)
  <2>1. "the capture" # None
    BY NoneAssumption
  <2>2. ASSUME result.source = Whole
        PROVE  result.final.text = None /\ result.final.error = None
    <3>1. result.final = Answer(None, None)
      BY <2>2 DEF Settled
    <3> QED BY <3>1, AnswerFields
  <2>3. ASSUME result.source = Native
        PROVE  (result.final.text # None) <=> result.final.error = None
    <3>1. CASE result.final = Answer("the capture", None)
      BY ZenonT(30), <2>1, <3>1, AnswerFields
    <3>2. CASE result.final.text = None /\ result.final.error # None
      BY <3>2
    <3> QED BY <2>3, <3>1, <3>2 DEF Settled
  <2> QED BY <2>2, <2>3
<1> HIDE DEF mf
<1>4. ValidBoundary(mf)
  <2>1. IF mf.source = Whole THEN ~mf.separate /\ mf.error = None
        ELSE mf.separate # (mf.error # None)
    BY <1>1, <1>2, <1>3
  <2>2. mf.separate <=> mf.path # "output"
    BY <1>2
  <2>3. ~mf.separate => mf.text = mf.output
    BY <1>2 DEF AuthoritativeText
  <2> QED BY <1>1, <1>2, <2>1, <2>2, <2>3 DEF ValidBoundary
<1>5. ReadSealed(mf) = IF result.final.error # None THEN None ELSE AuthoritativeText(result)
  BY <1>2, <1>4 DEF ReadSealed
<1> QED BY <1>4, <1>5 DEF mf

-----------------------------------------------------------------------------
\* The run, its child and pipe, its result and its stream have their types.
THEOREM TypesHold == Spec => []TypeOK
BY AlwaysInv, PTL DEF IInv

\* A stream that says it is complete holds every record meant for it, in order,
\* and all that was read of a run that came to its end: whatever the size of the
\* queue and of the footprint, and wherever a record was dropped, skipped or not
\* written.
THEOREM CompleteStreams == Spec => []CompleteMeansAll
BY AlwaysInv, CompleteFollows, PTL

\* The live file keeps to its footprint, and a file that did not fail always
\* gets its terminal record, because the optional ones leave its reserve alone.
THEOREM TerminalFits == Spec => []EndFits
BY AlwaysInv, PTL DEF IInv, StreamOK

\* A success is a run that was not stopped, whose child was reaped with code
\* zero, and whose answer was read in whole.
THEOREM SuccessesWhole == Spec => []SuccessIsWhole
BY AlwaysInv, SuccessFollows, PTL

\* Every result, of every way a run may end, is accepted by the boundary check
\* that seals it and read back from there as the text it was decided on.
THEOREM ResultsSeal == Spec => []EveryResultSeals
BY AlwaysInv, SealsFollow, PTL
=============================================================================
