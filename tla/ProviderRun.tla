----------------------------- MODULE ProviderRun -----------------------------
(***************************************************************************)
(* One stage run of a provider (runner.py): the lifecycle thread that      *)
(* spawns the child, drains its pipe under a deadline, terminates, reaps   *)
(* and reads its answer (SubprocessRunner.run); the daemon thread that     *)
(* writes the live stream (_LiveStream); and the boundary between what the *)
(* provider displayed and what is decided on, from the answer read to the  *)
(* manifest sealed and read back (read_final_response, classify_result,    *)
(* validate_sealed_boundary).                                              *)
(*                                                                         *)
(* The child, its group and whoever inherited its pipe are the environment. *)
(* A chunk is what one read returns; it becomes one live record, or none   *)
(* when it ends inside a character and all it brings is held back.         *)
(***************************************************************************)
EXTENDS Integers, Sequences, FiniteSets

CONSTANTS
    QUEUE_MAX,      \* LIVE_QUEUE_MAX_RECORDS
    MAX_BYTES,      \* LIVE_MAX_BYTES
    RESERVE,        \* LIVE_TERMINAL_RESERVE_BYTES
    RECORD,         \* the size of an optional record
    END,            \* ... and of stage_end
    MaxChunks,      \* bound on what the child prints
    MaxBeats,       \* bound on heartbeats
    MaxFaults,      \* bound on interrupts, failed reads and failed writes
    None

ASSUME BudgetAssumption ==
    /\ {QUEUE_MAX, MAX_BYTES, RESERVE, RECORD, END} \subseteq Nat \ {0}
    /\ END <= RESERVE /\ RESERVE <= MAX_BYTES
    /\ {MaxChunks, MaxBeats, MaxFaults} \subseteq Nat

\* What a child is refused for before it is spawned.
ContainmentStops ==
    {"outer_sandbox_required", "channel_conflict", "sandbox_setup_failed",
     "containment_identity_invalid", "containment_config_conflict", "sandbox_unavailable"}

\* None is none of the values that stand where it may stand.
ASSUME NoneAssumption ==
    /\ None \notin Int
    /\ None \notin {"the capture", "missing", "empty", "too_large", "unreadable",
                    "spawn", "interrupted", "undecodable"} \cup ContainmentStops

VARIABLES
    pc,         \* where SubprocessRunner.run is
    protocol,   \* the protocol of the final response
    child,      \* the process: its state, return code, and signals pending
    pipe,       \* who holds its writing end, and the chunks unread
    said,       \* the chunk that carries the typed outcome, 0 for none
    capture,    \* the final-message file
    late,       \* the deadline has passed
    drained,    \* chunks read, and whether the last is held by the decoder
    result,     \* what run has found out so far
    queue, closing, incomplete,     \* of the live stream: shared ...
    offered,                        \* ... every record meant for it ...
    writer,                         \* ... and its writing thread
    faults

lifecycle == <<pc, drained, result, offered>>
process == <<child, pipe, said, capture>>
stream == <<queue, closing, incomplete, writer>>
vars == <<pc, protocol, child, pipe, said, capture, late, drained, result,
          queue, closing, incomplete, offered, writer, faults>>

Whole == "whole_stream"
Native == "codex_output_last_message"

-----------------------------------------------------------------------------
(* The live stream, on the lifecycle thread: memory only, never blocking.   *)

\* Records by number: a fragment by the chunk it ends with, and the others.
StageStart == 0
Beat == -1
Terminal == -2
StageEnd(complete) == IF complete THEN -4 ELSE -3

Admits == Len(queue) < QUEUE_MAX

\* Mutant: a record that finds the queue full goes without a trace.
MutantDropped == incomplete
Dropped == TRUE

Offer(r) ==
    /\ offered' = Append(offered, r)
    /\ IF writer.at # "none" /\ ~closing /\ Admits
       THEN queue' = Append(queue, r) /\ UNCHANGED incomplete
       ELSE incomplete' = Dropped /\ UNCHANGED queue

\* fragment(chunk): the decoder may hold all of it back.
Fragment(n) ==
    \E held \in BOOLEAN :
        /\ drained' = [read |-> n, held |-> held]
        /\ IF held THEN UNCHANGED <<queue, incomplete, offered>> ELSE Offer(n)

\* eof(): what the decoder still holds becomes text.
FlushDecoder ==
    IF drained.held THEN Offer(drained.read) ELSE UNCHANGED <<queue, incomplete, offered>>

-----------------------------------------------------------------------------
(* The writer: the only one that touches the file.                          *)

Writer0(at) == [at |-> at, handle |-> FALSE, failed |-> FALSE, bytes |-> 0, file |-> <<>>]

Created(ok) ==
    /\ writer.at = "starting"
    /\ writer' = [writer EXCEPT !.at = "writing", !.handle = ok, !.failed = ~ok]
    /\ incomplete' = (incomplete \/ ~ok)
    /\ UNCHANGED <<queue, closing>>

\* Mutant: an optional record may take the terminal record's bytes.
MutantWithinBudget == writer.bytes + RECORD <= MAX_BYTES
WithinBudget == writer.bytes + RECORD + RESERVE <= MAX_BYTES

WriteRecord(ok) ==
    /\ writer.at = "writing" /\ queue # <<>> /\ Head(queue) # Terminal
    /\ queue' = Tail(queue)
    /\ IF writer.handle /\ WithinBudget
       THEN /\ writer' = IF ok THEN [writer EXCEPT !.bytes = @ + RECORD,
                                                   !.file = Append(@, Head(queue))]
                         ELSE [writer EXCEPT !.handle = FALSE, !.failed = TRUE]
            /\ incomplete' = (incomplete \/ ~ok)
       ELSE ok /\ incomplete' = TRUE /\ UNCHANGED writer
    /\ UNCHANGED closing

Finalize ==
    /\ writer.at = "writing" /\ queue # <<>> /\ Head(queue) = Terminal
    /\ queue' = Tail(queue)
    /\ incomplete' = (incomplete \/ Tail(queue) # <<>>)
    /\ writer' = [writer EXCEPT
          !.at = "done", !.handle = FALSE,
          !.bytes = @ + (IF writer.handle /\ @ + END <= MAX_BYTES THEN END ELSE 0),
          !.file = IF writer.handle /\ writer.bytes + END <= MAX_BYTES
                   THEN Append(@, StageEnd(~incomplete')) ELSE @]
    /\ UNCHANGED closing

Write ==
    /\ Finalize \/ Created(TRUE) \/ WriteRecord(TRUE)
    /\ UNCHANGED <<lifecycle, process, protocol, late, faults>>

WriteFails ==
    /\ faults < MaxFaults /\ faults' = faults + 1
    /\ Created(FALSE) \/ WriteRecord(FALSE)
    /\ UNCHANGED <<lifecycle, process, protocol, late>>

-----------------------------------------------------------------------------
(* The answer, its class, and its seal.                                     *)

Answer(text, error) == [text |-> text, error |-> error]

\* Mutant: an empty answer is no answer, and no error either.
MutantCaptured(file) == Answer(None, CASE file = "absent" -> "missing" [] OTHER -> None)

Captured(file) == Answer(None, CASE file = "absent" -> "missing" [] file = "empty" -> "empty"
                                 [] file = "huge" -> "too_large" [] OTHER -> "unreadable")

ReadFinalResponse ==
    CASE protocol = Whole -> Answer(None, None)
      [] protocol = Native /\ capture = "text" -> Answer("the capture", None)
      [] OTHER -> Captured(capture)

Result0 ==
    [exit |-> None, timed_out |-> FALSE, error |-> None, output |-> "none",
     stop |-> None, source |-> Whole, final |-> Answer(None, None)]

AuthoritativeText(r) == IF r.final.text = None THEN r.output ELSE r.final.text

\* Mutant: a run past its deadline is judged by its exit.
MutantUndecided(r) == r.stop # None
Undecided(r) == r.stop # None \/ r.timed_out

Classification(r) ==
    IF Undecided(r) \/ r.exit # 0 \/ r.final.error # None THEN "blocked"
    ELSE IF AuthoritativeText(r) \in {"the capture", "all, with an outcome"} THEN "success"
    ELSE "blocked"

\* What is sealed of the boundary: the display stream stands in for a final
\* response that is not a file of its own.
Manifest(r) ==
    [source |-> r.source, separate |-> r.final.text # None, error |-> r.final.error,
     output |-> r.output, path |-> IF r.final.text # None THEN "final" ELSE "output",
     text |-> AuthoritativeText(r)]

ValidBoundary(mf) ==
    /\ mf.source \in {Whole, Native}
    /\ mf.error \in {None, "missing", "empty", "unreadable", "too_large"}
    /\ IF mf.source = Whole THEN ~mf.separate /\ mf.error = None
       ELSE mf.separate # (mf.error # None)
    /\ mf.separate <=> mf.path # "output"
    /\ ~mf.separate => mf.text = mf.output

\* _read_sealed_run: the final response, or None where there is none.
ReadSealed(mf) == IF ValidBoundary(mf) /\ mf.error = None THEN mf.text ELSE None

-----------------------------------------------------------------------------
(* The child and whoever else holds the pipe.                               *)

Alive == child.state = "running"

\* The outcome is printed once, in the last of what the child prints.
Prints ==
    /\ Alive /\ drained.read + pipe.unread < MaxChunks /\ said = 0
    /\ pipe' = [pipe EXCEPT !.unread = @ + 1]
    /\ said' \in {0, drained.read + pipe.unread + 1}
    /\ UNCHANGED <<child, capture>>

\* A child that closes its output before it exits.
ClosesOutput ==
    /\ Alive /\ "child" \in pipe.holders
    /\ pipe' = [pipe EXCEPT !.holders = @ \ {"child"}]
    /\ UNCHANGED <<child, said, capture>>

LeavesGrandchild ==
    /\ Alive /\ "child" \in pipe.holders /\ "grandchild" \notin pipe.holders
    /\ pipe' = [pipe EXCEPT !.holders = @ \cup {"grandchild"}]
    /\ UNCHANGED <<child, said, capture>>

\* On its own, or on SIGTERM, which it may handle by exiting with any code.
Exits(code) ==
    /\ Alive
    /\ child' = [child EXCEPT !.state = "exited", !.code = code]
    /\ pipe' = [pipe EXCEPT !.holders = @ \ {"child"}]
    /\ capture' \in IF protocol = Native THEN {"absent", "text", "empty", "huge", "damaged"}
                    ELSE {capture}
    /\ UNCHANGED said

Killed ==
    /\ Alive /\ child.killed
    /\ child' = [child EXCEPT !.state = "exited", !.code = 9]
    /\ pipe' = [pipe EXCEPT !.holders = @ \ {"child"}]
    /\ UNCHANGED <<said, capture>>

GrandchildCloses ==
    /\ "grandchild" \in pipe.holders
    /\ pipe' = [pipe EXCEPT !.holders = @ \ {"grandchild"}]
    /\ UNCHANGED <<child, said, capture>>

Environment ==
    /\ \/ Prints \/ ClosesOutput \/ LeavesGrandchild
       \/ \E code \in {0, 1} : Exits(code)
    /\ UNCHANGED <<lifecycle, stream, protocol, late, faults>>

Dies == Killed /\ UNCHANGED <<lifecycle, stream, protocol, late, faults>>
Lets == GrandchildCloses /\ UNCHANGED <<lifecycle, stream, protocol, late, faults>>

DeadlinePasses ==
    /\ pc \in {"draining", "waiting"} /\ ~late
    /\ late' = TRUE
    /\ UNCHANGED <<lifecycle, stream, process, protocol, faults>>

-----------------------------------------------------------------------------
(* SubprocessRunner: the probe, the refusals before a spawn, and the run.   *)

\* What the version probe finds; a rate limit pauses, all else blocks.
Probes == {"environment", "not found", "timeout", "rate limited", "socket error", "failed", "passed"}
ProbeStatus(found) ==
    CASE found = "passed" -> "pass" [] found = "rate limited" -> "paused" [] OTHER -> "blocked"

Preflight ==
    /\ pc = "preflight"
    /\ \E found \in Probes : pc' = IF ProbeStatus(found) = "pass" THEN "start" ELSE "stopped"
    /\ UNCHANGED <<drained, result, offered, process, stream, protocol, late, faults>>

Refuse ==
    /\ pc = "start"
    /\ \E reason \in ContainmentStops : result' = [Result0 EXCEPT !.stop = reason, !.output = "error"]
    /\ pc' = "returned"
    /\ UNCHANGED <<drained, offered, process, stream, protocol, late, faults>>

\* The writing thread is started before the clock; if it cannot be, the stream
\* only stays incomplete.
Spawn(started) ==
    /\ pc = "start"
    /\ pc' = "draining"
    /\ child' = [child EXCEPT !.state = "running"]
    /\ pipe' = [pipe EXCEPT !.holders = {"child"}]
    /\ writer' = Writer0(IF started THEN "starting" ELSE "none")
    /\ queue' = IF started THEN <<StageStart>> ELSE <<>>
    /\ incomplete' = ~started
    /\ offered' = <<StageStart>>
    /\ UNCHANGED <<drained, result, said, capture, closing, protocol, late, faults>>

SpawnFails ==
    /\ pc = "start"
    /\ faults < MaxFaults /\ faults' = faults + 1
    /\ pc' = "closing"
    /\ result' = [result EXCEPT !.error = "spawn", !.output = "error"]
    /\ writer' = Writer0("starting")
    /\ UNCHANGED <<drained, offered, process, queue, closing, incomplete, protocol, late>>

Draining == (pc = "draining" /\ ~late) \/ pc = "final drain"

ReadChunk ==
    /\ Draining /\ pipe.unread > 0
    /\ pipe' = [pipe EXCEPT !.unread = @ - 1]
    /\ Fragment(drained.read + 1)
    /\ UNCHANGED <<pc, result, child, said, capture, closing, writer, protocol, late, faults>>

Silence ==
    /\ Draining /\ pipe.unread = 0 /\ pipe.holders # {}
    /\ Cardinality({i \in DOMAIN offered : offered[i] = Beat}) < MaxBeats
    /\ Offer(Beat)
    /\ UNCHANGED <<pc, drained, result, process, closing, writer, protocol, late, faults>>

Eof ==
    /\ Draining /\ pipe.unread = 0 /\ pipe.holders = {}
    /\ pc' = IF pc = "draining" THEN "waiting" ELSE "reaping"
    /\ UNCHANGED <<drained, result, offered, process, stream, protocol, late, faults>>

\* process.wait, until the deadline or, after a timeout, for as long as it takes.
Wait ==
    /\ pc \in {"waiting", "reaping"} /\ ~Alive
    /\ pc' = "ended"
    /\ UNCHANGED <<drained, result, offered, process, stream, protocol, late, faults>>

Timeout ==
    /\ late
    /\ pc = "draining" \/ (pc = "waiting" /\ Alive)
    /\ result' = [result EXCEPT !.timed_out = TRUE]
    /\ pc' = "terminating"
    /\ UNCHANGED <<drained, offered, process, stream, protocol, late, faults>>

\* _terminate_group: SIGTERM, three seconds, and SIGKILL unless it is gone.
After(interrupted) == IF interrupted THEN "closing" ELSE "final drain"

Gone ==
    /\ pc = "terminating" /\ ~Alive
    /\ pc' = After(result.error # None)
    /\ result' = IF result.error = None THEN result ELSE [result EXCEPT !.exit = child.code]
    /\ UNCHANGED <<drained, offered, process, stream, protocol, late, faults>>

\* Mutant: whoever does not heed SIGTERM is left alone.
MutantKill == UNCHANGED child
Kill == child' = [child EXCEPT !.killed = TRUE]

Kills ==
    /\ pc = "terminating" /\ Alive
    /\ Kill
    /\ pc' = After(result.error # None)
    /\ UNCHANGED <<drained, result, offered, pipe, said, capture, stream, protocol, late, faults>>

\* An OSError of the drain is taken for a failed spawn, and nobody is stopped.
ReadFails ==
    /\ Draining
    /\ faults < MaxFaults /\ faults' = faults + 1
    /\ result' = [result EXCEPT !.error = "spawn", !.output = "error"]
    /\ pc' = "closing"
    /\ UNCHANGED <<drained, offered, process, stream, protocol, late>>

\* Any other exception: a living child is terminated, and a dead one's code
\* is not looked at.
Interrupt ==
    /\ pc \in {"draining", "waiting", "terminating", "final drain", "reaping", "ended"}
    /\ result.error = None
    /\ faults < MaxFaults /\ faults' = faults + 1
    /\ result' = [result EXCEPT !.error = "interrupted", !.output = "error"]
    /\ pc' = IF Alive THEN "terminating" ELSE "closing"
    /\ UNCHANGED <<drained, offered, process, stream, protocol, late>>

Output == IF said # 0 /\ said <= drained.read THEN "all, with an outcome" ELSE "all"

Decode ==
    /\ pc = "ended"
    /\ FlushDecoder
    /\ \/ result' = [result EXCEPT !.exit = child.code, !.output = Output]
       \/ result' = [result EXCEPT !.error = "undecodable", !.output = "error"]
    /\ drained' = [drained EXCEPT !.held = FALSE]
    /\ pc' = "closing"
    /\ UNCHANGED <<process, closing, writer, protocol, late, faults>>

\* close(): the terminal record, and a bounded wait only over a reaped child.
Close ==
    /\ pc = "closing"
    /\ closing' = TRUE
    /\ IF Len(queue) < QUEUE_MAX + 1
       THEN queue' = Append(queue, Terminal) /\ UNCHANGED incomplete
       ELSE incomplete' = TRUE /\ UNCHANGED queue
    /\ pc' = IF child.state = "exited" /\ writer.at \in {"starting", "writing"} THEN "joining" ELSE "closed"
    /\ UNCHANGED <<drained, result, offered, process, writer, protocol, late, faults>>

\* Done, or LIVE_CLOSE_JOIN_SECONDS are over.
Join ==
    /\ pc = "joining"
    /\ pc' = "closed"
    /\ UNCHANGED <<drained, result, offered, process, stream, protocol, late, faults>>

Return ==
    /\ pc = "closed"
    /\ result' = [result EXCEPT !.source = protocol, !.final = ReadFinalResponse]
    /\ pc' = "returned"
    /\ UNCHANGED <<drained, offered, process, stream, protocol, late, faults>>

Run ==
    \/ Preflight \/ Refuse \/ (\E ok \in BOOLEAN : Spawn(ok))
    \/ ReadChunk \/ Silence \/ Eof \/ Wait \/ Timeout \/ Gone \/ Kills
    \/ Decode \/ Close \/ Join \/ Return

-----------------------------------------------------------------------------
Init ==
    /\ pc = "preflight"
    /\ protocol \in {Whole, Native}
    /\ child = [state |-> "none", code |-> None, killed |-> FALSE]
    /\ pipe = [holders |-> {}, unread |-> 0]
    /\ said = 0 /\ capture = "absent" /\ late = FALSE
    /\ drained = [read |-> 0, held |-> FALSE]
    /\ result = Result0
    /\ queue = <<>> /\ closing = FALSE /\ incomplete = FALSE /\ offered = <<>>
    /\ writer = Writer0("none")
    /\ faults = 0

Next ==
    \/ Run \/ SpawnFails \/ ReadFails \/ Interrupt
    \/ Write \/ WriteFails
    \/ Environment \/ Dies \/ Lets \/ DeadlinePasses

\* The two threads are scheduled, the clock goes on, a killed child dies, and
\* whoever inherited the pipe closes it some day: without the last the final
\* drain waits for ever, as the code says of itself.
Fairness ==
    /\ WF_vars(Run) /\ WF_vars(Write) /\ WF_vars(DeadlinePasses)
    /\ WF_vars(Dies) /\ WF_vars(Lets)

Spec == Init /\ [][Next]_vars /\ Fairness

-----------------------------------------------------------------------------
(* Properties                                                               *)

LastOf(s) == s[Len(s)]
Ended == writer.at = "done" /\ writer.file # <<>> /\ LastOf(writer.file) \in {StageEnd(TRUE), StageEnd(FALSE)}

\* live_complete, "the one thing a later reader must not get wrong": a stream
\* that says so holds every record meant for it, in order, and all the text of
\* a run that came to its end, whatever was dropped, skipped, or not written.
CompleteMeansAll ==
    Ended /\ LastOf(writer.file) = StageEnd(TRUE) =>
        /\ SubSeq(writer.file, 1, Len(writer.file) - 1) = offered
        /\ result.error = None /\ drained.read > 0 =>
              \E i \in DOMAIN offered : offered[i] = drained.read

\* The footprint is never exceeded, and the terminal record always has room in
\* it: only a file that failed, or could not be opened, ends without one.
EndFits ==
    /\ writer.bytes <= MAX_BYTES
    /\ writer.at = "done" /\ ~writer.failed => Ended

\* A run that counts as a success was not stopped at its deadline, exited with
\* zero and, where the display stream decides, was read to its end and reaped.
SuccessIsWhole ==
    pc = "returned" /\ Classification(result) = "success" =>
        /\ ~result.timed_out
        /\ ~Alive /\ child.code = 0
        /\ protocol = Whole => result.error = None /\ said \in 1..drained.read
        /\ protocol = Native => capture = "text"

\* Whatever way a run ends, its manifest is one the sealing code accepts, and
\* the readers take from it the text that was decided on, or none for a
\* provider that failed to give its answer.
EveryResultSeals ==
    pc = "returned" =>
        /\ ValidBoundary(Manifest(result))
        /\ ReadSealed(Manifest(result)) =
              IF result.final.error # None THEN None ELSE AuthoritativeText(result)

\* A run that was started returns: no child outlives its deadline, and neither
\* the stream nor a lost record keeps the lifecycle thread waiting.
RunReturns == pc = "draining" ~> pc = "returned"

\* Whoever closes the stream gets its writer to end.
StreamEnds == closing /\ writer.at # "none" ~> writer.at = "done"

\* Neither thread waits for the other for ever.
RunAndStreamEnd == RunReturns /\ StreamEnds
=============================================================================
