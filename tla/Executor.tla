------------------------------ MODULE Executor ------------------------------
(***************************************************************************)
(* One execution of a job (executor.py, OllamaCommandExecutor.run): the    *)
(* connection to the local Ollama, the wait for its headers, the lines it  *)
(* streams read one by one, the idle timeout of each of these waits, the   *)
(* overall timeout that is looked at when a line arrives, and the verdict  *)
(* on what was read.                                                       *)
(*                                                                         *)
(* Abstracted: texts, of which only their being empty counts, token        *)
(* counts, and the cleaning of the output.  A line arrives whole.          *)
(***************************************************************************)
EXTENDS Naturals, SequencesExt

CONSTANTS
    Overall,        \* overall_timeout_seconds, in ticks
    Idle,           \* timeout_seconds, in ticks
    MaxLines        \* bound: lines of a stream

(* As the defaults, 900 and 3600 seconds (executor.py:26-27): the two      *)
(* waits before the stream do not use up the overall time.  An overall     *)
(* timeout of 0 would switch it off.                                       *)
ASSUME ExecutorAssumption == /\ Overall \in Nat /\ Idle \in Nat
                             /\ 0 < Idle /\ 2 * Idle <= Overall

VARIABLES
    phase,          \* "connecting", "waiting", "reading", "ended"
    clock,          \* ticks since run was called
    quiet,          \* ticks since the last byte
    stream,         \* the lines read
    result          \* [verdict, output]

runVars == <<phase, clock, quiet, stream, result>>

(* The last line of a stream, done = true: its done_reason is "stop", or   *)
(* another one, as "length" is.                                            *)
Final == {"stop", "length"}

(* What Ollama streams: pieces of the answer or of its reasoning, each     *)
(* with done = false; the last line; an error; and what is no line at all. *)
Line == {"chunk", "thinking", "error", "blank", "garbage"} \cup Final

NoResult == [verdict |-> "none", output |-> "none"]

Failed == [verdict |-> "failed", output |-> "none"]

Carrying(kinds) == {i \in 1 .. Len(stream) : stream[i] \in kinds}

(* final_payload.update: of the lines that have a field the last counts.   *)
LastOf(kinds) ==
    LET lines == Carrying(kinds)
    IN  stream[CHOOSE i \in lines : \A k \in lines : k <= i]

(* Variant with a bug: what the last line says is not looked at.           *)
DoneUnread == TRUE

(* parsed.get("done", True): every line of an answer has the field, an     *)
(* error line has none.                                                    *)
Done ==
    LET answering == {"chunk", "thinking"} \cup Final
    IN  Carrying(answering) = {} \/ LastOf(answering) \in Final

(* parsed.get("done_reason") == "stop": only a last line has the field, so *)
(* a piece that follows the last line does not take it back.               *)
Stopped == Carrying(Final) # {} /\ LastOf(Final) = "stop"

(* The response fields joined, else the last thinking field. *)
Output ==
    IF Carrying({"chunk"}) # {} THEN "answer"
    ELSE IF Carrying({"thinking"}) # {} THEN "thinking" ELSE "empty"

(* run, once the stream was read; verified is success.  A stream without   *)
(* any payload raises.                                                     *)
Verdict ==
    IF Carrying(Line \ {"blank"}) = {} \/ ~(Done \/ Stopped) THEN Failed
    ELSE [verdict |-> "verified", output |-> Output]

End(outcome) ==
    /\ phase' = "ended"
    /\ result' = outcome
    /\ UNCHANGED <<clock, quiet>>

-----------------------------------------------------------------------------

RunInit ==
    /\ phase = "connecting"
    /\ clock = 0
    /\ quiet = 0
    /\ stream = <<>>
    /\ result = NoResult

(* urlopen, connected: the request is sent. *)
Connect ==
    /\ phase = "connecting"
    /\ phase' = "waiting"
    /\ quiet' = 0
    /\ UNCHANGED <<clock, stream, result>>

(* urlopen returns: the headers came. *)
Respond ==
    /\ phase = "waiting"
    /\ phase' = "reading"
    /\ quiet' = 0
    /\ UNCHANGED <<clock, stream, result>>

(* An HTTP error, a refused connection, a connection lost while reading. *)
ConnectionFails ==
    /\ phase # "ended"
    /\ End(Failed)
    /\ UNCHANGED stream

(* Variant with a bug: the timeout covers the connection only.             *)
IdleTimeoutOfConnection ==
    /\ phase = "connecting"
    /\ quiet = Idle
    /\ End(Failed)
    /\ UNCHANGED stream

(* urlopen's timeout: for the connection, the headers and each read. *)
IdleTimeout ==
    /\ phase # "ended"
    /\ quiet = Idle
    /\ End(Failed)
    /\ UNCHANGED stream

(* Variant with a bug: the overall timeout is forgotten.                   *)
ReadLineUntimed(line) ==
    /\ phase = "reading"
    /\ Len(stream) < MaxLines
    /\ IF line = "garbage"
       THEN End(Failed) /\ UNCHANGED stream
       ELSE /\ stream' = Append(stream, line)
            /\ quiet' = 0
            /\ UNCHANGED <<phase, clock, result>>

(* _read_streamed_generate_response: the overall time is checked when a    *)
(* line has arrived, then the line is parsed.                              *)
ReadLine(line) ==
    /\ phase = "reading"
    /\ Len(stream) < MaxLines
    /\ IF clock > Overall \/ line = "garbage"
       THEN End(Failed) /\ UNCHANGED stream
       ELSE /\ stream' = Append(stream, line)
            /\ quiet' = 0
            /\ UNCHANGED <<phase, clock, result>>

(* Ollama closes the stream, after its last line or before. *)
EndOfStream ==
    /\ phase = "reading"
    /\ End(Verdict)
    /\ UNCHANGED stream

Tick ==
    /\ phase # "ended"
    /\ quiet < Idle
    /\ clock' = clock + 1
    /\ quiet' = quiet + 1
    /\ UNCHANGED <<phase, stream, result>>

RunNext ==
    \/ Connect \/ Respond \/ ConnectionFails \/ IdleTimeout
    \/ \E line \in Line : ReadLine(line)
    \/ EndOfStream
    \/ Tick

(* Time passes, and a timeout that is due fires; Ollama owes nothing. *)
RunSpec == RunInit /\ [][RunNext]_runVars /\ WF_runVars(Tick) /\ WF_runVars(IdleTimeout)

-----------------------------------------------------------------------------
(* Properties *)

(* An answer that was begun counts as verified, and is paid, only when its *)
(* last line came: not when the stream was cut off, nor when an error      *)
(* followed the text.  A missing "done" means done (executor.py:79), and   *)
(* "stop" as done_reason overrules the field (executor.py:80-81): neither  *)
(* way may verify what has no last line.                                   *)
VerifiedAnswersAreFinished ==
    result.verdict = "verified" =>
        \/ Carrying(Final) # {}
        \/ Carrying({"chunk", "thinking"}) = {}

(* A run holds its worker's slot no longer than the overall timeout and    *)
(* one idle timeout more: silence that starts in time is not cut short by  *)
(* the overall timeout, which only a line makes the reader look at.        *)
EndsInTime == clock <= Overall + Idle

(* Every run ends, also when Ollama neither answers nor closes. *)
RunEnds == <>(phase = "ended")

=============================================================================
