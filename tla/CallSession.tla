---------------------------- MODULE CallSession ----------------------------
(***************************************************************************)
(* One call from joining to the gateway taking it (src/src/main.py,        *)
(* CallSession): stop, _hand_over and _already_taken drive the BrainSink   *)
(* as its Closer, while the driver's readers feed it.                      *)
(*                                                                         *)
(* The readers may hand over frames until the driver is disconnected; a    *)
(* reader that is inside the sink by then stays there, since disconnecting *)
(* waits for no reader of a Talk call.                                     *)
(***************************************************************************)
EXTENDS BrainSink

CONSTANT MaxAttempts     \* 1 + len(HANDOVER_RETRY_DELAYS_S)

ASSUME AttemptsAssumption == MaxAttempts \in Nat \ {0}

VARIABLES
  phase,     \* where the call's coroutines are
  attempt,   \* the hand-over attempt under way, 0 before the first
  verdict    \* what the hand-over came to

session == <<phase, attempt, verdict>>
svars == <<vars, session>>

Phases == {"live", "leaving", "handing", "sleeping", "asking", "reopening", "done"}
Verdicts == {"open", "accepted", "taken", "none", "gaveup"}

SessionInit ==
  /\ Init
  /\ phase = "live" /\ attempt = 0 /\ verdict = "open"

-----------------------------------------------------------------------------

\* stop: the driver's task is cancelled, the roster is read, and leaving the
\* call begins.
Stop ==
  /\ phase = "live" /\ phase' = "leaving"
  /\ UNCHANGED <<vars, attempt, verdict>>

\* Mutant of Left: finalize goes straight to the end frame.
LeftUnflushed ==
  /\ phase = "leaving"
  /\ phase' = "handing" /\ attempt' = 1
  /\ Goto(Closer, "end_lock") /\ outcome' = "busy"
  /\ UNCHANGED <<outbox, call, chan, cooling, enq, dropped, link, sent, rcvd, meeting, verdict>>

\* driver.disconnect is over, failed or timed out: the first attempt begins
\* with no delay.
Left ==
  /\ phase = "leaving"
  /\ phase' = "handing" /\ attempt' = 1
  /\ StartFinalize
  /\ UNCHANGED verdict

Settle(v) == phase' = "done" /\ verdict' = v /\ UNCHANGED attempt

\* Mutants of NextAttempt: one attempt too many, attempts without end, one
\* attempt only.
NextAttemptLate ==
  IF attempt <= MaxAttempts
  THEN phase' = "sleeping" /\ attempt' = attempt + 1 /\ UNCHANGED verdict
  ELSE Settle("gaveup")
NextAttemptForever == phase' = "sleeping" /\ UNCHANGED <<attempt, verdict>>
NextAttemptNever == Settle("gaveup")

\* The loop's `continue`: on to the next attempt's delay, or give up.
NextAttempt ==
  IF attempt < MaxAttempts
  THEN phase' = "sleeping" /\ attempt' = attempt + 1 /\ UNCHANGED verdict
  ELSE Settle("gaveup")

\* finalize returned or raised.  Anything it returns ends the hand-over, None
\* included.
FinalizeReturned ==
  /\ phase = "handing"
  /\ \/ outcome = "accepted" /\ Settle("accepted")
     \/ outcome = "nocall" /\ Settle("none")
     \/ outcome = "failed" /\ NextAttempt
  /\ UNCHANGED vars

\* The delay is over: ask the gateway for the call's status.
Wake ==
  /\ phase = "sleeping" /\ phase' = "asking"
  /\ UNCHANGED <<vars, attempt, verdict>>

\* Mutant of AlreadyTaken: a meeting being finalised counts.
AlreadyTakenEarly ==
  /\ phase = "asking" /\ meeting \in {"ending", "taken"}
  /\ Settle("taken")
  /\ UNCHANGED vars

\* The gateway answers that the call is past transcribing.
AlreadyTaken ==
  /\ phase = "asking" /\ meeting = "taken"
  /\ Settle("taken")
  /\ UNCHANGED vars

\* It answers that it is not, or cannot be asked within 30 s: reopen.
NotTaken ==
  /\ phase = "asking" /\ phase' = "reopening"
  /\ StartReopen
  /\ UNCHANGED <<attempt, verdict>>

\* The fresh stream is open: hand over on it.
Reopened ==
  /\ phase = "reopening" /\ outcome = "reopened"
  /\ phase' = "handing"
  /\ StartFinalize
  /\ UNCHANGED <<attempt, verdict>>

Unreachable ==
  /\ phase = "reopening" /\ outcome = "unreachable"
  /\ NextAttempt
  /\ UNCHANGED vars

-----------------------------------------------------------------------------

HandOver ==
  Stop \/ Left \/ FinalizeReturned \/ Wake \/ AlreadyTaken \/ NotTaken \/ Reopened \/ Unreachable

\* Frames come, and readers are cancelled, until the driver is disconnected.
Driver ==
  /\ phase \in {"live", "leaving"}
  /\ \E r \in Readers : Frame(r) \/ CancelReader(r)

\* Steps of the sink and its surroundings the hand-over does not take itself.
SinkStep ==
  \/ \E p \in Procs : Sink(p)
  \/ Driver \/ ReopenLock \/ Finalize \/ Gateway

Rest == phase = "done" /\ UNCHANGED svars

SessionNext ==
  \/ HandOver
  \/ (SinkStep \/ Faults) /\ UNCHANGED session
  \/ Rest

SessionSpec == SessionInit /\ [][SessionNext]_svars

\* asyncio resumes a coroutine whose await is over, wait_for fires, and its
\* locks are granted first come first served.  Opening a stream and writing its
\* small context ends one way or the other; writing audio may block forever on
\* a gateway that does not read.
SessionFairness ==
  /\ WF_svars(HandOver /\ phase # "live")
  /\ WF_svars(FinalizeTimesOut /\ UNCHANGED session)
  /\ WF_svars(EndClosed /\ UNCHANGED session)
  /\ SF_svars(ReopenLock /\ UNCHANGED session)
  /\ \A p \in Procs :
       /\ SF_svars((EnsureLock(p) \/ OpenLock(p) \/ ReconnectLock(p)) /\ UNCHANGED session)
       /\ WF_svars((OpenWritten(p) \/ OpenFails(p) \/ PumpFails(p) \/ Closed(p)) /\ UNCHANGED session)

FairSessionSpec == SessionSpec /\ SessionFairness

\* A call whose hand-over nothing disturbs: faults come only before it, and
\* every reader is out of the sink by the time the end frame is prepared.  The
\* last two streams are kept for the hand-over.
CalmNext ==
  \/ HandOver /\ (phase = "leaving" => \A r \in Readers : at[r].pc = "idle")
  \/ SinkStep /\ UNCHANGED session
  \/ Faults /\ phase = "live" /\ Cardinality(Unused) > 2 /\ UNCHANGED session
  \/ Rest

\* There the gateway reads what is sent, finalises the call and answers.
CalmFairness ==
  /\ SessionFairness
  /\ WF_svars((Take \/ EndWritten \/ HalfClosed \/ EndAccepted \/ EndFails) /\ UNCHANGED session)
  /\ SF_svars(EndLock /\ UNCHANGED session)
  /\ \A s \in Streams : WF_svars((Receive(s) \/ Accept(s)) /\ UNCHANGED session)
  /\ \A p \in Procs :
       /\ SF_svars(PumpLock(p) /\ UNCHANGED session)
       /\ WF_svars(PumpWritten(p) /\ UNCHANGED session)

CalmSpec == SessionInit /\ [][CalmNext]_svars /\ CalmFairness

-----------------------------------------------------------------------------
(* The call as the gateway is promised it (MeetingStream).                  *)

Heard(s) == {i \in 1..rcvd[s] : sent[s][i] \in Frames}
Begun == {s \in Streams : rcvd[s] > 0}
Spoke == {s \in Streams : Heard(s) # {}}
Newest(T) == CHOOSE s \in T : \A t \in T : t <= s

\* The last frame read, of the newest stream that had one.
LastHeard ==
  IF Spoke = {} THEN 0 ELSE sent[Newest(Spoke)][Newest(Heard(Newest(Spoke)))]

\* The newest stream the gateway read anything of has had no frame.
Resumed == Begun # {} /\ Heard(Newest(Begun)) = {}

Meeting == INSTANCE MeetingStream WITH
  spoken <- enq, heard <- LastHeard, resumed <- Resumed,
  settled <- verdict \in {"accepted", "taken"}

-----------------------------------------------------------------------------
(* Properties.                                                              *)

SessionTypeOK ==
  /\ TypeOK
  /\ phase \in Phases /\ attempt \in 0..MaxAttempts /\ verdict \in Verdicts

\* _hand_over logs "gateway accepted" or "gateway already has" only of a call
\* the gateway durably owns, whatever attempts failed, timed out or were
\* answered late before.
SettledMeansTaken == verdict \in {"accepted", "taken"} => meeting = "taken"

\* The whole of it, sink, hand-over and gateway, implements MeetingStream: the
\* speech in order over all streams, one meeting, settled only when taken.
ImplementsMeeting == Meeting!Spec

\* finalize's docstring: it returns None "if the call never opened"; _hand_over
\* takes None as the end of the hand-over.  A call that never opened has had
\* none of its audio written.
NoneMeansNeverOpened == verdict = "none" => \A f \in 1..enq : ~Written(f)

\* finalize's docstring: it flushes the buffered audio and then sends the end
\* frame; the sink's comment: what could not be sent "replays when the stream
\* recovers".
FlushedBeforeEnd == [][EndWritten => outbox = <<>>]_svars

\* The hand-over of every call ends, the gateway answering or not: no lock,
\* retry or hung close keeps a finished call open for good.
HandOverEnds == phase = "leaving" ~> phase = "done"

\* When nothing fails after the call is left, whatever failed before, every
\* call the gateway has seen ends up its own.
CalmCallIsTaken == phase = "leaving" /\ meeting # "absent" ~> meeting = "taken"

=============================================================================
