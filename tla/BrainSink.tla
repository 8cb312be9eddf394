------------------------------ MODULE BrainSink ------------------------------
(***************************************************************************)
(* One call's audio sink (src/src/talk_capture/brain_client.py, BrainSink):*)
(* the outbox, the two asyncio locks, the ProcessCall stream in use and    *)
(* the streams that replaced it, and the gateway at the far end.           *)
(*                                                                         *)
(* Coroutines.  Every audio reader of a call runs process_audio_frame; one *)
(* more coroutine, the Closer, runs finalize and reopen (CallSession's     *)
(* hand-over).  They share one event loop, so a step of this module is the *)
(* code between two points where a coroutine may suspend.  An uncontended  *)
(* `async with lock` does not suspend in asyncio; the model lets others    *)
(* run there, and lets waiters of a lock go in any order.  Both only add   *)
(* behaviours.                                                             *)
(*                                                                         *)
(* Frames are numbered in the order they are enqueued.  All frames of a    *)
(* call are taken to have one size, so the byte limit of the outbox is a   *)
(* number of frames.  Time is left out: the reconnect cooldown is a flag   *)
(* the environment clears.                                                 *)
(***************************************************************************)
EXTENDS Integers, Sequences, FiniteSets, Functions

CONSTANTS
  Readers,      \* the call's audio reader coroutines
  Closer,       \* the coroutine that hands the call over
  MaxFrames,    \* bound: frames captured in the call
  MaxStreams,   \* bound: streams opened; past it every open raises
  MaxOutbox     \* _MAX_OUTBOX_BYTES, in frames

ASSUME CloserAssumption == Closer \notin Readers
ASSUME FramesAssumption == MaxFrames \in Nat
ASSUME StreamsAssumption == MaxStreams \in Nat
ASSUME OutboxAssumption == MaxOutbox \in Nat \ {0}

Procs == Readers \cup {Closer}
Streams == 1..MaxStreams
NoStream == 0                     \* Python's None in _call and _channel_obj

\* The frames of a CallFrame stream, numbered in the order meeting.v1 wants
\* them on a stream: the context, the audio as enqueued, the end.
Context == 0
Frames == 1..MaxFrames
EndFrame == MaxFrames + 1
Messages == Context..EndFrame

VARIABLES
  outbox,    \* _outbox
  call,      \* _call: the stream in use
  chan,      \* _channel_obj: the stream whose channel the sink holds
  cooling,   \* less than _RECONNECT_COOLDOWN_S since _last_reconnect
  at,        \* where each coroutine is suspended
  outcome,   \* what the Closer's last finalize or reopen came to
  enq,       \* how many frames were enqueued
  dropped,   \* the frames the full outbox evicted (_lost_frames)
  link,      \* each stream's state, as its client sees it
  sent,      \* the messages each stream's writes completed for
  rcvd,      \* how many of those the gateway has read
  meeting    \* the meeting at the gateway

client == <<outbox, call, chan, cooling, at, outcome, enq, dropped>>
vars == <<client, link, sent, rcvd, meeting>>

\* Suspension points.  The coroutine holds _write_lock in the first set and
\* _init_lock in the second; "ensure_lock", "pump_lock", "reconnect_lock",
\* "reopen_lock" and "end_lock" wait for one.
Writing == {"open_write", "pump_write", "end_write", "half_close"}
Opening == {"closing", "open_lock", "open_write"}
Finalizing == {"end_lock", "end_write", "half_close", "end_wait"}
Pcs == Writing \cup Opening \cup Finalizing \cup
       {"idle", "ensure_lock", "pump_lock", "reconnect_lock", "reopen_lock", "end_close"}

\* Who asked for an open, or how the finalize being cleaned up after ended.
Whys == {"none", "ensure", "reconnect", "reopen", "accepted", "failed"}
Outcomes == {"never", "busy", "accepted", "nocall", "failed", "reopened", "unreachable"}

LinkStates == {"none", "open", "half", "dead", "done"}

Suspension == [pc : Pcs, stream : Streams \cup {NoStream}, msg : Messages, why : Whys]
At(pc, s, m, why) == [pc |-> pc, stream |-> s, msg |-> m, why |-> why]
Idle == At("idle", NoStream, Context, "none")
Goto(p, pc) == at' = [at EXCEPT ![p] = At(pc, NoStream, Context, "none")]

WriteLockFree == \A p \in Procs : at[p].pc \notin Writing
InitLockFree == \A p \in Procs : at[p].pc \notin Opening

\* A stream the gateway may still be reading; one whose state says "done"
\* has had its CallAccepted.
Live(s) == link[s] \in {"open", "half"}
Unused == {s \in Streams : link[s] = "none"}

\* channel.close() and a cancelled write end the RPC unless it is over.
Killed(s) == [link EXCEPT ![s] = IF @ = "done" THEN "done" ELSE "dead"]

Init ==
  /\ outbox = <<>> /\ call = NoStream /\ chan = NoStream /\ cooling = FALSE
  /\ at = [p \in Procs |-> Idle]
  /\ outcome = "never" /\ enq = 0 /\ dropped = {}
  /\ link = [s \in Streams |-> "none"]
  /\ sent = [s \in Streams |-> <<>>]
  /\ rcvd = [s \in Streams |-> 0]
  /\ meeting = "absent"

-----------------------------------------------------------------------------
(* Helpers: the calls the coroutines make.                                  *)

\* _pump returns while _call is c: a reader's process_audio_frame is over, a
\* finalize goes on to its `if self._call is None`.
PumpReturns(p, c) ==
  /\ at' = [at EXCEPT ![p] = IF p = Closer /\ c # NoStream
                             THEN At("end_lock", NoStream, Context, "none") ELSE Idle]
  /\ outcome' = IF p = Closer /\ c = NoStream THEN "nocall" ELSE outcome

\* _pump entered: _ensure_call's first look at _call.
PumpEntry(p) == Goto(p, IF call = NoStream THEN "ensure_lock" ELSE "pump_lock")

\* An _open_call for `why` raised; _call is c.
OpenRaises(p, why, c) ==
  IF why = "reopen"
  THEN at' = [at EXCEPT ![p] = Idle] /\ outcome' = "unreachable"
  ELSE PumpReturns(p, c)

\* _open_call up to its wait for _write_lock, or an open that raises because
\* the bound on streams is reached.
OpenCall(p, why) ==
  \/ \E s \in Unused :
       /\ \A t \in Unused : s <= t
       /\ link' = [link EXCEPT ![s] = "open"]
       /\ chan' = s
       /\ at' = [at EXCEPT ![p] = At("open_lock", s, Context, why)]
       /\ UNCHANGED outcome
  \/ /\ Unused = {}
     /\ OpenRaises(p, why, NoStream)
     /\ UNCHANGED <<link, chan>>

\* Reconnecting and reopening forget the stream and await old.close() if a
\* channel was held, before opening the next one.
DropAndOpen(p, why) ==
  /\ call' = NoStream
  /\ IF chan = NoStream
     THEN OpenCall(p, why)
     ELSE /\ chan' = NoStream
          /\ link' = Killed(chan)
          /\ at' = [at EXCEPT ![p] = At("closing", chan, Context, why)]
          /\ UNCHANGED outcome

\* The finally clause of finalize: await the channel's close if one is held,
\* then deliver the result.
FinallyClose(p, result) ==
  IF chan = NoStream
  THEN /\ at' = [at EXCEPT ![p] = Idle]
       /\ outcome' = result
       /\ UNCHANGED link
  ELSE /\ at' = [at EXCEPT ![p] = At("end_close", chan, Context, result)]
       /\ link' = Killed(chan)
       /\ UNCHANGED outcome

-----------------------------------------------------------------------------
(* process_audio_frame and _pump.                                           *)

\* A reader hands over the next frame: it is enqueued, evicting the oldest
\* frame of a full outbox, and the reader enters _pump.
Frame(r) ==
  /\ at[r].pc = "idle" /\ enq < MaxFrames
  /\ enq' = enq + 1
  /\ IF Len(outbox) < MaxOutbox
     THEN outbox' = Append(outbox, enq + 1) /\ UNCHANGED dropped
     ELSE /\ outbox' = Append(Tail(outbox), enq + 1)
          /\ dropped' = dropped \cup {Head(outbox)}
  /\ PumpEntry(r)
  /\ UNCHANGED <<call, chan, cooling, outcome, link, sent, rcvd, meeting>>

\* Mutant of EnsureLock: no second look at _call under the lock.
EnsureLockBlind(p) ==
  /\ at[p].pc = "ensure_lock" /\ InitLockFree
  /\ OpenCall(p, "ensure")
  /\ UNCHANGED <<outbox, call, cooling, enq, dropped, sent, rcvd, meeting>>

\* _ensure_call with _init_lock: look again, and open if still needed.
EnsureLock(p) ==
  /\ at[p].pc = "ensure_lock" /\ InitLockFree
  /\ IF call # NoStream
     THEN Goto(p, "pump_lock") /\ UNCHANGED <<chan, link, outcome>>
     ELSE OpenCall(p, "ensure")
  /\ UNCHANGED <<outbox, call, cooling, enq, dropped, sent, rcvd, meeting>>

\* _open_call gets _write_lock and starts writing the context.
OpenLock(p) ==
  /\ at[p].pc = "open_lock" /\ WriteLockFree
  /\ at' = [at EXCEPT ![p] = At("open_write", at[p].stream, Context, at[p].why)]
  /\ UNCHANGED <<outbox, call, chan, cooling, outcome, enq, dropped, link, sent, rcvd, meeting>>

\* The context is written: only now is the stream the one in use.
OpenWritten(p) ==
  /\ at[p].pc = "open_write"
  /\ LET s == at[p].stream IN
       /\ link[s] = "open"
       /\ sent' = [sent EXCEPT ![s] = Append(@, Context)]
       /\ call' = s
       /\ CASE at[p].why = "ensure" -> Goto(p, "pump_lock") /\ UNCHANGED outcome
            [] at[p].why = "reconnect" -> PumpReturns(p, s)
            [] at[p].why = "reopen" -> at' = [at EXCEPT ![p] = Idle] /\ outcome' = "reopened"
  /\ UNCHANGED <<outbox, chan, cooling, enq, dropped, link, rcvd, meeting>>

\* Writing the context raises: the stream broke.
OpenFails(p) ==
  /\ at[p].pc = "open_write" /\ link[at[p].stream] # "open"
  /\ OpenRaises(p, at[p].why, call)
  /\ UNCHANGED <<outbox, call, chan, cooling, enq, dropped, link, sent, rcvd, meeting>>

\* Mutant of PumpLock: the pump does not take _write_lock.
PumpLockUnlocked(p) ==
  /\ at[p].pc = "pump_lock"
  /\ IF outbox # <<>> /\ call # NoStream
     THEN /\ at' = [at EXCEPT ![p] = At("pump_write", call, Head(outbox), "none")]
          /\ UNCHANGED outcome
     ELSE PumpReturns(p, call)
  /\ UNCHANGED <<outbox, call, chan, cooling, enq, dropped, link, sent, rcvd, meeting>>

\* _pump gets _write_lock: write the oldest frame, if there is one and a
\* stream to write it on.
PumpLock(p) ==
  /\ at[p].pc = "pump_lock" /\ WriteLockFree
  /\ IF outbox # <<>> /\ call # NoStream
     THEN /\ at' = [at EXCEPT ![p] = At("pump_write", call, Head(outbox), "none")]
          /\ UNCHANGED outcome
     ELSE PumpReturns(p, call)
  /\ UNCHANGED <<outbox, call, chan, cooling, enq, dropped, link, sent, rcvd, meeting>>

\* A frame's write completes: the outbox loses whatever is its head now, and
\* the loop goes on, still holding the lock.
PumpWritten(p) ==
  /\ at[p].pc = "pump_write"
  /\ LET s == at[p].stream
         rest == Tail(outbox)
     IN /\ link[s] = "open"
        /\ sent' = [sent EXCEPT ![s] = Append(@, at[p].msg)]
        /\ outbox' = rest
        /\ IF rest # <<>> /\ call # NoStream
           THEN /\ at' = [at EXCEPT ![p] = At("pump_write", call, Head(rest), "none")]
                /\ UNCHANGED outcome
           ELSE PumpReturns(p, call)
  /\ UNCHANGED <<call, chan, cooling, enq, dropped, link, rcvd, meeting>>

\* Mutants of PumpFails: the frame whose write raised is popped all the same,
\* or queued again behind the younger ones.
PumpFailsWith(p, rest) ==
  /\ at[p].pc = "pump_write" /\ link[at[p].stream] # "open"
  /\ outbox' = rest
  /\ IF call = NoStream
     THEN PumpReturns(p, call)
     ELSE /\ at' = [at EXCEPT ![p] = At("reconnect_lock", call, Context, "none")]
          /\ UNCHANGED outcome
  /\ UNCHANGED <<call, chan, cooling, enq, dropped, link, sent, rcvd, meeting>>
PumpFailsPopping(p) == outbox # <<>> /\ PumpFailsWith(p, Tail(outbox))
PumpFailsRequeueing(p) == outbox # <<>> /\ PumpFailsWith(p, Append(Tail(outbox), Head(outbox)))

\* A frame's write raises: the frame stays, the stream in use now is the dead
\* one to reconnect from.
PumpFails(p) ==
  /\ at[p].pc = "pump_write" /\ link[at[p].stream] # "open"
  /\ IF call = NoStream
     THEN PumpReturns(p, call)
     ELSE /\ at' = [at EXCEPT ![p] = At("reconnect_lock", call, Context, "none")]
          /\ UNCHANGED outcome
  /\ UNCHANGED <<outbox, call, chan, cooling, enq, dropped, link, sent, rcvd, meeting>>

\* _reconnect with _init_lock: nothing to do if the stream was replaced, or
\* while the last reconnect is recent.
ReconnectLock(p) ==
  /\ at[p].pc = "reconnect_lock" /\ InitLockFree
  /\ IF call # at[p].stream \/ cooling
     THEN PumpReturns(p, call) /\ UNCHANGED <<call, chan, cooling, link>>
     ELSE cooling' = TRUE /\ DropAndOpen(p, "reconnect")
  /\ UNCHANGED <<outbox, enq, dropped, sent, rcvd, meeting>>

\* The old channel is closed: open the new one.
Closed(p) ==
  /\ at[p].pc = "closing"
  /\ OpenCall(p, at[p].why)
  /\ UNCHANGED <<outbox, call, cooling, enq, dropped, sent, rcvd, meeting>>

CooldownOver ==
  /\ cooling /\ cooling' = FALSE
  /\ UNCHANGED <<outbox, call, chan, at, outcome, enq, dropped, link, sent, rcvd, meeting>>

-----------------------------------------------------------------------------
(* reopen and finalize.                                                     *)

StartReopen ==
  /\ at[Closer].pc = "idle" /\ outcome \in {"failed", "unreachable"}
  /\ Goto(Closer, "reopen_lock") /\ outcome' = "busy"
  /\ UNCHANGED <<outbox, call, chan, cooling, enq, dropped, link, sent, rcvd, meeting>>

ReopenLock ==
  /\ at[Closer].pc = "reopen_lock" /\ InitLockFree
  /\ DropAndOpen(Closer, "reopen")
  /\ UNCHANGED <<outbox, cooling, enq, dropped, sent, rcvd, meeting>>

\* finalize begins: flush if anything waits, else straight to the check of
\* _call that follows.
StartFinalize ==
  /\ at[Closer].pc = "idle" /\ outcome \in {"never", "reopened"}
  /\ IF outbox # <<>>
     THEN PumpEntry(Closer) /\ outcome' = "busy"
     ELSE IF call = NoStream
          THEN outcome' = "nocall" /\ UNCHANGED at
          ELSE Goto(Closer, "end_lock") /\ outcome' = "busy"
  /\ UNCHANGED <<outbox, call, chan, cooling, enq, dropped, link, sent, rcvd, meeting>>

\* _write_lock for the end frame.  If _call became None meanwhile, the write
\* is an AttributeError.
EndLock ==
  /\ at[Closer].pc = "end_lock" /\ WriteLockFree
  /\ IF call = NoStream
     THEN FinallyClose(Closer, "failed")
     ELSE /\ at' = [at EXCEPT ![Closer] = At("end_write", call, EndFrame, "none")]
          /\ UNCHANGED <<outcome, link>>
  /\ UNCHANGED <<outbox, call, chan, cooling, enq, dropped, sent, rcvd, meeting>>

\* The end frame is written; done_writing is called on _call as it is now.
EndWritten ==
  /\ at[Closer].pc = "end_write"
  /\ LET s == at[Closer].stream IN
       /\ link[s] = "open"
       /\ sent' = [sent EXCEPT ![s] = Append(@, EndFrame)]
       /\ IF call = NoStream
          THEN FinallyClose(Closer, "failed")
          ELSE /\ at' = [at EXCEPT ![Closer] = At("half_close", call, Context, "none")]
               /\ UNCHANGED <<outcome, link>>
  /\ UNCHANGED <<outbox, call, chan, cooling, enq, dropped, rcvd, meeting>>

\* done_writing is through: release the lock and await _call as it is now.
HalfClosed ==
  /\ at[Closer].pc = "half_close"
  /\ LET s == at[Closer].stream IN
       /\ link[s] = "open"
       /\ IF call = NoStream
          THEN FinallyClose(Closer, "failed")
          ELSE /\ link' = [link EXCEPT ![s] = "half"]
               /\ at' = [at EXCEPT ![Closer] = At("end_wait", call, Context, "none")]
               /\ UNCHANGED outcome
  /\ UNCHANGED <<outbox, call, chan, cooling, enq, dropped, sent, rcvd, meeting>>

\* The write of the end frame, the half-close or the wait raises.
EndFails ==
  /\ \/ at[Closer].pc \in {"end_write", "half_close"} /\ link[at[Closer].stream] # "open"
     \/ at[Closer].pc = "end_wait" /\ link[at[Closer].stream] = "dead"
  /\ FinallyClose(Closer, "failed")
  /\ UNCHANGED <<outbox, call, chan, cooling, enq, dropped, sent, rcvd, meeting>>

\* Mutant of EndAccepted: the answer is awaited but not returned.
EndAcceptedForgotten ==
  /\ at[Closer].pc = "end_wait" /\ link[at[Closer].stream] = "done"
  /\ FinallyClose(Closer, "none")
  /\ UNCHANGED <<outbox, call, chan, cooling, enq, dropped, sent, rcvd, meeting>>

\* The gateway's CallAccepted arrives.
EndAccepted ==
  /\ at[Closer].pc = "end_wait" /\ link[at[Closer].stream] = "done"
  /\ FinallyClose(Closer, "accepted")
  /\ UNCHANGED <<outbox, call, chan, cooling, enq, dropped, sent, rcvd, meeting>>

\* finalize's channel close is through: it returns, or raises.
EndClosed ==
  /\ at[Closer].pc = "end_close"
  /\ at' = [at EXCEPT ![Closer] = Idle]
  /\ outcome' = at[Closer].why
  /\ UNCHANGED <<outbox, call, chan, cooling, enq, dropped, link, sent, rcvd, meeting>>

-----------------------------------------------------------------------------
(* Cancellation: a LiveKit reader is cancelled when its track goes; the     *)
(* Closer's finalize when wait_for times out (once: the close of a failed   *)
(* finalize is waited for).  Locks are released on the way out, an open or  *)
(* a write under way takes its stream with it.                              *)

CancelReader(r) ==
  /\ at[r].pc # "idle"
  /\ at' = [at EXCEPT ![r] = Idle]
  /\ link' = IF at[r].pc \in {"open_lock", "open_write", "pump_write"}
             THEN Killed(at[r].stream) ELSE link
  /\ UNCHANGED <<outbox, call, chan, cooling, outcome, enq, dropped, sent, rcvd, meeting>>

FinalizeTimesOut ==
  /\ at[Closer].pc \notin {"idle", "reopen_lock"} /\ at[Closer].why \notin {"reopen", "failed"}
  /\ IF at[Closer].pc \in Finalizing
     THEN FinallyClose(Closer, "failed")
     ELSE /\ at' = [at EXCEPT ![Closer] = Idle]
          /\ outcome' = "failed"
          /\ link' = IF at[Closer].pc \in {"open_lock", "open_write", "pump_write"}
                     THEN Killed(at[Closer].stream) ELSE link
  /\ UNCHANGED <<outbox, call, chan, cooling, enq, dropped, sent, rcvd, meeting>>

-----------------------------------------------------------------------------
(* The network and the gateway (external).                                  *)

\* The meeting after the gateway reads a message: a context starts it, or
\* resumes it; the end frame has it finalised.
Read(m) ==
  CASE m = Context /\ meeting = "absent" -> "live"
    [] m = EndFrame /\ meeting = "live" -> "ending"
    [] OTHER -> meeting

\* The gateway reads a stream's next message.  A second end frame for a
\* finished call is refused.
Receive(s) ==
  /\ Live(s) /\ rcvd[s] < Len(sent[s])
  /\ LET m == sent[s][rcvd[s] + 1] IN
       /\ rcvd' = [rcvd EXCEPT ![s] = @ + 1]
       /\ meeting' = Read(m)
       /\ link' = IF m = EndFrame /\ meeting # "live"
                  THEN [link EXCEPT ![s] = "dead"] ELSE link
  /\ UNCHANGED <<client, sent>>

\* The gateway has finalised the engine session: the call is durably its own.
Take ==
  /\ meeting = "ending" /\ meeting' = "taken"
  /\ UNCHANGED <<client, link, sent, rcvd>>

\* CallAccepted reaches the client.
Accept(s) ==
  /\ link[s] = "half" /\ rcvd[s] = Len(sent[s]) /\ meeting = "taken"
  /\ link' = [link EXCEPT ![s] = "done"]
  /\ UNCHANGED <<client, sent, rcvd, meeting>>

\* A stream breaks, or never connected.
Break(s) ==
  /\ Live(s)
  /\ link' = [link EXCEPT ![s] = "dead"]
  /\ UNCHANGED <<client, sent, rcvd, meeting>>

\* A stream breaks just after the gateway read the message whose write is
\* under way: the write raises although the message arrived.
BreakAfterRead(s) ==
  /\ link[s] = "open" /\ rcvd[s] = Len(sent[s])
  /\ \E p \in Procs :
       /\ at[p].pc \in Writing \ {"half_close"} /\ at[p].stream = s
       /\ sent' = [sent EXCEPT ![s] = Append(@, at[p].msg)]
       /\ meeting' = Read(at[p].msg)
  /\ rcvd' = [rcvd EXCEPT ![s] = @ + 1]
  /\ link' = [link EXCEPT ![s] = "dead"]
  /\ UNCHANGED client

-----------------------------------------------------------------------------
\* The bounds can stop the model, only when nothing is under way.
Finished ==
  /\ \A p \in Procs : at[p].pc = "idle"
  /\ enq = MaxFrames
  /\ UNCHANGED vars

Sink(p) ==
  \/ EnsureLock(p) \/ OpenLock(p) \/ OpenWritten(p) \/ OpenFails(p)
  \/ PumpLock(p) \/ PumpWritten(p) \/ PumpFails(p) \/ ReconnectLock(p) \/ Closed(p)

Finalize == EndLock \/ EndWritten \/ HalfClosed \/ EndFails \/ EndAccepted \/ EndClosed

Gateway == CooldownOver \/ Take \/ \E s \in Streams : Receive(s) \/ Accept(s)

Faults == FinalizeTimesOut \/ \E s \in Streams : Break(s) \/ BreakAfterRead(s)

Next ==
  \/ \E p \in Procs : Sink(p)
  \/ \E r \in Readers : Frame(r) \/ CancelReader(r)
  \/ StartReopen \/ ReopenLock \/ StartFinalize \/ Finalize
  \/ Gateway \/ Faults
  \/ Finished

Spec == Init /\ [][Next]_vars

-----------------------------------------------------------------------------
(* Properties.                                                              *)

\* Every variable and every field of a suspension point keeps its type; the
\* streams' and coroutines' states are the ones named above.
TypeOK ==
  /\ outbox \in Seq(Frames)
  /\ call \in Streams \cup {NoStream}
  /\ chan \in Streams \cup {NoStream}
  /\ cooling \in BOOLEAN
  /\ at \in [Procs -> Suspension]
  /\ outcome \in Outcomes
  /\ enq \in 0..MaxFrames
  /\ dropped \in SUBSET Frames
  /\ link \in [Streams -> LinkStates]
  /\ sent \in [Streams -> Seq(Messages)]
  /\ rcvd \in [Streams -> Nat]
  /\ meeting \in {"absent", "live", "ending", "taken"}

\* meeting.v1: a stream's first message is the context and nothing precedes
\* it, audio goes out in the order it was captured and never twice on one
\* stream, the end frame is the last - whichever coroutines open, pump,
\* reconnect and finalize at the same time.
ContractOrder ==
  \A s \in Streams :
    /\ sent[s] # <<>> => sent[s][1] = Context
    /\ \A i, j \in DOMAIN sent[s] : i < j => sent[s][i] < sent[s][j]

\* A replacement stream never goes back before what an earlier stream of the
\* call carried: at most the frame whose write raised is repeated.
ReplayOrder ==
  \A s, t \in Streams : s < t =>
    \A i \in DOMAIN sent[s], j \in DOMAIN sent[t] :
      sent[s][i] \in Frames /\ sent[t][j] \in Frames => sent[s][i] <= sent[t][j]

\* The gateway keeps one engine session per call: however reconnects, reopens
\* and cancellations interleave, at most one of a call's streams is live.
OneLiveStream == \A s, t \in Streams : Live(s) /\ Live(t) => s = t

Written(f) == \E s \in Streams : f \in Range(sent[s])
Lost == {f \in 1..enq : f \notin Range(outbox) /\ ~Written(f)}

\* No reconnect, cancellation or race between two pumps loses a frame silently.
\* At the limit the eviction can hit the frame being written, and the pump then
\* discards the next one instead; still, no more frames are lost than
\* _lost_frames counts, and none before the outbox was full.
LossCounted == Cardinality(Lost) <= Cardinality(dropped)
=============================================================================
