--------------------------- MODULE BrainSinkProofs ---------------------------
(***************************************************************************)
(* Theorems about BrainSink, for any readers, streams, frames and limits.  *)
(***************************************************************************)
EXTENDS BrainSinkInvariant, SequenceTheorems, TLAPS

USE CloserAssumption, FramesAssumption, StreamsAssumption, OutboxAssumption

-----------------------------------------------------------------------------
(* Types.                                                                   *)

\* The messages and the suspension points are what the actions take them for.
LEMMA MessageFacts ==
  /\ Context \in Messages /\ EndFrame \in Messages /\ Frames \subseteq Messages
  /\ NoStream \notin Streams /\ Messages \subseteq Nat
  /\ \A f \in Frames : Context < f /\ f < EndFrame
BY DEF Context, EndFrame, Frames, Messages, NoStream, Streams

LEMMA AtType ==
  ASSUME NEW pc \in Pcs, NEW s \in Streams \cup {NoStream}, NEW m \in Messages, NEW why \in Whys
  PROVE  At(pc, s, m, why) \in Suspension
BY DEF At, Suspension

LEMMA PcFacts ==
  /\ Writing \subseteq Pcs /\ Opening \subseteq Pcs /\ Finalizing \subseteq Pcs
  /\ {"idle", "ensure_lock", "pump_lock", "reconnect_lock", "reopen_lock", "end_close"} \subseteq Pcs
BY DEF Pcs

LEMMA GotoType ==
  ASSUME TypeOK, NEW p \in Procs, NEW pc \in Pcs, Goto(p, pc)
  PROVE  at' \in [Procs -> Suspension]
<1>1. At(pc, NoStream, Context, "none") \in Suspension
  BY AtType, MessageFacts DEF Whys
<1>. QED  BY <1>1 DEF Goto, TypeOK

LEMMA IdleType == Idle \in Suspension
BY AtType, MessageFacts, PcFacts DEF Idle, Whys

LEMMA PumpReturnsType ==
  ASSUME TypeOK, NEW p \in Procs, NEW c, PumpReturns(p, c)
  PROVE  at' \in [Procs -> Suspension] /\ outcome' \in Outcomes
<1>1. At("end_lock", NoStream, Context, "none") \in Suspension
  BY AtType, MessageFacts, PcFacts DEF Whys, Finalizing
<1>2. at' \in [Procs -> Suspension]
  BY <1>1, IdleType DEF PumpReturns, TypeOK
<1>3. outcome' \in Outcomes
  BY DEF PumpReturns, TypeOK, Outcomes
<1>. QED  BY <1>2, <1>3

\* What the helpers that open and close streams leave behind.
Typed ==
  /\ at \in [Procs -> Suspension] /\ outcome \in Outcomes
  /\ call \in Streams \cup {NoStream} /\ chan \in Streams \cup {NoStream}
  /\ link \in [Streams -> LinkStates]

LEMMA KilledType ==
  ASSUME TypeOK, NEW s
  PROVE  Killed(s) \in [Streams -> LinkStates]
BY DEF Killed, TypeOK, LinkStates

LEMMA OpenCallType ==
  ASSUME TypeOK, NEW p \in Procs, NEW why \in Whys, OpenCall(p, why)
  PROVE  /\ at' \in [Procs -> Suspension] /\ outcome' \in Outcomes
         /\ chan' \in Streams \cup {NoStream} /\ link' \in [Streams -> LinkStates]
<1>1. CASE Unused # {}
  <2>1. PICK s \in Unused :
          /\ link' = [link EXCEPT ![s] = "open"] /\ chan' = s /\ outcome' = outcome
          /\ at' = [at EXCEPT ![p] = At("open_lock", s, Context, why)]
    BY <1>1 DEF OpenCall
  <2>2. At("open_lock", s, Context, why) \in Suspension
    BY AtType, MessageFacts, PcFacts DEF Opening, Unused
  <2>. QED  BY <2>1, <2>2 DEF TypeOK, Unused, LinkStates
<1>2. CASE Unused = {}
  <2>1. UNCHANGED <<link, chan>> /\ OpenRaises(p, why, NoStream)
    BY <1>2 DEF OpenCall
  <2>2. CASE why = "reopen"
    BY <2>1, <2>2, IdleType DEF OpenRaises, TypeOK, Outcomes
  <2>3. CASE why # "reopen"
    BY <2>1, <2>3, PumpReturnsType DEF OpenRaises, TypeOK
  <2>. QED  BY <2>2, <2>3
<1>. QED  BY <1>1, <1>2

LEMMA DropAndOpenType ==
  ASSUME TypeOK, NEW p \in Procs, NEW why \in Whys, DropAndOpen(p, why)
  PROVE  Typed'
<1>1. CASE chan = NoStream
  BY <1>1, OpenCallType DEF DropAndOpen, Typed
<1>2. CASE chan # NoStream
  <2>1. At("closing", chan, Context, why) \in Suspension
    BY AtType, MessageFacts, PcFacts DEF Opening, TypeOK
  <2>. QED  BY <1>2, <2>1, KilledType DEF DropAndOpen, Typed, TypeOK
<1>. QED  BY <1>1, <1>2

LEMMA FinallyCloseType ==
  ASSUME TypeOK, NEW result \in {"accepted", "failed"}, FinallyClose(Closer, result)
  PROVE  /\ at' \in [Procs -> Suspension] /\ outcome' \in Outcomes
         /\ link' \in [Streams -> LinkStates]
<1>1. result \in Outcomes /\ result \in Whys
  BY DEF Outcomes, Whys
<1>2. At("end_close", chan, Context, result) \in Suspension
  BY <1>1, AtType, MessageFacts, PcFacts DEF TypeOK
<1>. QED  BY <1>1, <1>2, IdleType, KilledType DEF FinallyClose, TypeOK

\* A message written on a stream.
LEMMA WriteType ==
  ASSUME TypeOK, NEW s, NEW m \in Messages, sent' = [sent EXCEPT ![s] = Append(@, m)]
  PROVE  sent' \in [Streams -> Seq(Messages)]
<1>1. sent \in [Streams -> Seq(Messages)]
  BY DEF TypeOK
<1>2. CASE s \in Streams
  <2>1. Append(sent[s], m) \in Seq(Messages)
    BY <1>1, <1>2
  <2>. QED  BY <1>1, <2>1
<1>3. CASE s \notin Streams
  <2>1. [sent EXCEPT ![s] = Append(@, m)] = sent
    BY <1>1, <1>3
  <2>. QED  BY <1>1, <2>1
<1>. QED  BY <1>2, <1>3

LEMMA ReaderStepType ==
  ASSUME TypeOK, NEW r \in Readers, Frame(r) \/ CancelReader(r)
  PROVE  TypeOK'
<1>. r \in Procs  BY DEF Procs
<1>1. CASE Frame(r)
  <2>1. enq' \in 0..MaxFrames /\ enq + 1 \in Frames
    BY <1>1 DEF Frame, TypeOK, Frames
  <2>2. outbox' \in Seq(Frames) /\ dropped' \in SUBSET Frames
    <3>1. CASE Len(outbox) < MaxOutbox
      <4>1. outbox' = Append(outbox, enq + 1) /\ dropped' = dropped
        BY <1>1, <3>1 DEF Frame
      <4>. QED  BY <2>1, <4>1 DEF TypeOK
    <3>2. CASE ~(Len(outbox) < MaxOutbox)
      <4>1. outbox # <<>> /\ Head(outbox) \in Frames /\ Tail(outbox) \in Seq(Frames)
        BY <3>2 DEF TypeOK
      <4>2. outbox' = Append(Tail(outbox), enq + 1) /\ dropped' = dropped \cup {Head(outbox)}
        BY <1>1, <3>2 DEF Frame
      <4>3. dropped \in SUBSET Frames
        BY DEF TypeOK
      <4>. QED  BY <2>1, <4>1, <4>2, <4>3
    <3>. QED  BY <3>1, <3>2
  <2>3. at' \in [Procs -> Suspension]
    BY <1>1, GotoType, PcFacts DEF Frame, PumpEntry
  <2>4. UNCHANGED <<call, chan, cooling, outcome, link, sent, rcvd, meeting>>
    BY <1>1 DEF Frame
  <2>. QED  BY <2>1, <2>2, <2>3, <2>4 DEF TypeOK
<1>2. CASE CancelReader(r)
  <2>1. at' \in [Procs -> Suspension]
    BY <1>2, IdleType DEF CancelReader, TypeOK
  <2>2. link' \in [Streams -> LinkStates]
    BY <1>2, KilledType DEF CancelReader, TypeOK
  <2>. QED  BY <1>2, <2>1, <2>2 DEF CancelReader, TypeOK
<1>. QED  BY <1>1, <1>2

LEMMA OpenStepType ==
  ASSUME TypeOK, Remembered, NEW p \in Procs,
         EnsureLock(p) \/ OpenLock(p) \/ OpenWritten(p) \/ OpenFails(p) \/ Closed(p)
  PROVE  TypeOK'
<1>0. {"ensure", "reconnect", "reopen"} \subseteq Whys
  BY DEF Whys
<1>1. CASE EnsureLock(p)
  <2>1. CASE call # NoStream
    <3>1. at' \in [Procs -> Suspension]
      BY <1>1, <2>1, GotoType, PcFacts DEF EnsureLock
    <3>. QED  BY <1>1, <2>1, <3>1 DEF EnsureLock, TypeOK
  <2>2. CASE call = NoStream
    <3>1. OpenCall(p, "ensure")
      BY <1>1, <2>2 DEF EnsureLock
    <3>. QED  BY <1>0, <1>1, <3>1, OpenCallType DEF EnsureLock, TypeOK
  <2>. QED  BY <2>1, <2>2
<1>2. CASE OpenLock(p)
  <2>1. At("open_write", at[p].stream, Context, at[p].why) \in Suspension
    <3>1. at[p].stream \in Streams \cup {NoStream} /\ at[p].why \in Whys
      BY DEF TypeOK, Suspension
    <3>. QED  BY <3>1, AtType, MessageFacts, PcFacts DEF Writing
  <2>. QED  BY <1>2, <2>1 DEF OpenLock, TypeOK
<1>3. CASE OpenWritten(p)
  <2> DEFINE s == at[p].stream
  <2>1. s \in Streams \cup {NoStream} /\ at[p].why \in {"ensure", "reconnect", "reopen"}
    BY <1>3 DEF OpenWritten, TypeOK, Suspension, Remembered, Opening
  <2>2. sent' \in [Streams -> Seq(Messages)] /\ call' \in Streams \cup {NoStream}
    <3>1. sent' = [sent EXCEPT ![s] = Append(@, Context)] /\ call' = s
      BY <1>3 DEF OpenWritten
    <3>. QED  BY <2>1, <3>1, MessageFacts, WriteType
  <2>3. at' \in [Procs -> Suspension] /\ outcome' \in Outcomes
    <3>1. CASE at[p].why = "ensure"
      BY <1>3, <3>1, GotoType, PcFacts DEF OpenWritten, TypeOK
    <3>2. CASE at[p].why = "reconnect"
      BY <1>3, <3>2, PumpReturnsType DEF OpenWritten
    <3>3. CASE at[p].why = "reopen"
      BY <1>3, <3>3, IdleType DEF OpenWritten, TypeOK, Outcomes
    <3>. QED  BY <2>1, <3>1, <3>2, <3>3
  <2>4. UNCHANGED <<outbox, chan, cooling, enq, dropped, link, rcvd, meeting>>
    BY <1>3 DEF OpenWritten
  <2>. QED  BY <2>2, <2>3, <2>4 DEF TypeOK
<1>4. CASE OpenFails(p)
  <2>1. at' \in [Procs -> Suspension] /\ outcome' \in Outcomes
    BY <1>4, PumpReturnsType, IdleType DEF OpenFails, OpenRaises, TypeOK, Outcomes
  <2>. QED  BY <1>4, <2>1 DEF OpenFails, TypeOK
<1>5. CASE Closed(p)
  <2>1. at[p].why \in Whys
    BY DEF TypeOK, Suspension
  <2>. QED  BY <1>5, <2>1, OpenCallType DEF Closed, TypeOK
<1>. QED  BY <1>1, <1>2, <1>3, <1>4, <1>5

LEMMA PumpStepType ==
  ASSUME TypeOK, PumpHead, NEW p \in Procs,
         PumpLock(p) \/ PumpWritten(p) \/ PumpFails(p) \/ ReconnectLock(p)
  PROVE  TypeOK'
<1>1. CASE PumpLock(p)
  <2>1. at' \in [Procs -> Suspension] /\ outcome' \in Outcomes
    <3>1. CASE outbox # <<>> /\ call # NoStream
      <4>1. Head(outbox) \in Frames /\ call \in Streams
        BY <3>1 DEF TypeOK
      <4>2. At("pump_write", call, Head(outbox), "none") \in Suspension
        BY <4>1, AtType, MessageFacts, PcFacts DEF Writing, Whys
      <4>. QED  BY <1>1, <3>1, <4>2 DEF PumpLock, TypeOK
    <3>2. CASE ~(outbox # <<>> /\ call # NoStream)
      BY <1>1, <3>2, PumpReturnsType DEF PumpLock
    <3>. QED  BY <3>1, <3>2
  <2>. QED  BY <1>1, <2>1 DEF PumpLock, TypeOK
<1>2. CASE PumpWritten(p)
  <2>1. outbox # <<>> /\ Tail(outbox) \in Seq(Frames)
    BY <1>2 DEF PumpWritten, PumpHead, TypeOK
  <2>2. at' \in [Procs -> Suspension] /\ outcome' \in Outcomes
    <3>1. CASE Tail(outbox) # <<>> /\ call # NoStream
      <4>1. At("pump_write", call, Head(Tail(outbox)), "none") \in Suspension
        <5>1. Head(Tail(outbox)) \in Frames
          BY <2>1, <3>1
        <5>. QED  BY <5>1, AtType, MessageFacts, PcFacts DEF TypeOK, Writing, Whys
      <4>. QED  BY <1>2, <3>1, <4>1 DEF PumpWritten, TypeOK
    <3>2. CASE ~(Tail(outbox) # <<>> /\ call # NoStream)
      BY <1>2, <3>2, PumpReturnsType DEF PumpWritten
    <3>. QED  BY <3>1, <3>2
  <2>3. sent' \in [Streams -> Seq(Messages)]
    <3>1. at[p].msg \in Messages
      BY DEF TypeOK, Suspension
    <3>2. sent' = [sent EXCEPT ![at[p].stream] = Append(@, at[p].msg)]
      BY <1>2 DEF PumpWritten
    <3>. QED  BY <3>1, <3>2, WriteType
  <2>4. outbox' = Tail(outbox) /\ UNCHANGED <<call, chan, cooling, enq, dropped, link, rcvd, meeting>>
    BY <1>2 DEF PumpWritten
  <2>. QED  BY <2>1, <2>2, <2>3, <2>4 DEF TypeOK
<1>3. CASE PumpFails(p)
  <2>1. at' \in [Procs -> Suspension] /\ outcome' \in Outcomes
    <3>1. CASE call = NoStream
      BY <1>3, <3>1, PumpReturnsType DEF PumpFails
    <3>2. CASE call # NoStream
      <4>1. At("reconnect_lock", call, Context, "none") \in Suspension
        BY AtType, MessageFacts, PcFacts DEF TypeOK, Whys
      <4>. QED  BY <1>3, <3>2, <4>1 DEF PumpFails, TypeOK
    <3>. QED  BY <3>1, <3>2
  <2>. QED  BY <1>3, <2>1 DEF PumpFails, TypeOK
<1>4. CASE ReconnectLock(p)
  <2>1. CASE call # at[p].stream \/ cooling
    BY <1>4, <2>1, PumpReturnsType DEF ReconnectLock, TypeOK
  <2>2. CASE ~(call # at[p].stream \/ cooling)
    <3>1. Typed'
      BY <1>4, <2>2, DropAndOpenType DEF ReconnectLock, Whys
    <3>. QED  BY <1>4, <2>2, <3>1 DEF ReconnectLock, TypeOK, Typed
  <2>. QED  BY <2>1, <2>2
<1>. QED  BY <1>1, <1>2, <1>3, <1>4

LEMMA CloserStepType ==
  ASSUME TypeOK, Remembered, StartReopen \/ ReopenLock \/ StartFinalize \/ Finalize \/ FinalizeTimesOut
  PROVE  TypeOK'
<1>. Closer \in Procs  BY DEF Procs
<1>0. {"busy", "nocall", "failed"} \subseteq Outcomes /\ "reopen" \in Whys /\ "none" \in Whys
  BY DEF Outcomes, Whys
<1>1. CASE StartReopen
  BY <1>0, <1>1, GotoType, PcFacts DEF StartReopen, TypeOK
<1>2. CASE ReopenLock
  <2>1. Typed'
    BY <1>0, <1>2, DropAndOpenType DEF ReopenLock
  <2>. QED  BY <1>2, <2>1 DEF ReopenLock, TypeOK, Typed
<1>3. CASE StartFinalize
  <2>1. at' \in [Procs -> Suspension] /\ outcome' \in Outcomes
    BY <1>0, <1>3, GotoType, PcFacts DEF StartFinalize, PumpEntry, TypeOK, Finalizing
  <2>. QED  BY <1>3, <2>1 DEF StartFinalize, TypeOK
<1>4. CASE EndLock
  <2>1. at' \in [Procs -> Suspension] /\ outcome' \in Outcomes /\ link' \in [Streams -> LinkStates]
    <3>1. At("end_write", call, EndFrame, "none") \in Suspension
      BY <1>0, AtType, MessageFacts, PcFacts DEF TypeOK, Writing
    <3>. QED  BY <1>4, <3>1, FinallyCloseType DEF EndLock, TypeOK
  <2>. QED  BY <1>4, <2>1 DEF EndLock, TypeOK
<1>5. CASE EndWritten
  <2>1. at' \in [Procs -> Suspension] /\ outcome' \in Outcomes /\ link' \in [Streams -> LinkStates]
    <3>1. At("half_close", call, Context, "none") \in Suspension
      BY <1>0, AtType, MessageFacts, PcFacts DEF TypeOK, Writing
    <3>. QED  BY <1>5, <3>1, FinallyCloseType DEF EndWritten, TypeOK
  <2>2. sent' \in [Streams -> Seq(Messages)]
    <3>1. sent' = [sent EXCEPT ![at[Closer].stream] = Append(@, EndFrame)]
      BY <1>5 DEF EndWritten
    <3>. QED  BY <3>1, MessageFacts, WriteType
  <2>3. UNCHANGED <<outbox, call, chan, cooling, enq, dropped, rcvd, meeting>>
    BY <1>5 DEF EndWritten
  <2>. QED  BY <2>1, <2>2, <2>3 DEF TypeOK
<1>6. CASE HalfClosed
  <2>1. at' \in [Procs -> Suspension] /\ outcome' \in Outcomes /\ link' \in [Streams -> LinkStates]
    <3>1. At("end_wait", call, Context, "none") \in Suspension
      BY <1>0, AtType, MessageFacts, PcFacts DEF TypeOK, Finalizing
    <3>. QED  BY <1>6, <3>1, FinallyCloseType DEF HalfClosed, TypeOK, LinkStates
  <2>. QED  BY <1>6, <2>1 DEF HalfClosed, TypeOK
<1>7. CASE EndFails \/ EndAccepted
  BY <1>7, FinallyCloseType DEF EndFails, EndAccepted, TypeOK
<1>8. CASE EndClosed
  BY <1>8, IdleType DEF EndClosed, TypeOK, Remembered, Outcomes
<1>9. CASE FinalizeTimesOut
  <2>1. at' \in [Procs -> Suspension] /\ outcome' \in Outcomes /\ link' \in [Streams -> LinkStates]
    BY <1>0, <1>9, FinallyCloseType, IdleType, KilledType DEF FinalizeTimesOut, TypeOK
  <2>. QED  BY <1>9, <2>1 DEF FinalizeTimesOut, TypeOK
<1>. QED  BY <1>1, <1>2, <1>3, <1>4, <1>5, <1>6, <1>7, <1>8, <1>9 DEF Finalize

LEMMA GatewayStepType ==
  ASSUME TypeOK, Gateway \/ \E s \in Streams : Break(s) \/ BreakAfterRead(s)
  PROVE  TypeOK'
<1>0. \A m : Read(m) \in {"absent", "live", "ending", "taken"}
  BY DEF Read, TypeOK
<1>1. CASE CooldownOver \/ Take
  BY <1>1 DEF CooldownOver, Take, TypeOK, client
<1>2. ASSUME NEW s \in Streams, Receive(s)
      PROVE  TypeOK'
  <2>1. rcvd' \in [Streams -> Nat] /\ link' \in [Streams -> LinkStates]
    BY <1>2 DEF Receive, TypeOK, LinkStates
  <2>. QED  BY <1>0, <1>2, <2>1 DEF Receive, TypeOK, client
<1>3. ASSUME NEW s \in Streams, Accept(s) \/ Break(s)
      PROVE  TypeOK'
  <2>1. link' \in [Streams -> LinkStates]
    BY <1>3 DEF Accept, Break, TypeOK, LinkStates
  <2>. QED  BY <1>3, <2>1 DEF Accept, Break, TypeOK, client
<1>4. ASSUME NEW s \in Streams, BreakAfterRead(s)
      PROVE  TypeOK'
  <2>1. PICK p \in Procs : sent' = [sent EXCEPT ![s] = Append(@, at[p].msg)] /\ meeting' = Read(at[p].msg)
    BY <1>4 DEF BreakAfterRead
  <2>2. at[p].msg \in Messages
    BY DEF TypeOK, Suspension
  <2>3. sent' \in [Streams -> Seq(Messages)]
    BY <2>1, <2>2, WriteType
  <2>4. rcvd' \in [Streams -> Nat] /\ link' \in [Streams -> LinkStates]
    BY <1>4 DEF BreakAfterRead, TypeOK, LinkStates
  <2>5. UNCHANGED client
    BY <1>4 DEF BreakAfterRead
  <2>. QED  BY <1>0, <2>1, <2>3, <2>4, <2>5 DEF TypeOK, client
<1>. QED  BY <1>1, <1>2, <1>3, <1>4 DEF Gateway

LEMMA TypeStep ==
  ASSUME TypeOK, Remembered, PumpHead, [Next]_vars
  PROVE  TypeOK'
<1>1. ASSUME NEW p \in Procs, Sink(p)
      PROVE  TypeOK'
  BY <1>1, OpenStepType, PumpStepType DEF Sink
<1>2. ASSUME NEW r \in Readers, Frame(r) \/ CancelReader(r)
      PROVE  TypeOK'
  BY <1>2, ReaderStepType
<1>3. CASE StartReopen \/ ReopenLock \/ StartFinalize \/ Finalize \/ FinalizeTimesOut
  BY <1>3, CloserStepType
<1>4. CASE Gateway \/ \E s \in Streams : Break(s) \/ BreakAfterRead(s)
  BY <1>4, GatewayStepType
<1>5. CASE UNCHANGED vars
  BY <1>5 DEF TypeOK, vars, client
<1>. QED  BY <1>1, <1>2, <1>3, <1>4, <1>5 DEF Next, Faults, Finished

-----------------------------------------------------------------------------
(* Where a step leaves the coroutines.                                      *)

EndLockAt == At("end_lock", NoStream, Context, "none")

\* Only p moves.
Moves(p) == \A q \in Procs \ {p} : at'[q] = at[q]

LEMMA PumpReturnsShape ==
  ASSUME TypeOK, NEW p \in Procs, NEW c, PumpReturns(p, c)
  PROVE  /\ Moves(p)
         /\ at'[p] = IF p = Closer /\ c # NoStream THEN EndLockAt ELSE Idle
BY DEF PumpReturns, Moves, TypeOK, EndLockAt

LEMMA OpenRaisesShape ==
  ASSUME TypeOK, NEW p \in Procs, NEW why, OpenRaises(p, why, NoStream)
  PROVE  Moves(p) /\ at'[p] = Idle
BY PumpReturnsShape DEF OpenRaises, Moves, TypeOK

LEMMA OpenCallShape ==
  ASSUME TypeOK, NEW p \in Procs, NEW why, OpenCall(p, why)
  PROVE  /\ Moves(p)
         /\ \/ \E s \in Unused : /\ at'[p] = At("open_lock", s, Context, why)
                                /\ chan' = s /\ link' = [link EXCEPT ![s] = "open"]
            \/ at'[p] = Idle /\ UNCHANGED <<link, chan>>
BY OpenRaisesShape DEF OpenCall, Moves, TypeOK

LEMMA DropAndOpenShape ==
  ASSUME TypeOK, NEW p \in Procs, NEW why, DropAndOpen(p, why)
  PROVE  /\ Moves(p)
         /\ \/ chan = NoStream /\ OpenCall(p, why)
            \/ /\ at'[p] = At("closing", chan, Context, why)
               /\ chan # NoStream /\ chan' = NoStream /\ link' = Killed(chan)
BY OpenCallShape DEF DropAndOpen, Moves, TypeOK

LEMMA FinallyCloseShape ==
  ASSUME TypeOK, NEW result, FinallyClose(Closer, result)
  PROVE  /\ Moves(Closer)
         /\ \/ chan = NoStream /\ at'[Closer] = Idle /\ link' = link
            \/ /\ chan # NoStream
               /\ at'[Closer] = At("end_close", chan, Context, result) /\ link' = Killed(chan)
BY DEF FinallyClose, Moves, TypeOK, Procs

\* A step of p takes a lock only when it is free, and p remembers what it needs
\* where it is suspended next.
Orderly(p) ==
  /\ Moves(p)
  /\ at'[p].pc \in Writing => at[p].pc \in Writing \/ WriteLockFree
  /\ at'[p].pc \in Opening => at[p].pc \in Opening \/ InitLockFree
  /\ at'[p].pc \in Opening => at'[p].why \in {"ensure", "reconnect", "reopen"}
  /\ at'[p].pc = "end_close" => at'[p].why \in {"accepted", "failed"}
  /\ at'[p].pc \in Finalizing \cup {"end_close"} => p = Closer

\* Suspension points that hold no lock and need nothing remembered.
LEMMA FreePoint ==
  ASSUME NEW p \in Procs, Moves(p),
         \/ at'[p].pc \in {"idle", "ensure_lock", "pump_lock", "reconnect_lock", "reopen_lock"}
         \/ p = Closer /\ at'[p].pc \in {"end_lock", "end_wait"}
         \/ p = Closer /\ at'[p].pc = "end_close" /\ at'[p].why \in {"accepted", "failed"}
  PROVE  Orderly(p)
BY DEF Orderly, Writing, Opening, Finalizing

LEMMA AtFields ==
  ASSUME NEW pc, NEW s, NEW m, NEW why
  PROVE  /\ At(pc, s, m, why).pc = pc /\ At(pc, s, m, why).stream = s
         /\ At(pc, s, m, why).msg = m /\ At(pc, s, m, why).why = why
BY DEF At

LEMMA PumpReturnsOrderly ==
  ASSUME TypeOK, NEW p \in Procs, NEW c, PumpReturns(p, c)
  PROVE  Orderly(p)
BY PumpReturnsShape, FreePoint, AtFields DEF EndLockAt, Idle

LEMMA OpenCallOrderly ==
  ASSUME TypeOK, NEW p \in Procs, NEW why \in {"ensure", "reconnect", "reopen"}, OpenCall(p, why),
         at[p].pc \in Opening \/ InitLockFree
  PROVE  Orderly(p)
<1>1. CASE at'[p] = Idle
  BY <1>1, OpenCallShape, FreePoint, AtFields DEF Idle
<1>2. CASE at'[p].pc = "open_lock" /\ at'[p].why = why
  BY <1>2, OpenCallShape DEF Orderly, Writing, Opening, Finalizing
<1>. QED  BY <1>1, <1>2, OpenCallShape, AtFields

LEMMA DropAndOpenOrderly ==
  ASSUME TypeOK, NEW p \in Procs, NEW why \in {"ensure", "reconnect", "reopen"},
         DropAndOpen(p, why), InitLockFree
  PROVE  Orderly(p)
<1>1. CASE OpenCall(p, why)
  BY <1>1, OpenCallOrderly
<1>2. CASE at'[p].pc = "closing" /\ at'[p].why = why
  BY <1>2, DropAndOpenShape DEF Orderly, Writing, Opening, Finalizing
<1>. QED  BY <1>1, <1>2, DropAndOpenShape, AtFields

LEMMA FinallyCloseOrderly ==
  ASSUME TypeOK, NEW result \in {"accepted", "failed"}, FinallyClose(Closer, result)
  PROVE  Orderly(Closer)
BY FinallyCloseShape, FreePoint, AtFields DEF Idle, Procs

LEMMA GotoOrderly ==
  ASSUME TypeOK, NEW p \in Procs, NEW pc, Goto(p, pc),
         \/ pc \in {"idle", "ensure_lock", "pump_lock", "reopen_lock"}
         \/ p = Closer /\ pc = "end_lock"
  PROVE  Orderly(p)
<1>1. Moves(p) /\ at'[p].pc = pc
  BY AtFields DEF Goto, Moves, TypeOK
<1>. QED  BY <1>1, FreePoint

LEMMA SinkOrderly ==
  ASSUME TypeOK, Remembered, NEW p \in Procs, Sink(p)
  PROVE  Orderly(p)
<1>1. CASE EnsureLock(p)
  BY <1>1, GotoOrderly, OpenCallOrderly DEF EnsureLock
<1>2. CASE OpenLock(p)
  <2>1. Moves(p) /\ at'[p].pc = "open_write" /\ at'[p].why = at[p].why
    BY <1>2, AtFields DEF OpenLock, Moves, TypeOK
  <2>. QED  BY <1>2, <2>1 DEF OpenLock, Orderly, Remembered, Writing, Opening, Finalizing
<1>3. CASE OpenWritten(p)
  <2>1. at[p].why \in {"ensure", "reconnect", "reopen"}
    BY <1>3 DEF OpenWritten, Remembered, Opening
  <2>2. CASE at[p].why = "ensure"
    BY <1>3, <2>2, GotoOrderly DEF OpenWritten
  <2>3. CASE at[p].why = "reconnect"
    BY <1>3, <2>3, PumpReturnsOrderly DEF OpenWritten
  <2>4. CASE at[p].why = "reopen"
    <3>1. Moves(p) /\ at'[p].pc = "idle"
      BY <1>3, <2>4, AtFields DEF OpenWritten, Moves, TypeOK, Idle
    <3>. QED  BY <3>1, FreePoint
  <2>. QED  BY <2>1, <2>2, <2>3, <2>4
<1>4. CASE OpenFails(p)
  <2>1. CASE at[p].why = "reopen"
    <3>1. Moves(p) /\ at'[p].pc = "idle"
      BY <1>4, <2>1, AtFields DEF OpenFails, OpenRaises, Moves, TypeOK, Idle
    <3>. QED  BY <3>1, FreePoint
  <2>. QED  BY <1>4, <2>1, PumpReturnsOrderly DEF OpenFails, OpenRaises
<1>5. CASE PumpLock(p)
  <2>1. CASE outbox # <<>> /\ call # NoStream
    <3>1. Moves(p) /\ at'[p].pc = "pump_write"
      BY <1>5, <2>1, AtFields DEF PumpLock, Moves, TypeOK
    <3>. QED  BY <1>5, <3>1 DEF PumpLock, Orderly, Writing, Opening, Finalizing
  <2>. QED  BY <1>5, <2>1, PumpReturnsOrderly DEF PumpLock
<1>6. CASE PumpWritten(p)
  <2>1. CASE Tail(outbox) # <<>> /\ call # NoStream
    <3>1. Moves(p) /\ at'[p].pc = "pump_write" /\ at[p].pc = "pump_write"
      BY <1>6, <2>1, AtFields DEF PumpWritten, Moves, TypeOK
    <3>. QED  BY <3>1 DEF Orderly, Writing, Opening, Finalizing
  <2>. QED  BY <1>6, <2>1, PumpReturnsOrderly DEF PumpWritten
<1>7. CASE PumpFails(p)
  <2>1. CASE call # NoStream
    <3>1. Moves(p) /\ at'[p].pc = "reconnect_lock"
      BY <1>7, <2>1, AtFields DEF PumpFails, Moves, TypeOK
    <3>. QED  BY <3>1, FreePoint
  <2>. QED  BY <1>7, <2>1, PumpReturnsOrderly DEF PumpFails
<1>8. CASE ReconnectLock(p)
  BY <1>8, PumpReturnsOrderly, DropAndOpenOrderly DEF ReconnectLock
<1>9. CASE Closed(p)
  <2>1. at[p].pc \in Opening /\ at[p].why \in {"ensure", "reconnect", "reopen"}
    BY <1>9 DEF Closed, Remembered, Opening
  <2>. QED  BY <1>9, <2>1, OpenCallOrderly DEF Closed
<1>. QED  BY <1>1, <1>2, <1>3, <1>4, <1>5, <1>6, <1>7, <1>8, <1>9 DEF Sink

LEMMA CloserOrderly ==
  ASSUME TypeOK, Remembered, StartReopen \/ ReopenLock \/ StartFinalize \/ Finalize \/ FinalizeTimesOut
  PROVE  UNCHANGED at \/ Orderly(Closer)
<1>. Closer \in Procs  BY DEF Procs
<1>1. CASE StartReopen
  BY <1>1, GotoOrderly DEF StartReopen
<1>2. CASE ReopenLock
  BY <1>2, DropAndOpenOrderly DEF ReopenLock
<1>3. CASE StartFinalize
  BY <1>3, GotoOrderly DEF StartFinalize, PumpEntry
<1>4. CASE FinallyClose(Closer, "failed") \/ FinallyClose(Closer, "accepted")
  BY <1>4, FinallyCloseOrderly
<1>5. CASE EndLock
  <2>1. CASE at' = [at EXCEPT ![Closer] = At("end_write", call, EndFrame, "none")]
    <3>1. Moves(Closer) /\ at'[Closer].pc = "end_write"
      BY <2>1, AtFields DEF Moves, TypeOK
    <3>. QED  BY <1>5, <3>1 DEF EndLock, Orderly, Writing, Opening, Finalizing
  <2>. QED  BY <1>4, <1>5, <2>1 DEF EndLock
<1>6. CASE EndWritten
  <2>1. CASE at' = [at EXCEPT ![Closer] = At("half_close", call, Context, "none")]
    <3>1. Moves(Closer) /\ at'[Closer].pc = "half_close" /\ at[Closer].pc = "end_write"
      BY <1>6, <2>1, AtFields DEF EndWritten, Moves, TypeOK
    <3>. QED  BY <3>1 DEF Orderly, Writing, Opening, Finalizing
  <2>. QED  BY <1>4, <1>6, <2>1 DEF EndWritten
<1>7. CASE HalfClosed
  <2>1. CASE at' = [at EXCEPT ![Closer] = At("end_wait", call, Context, "none")]
    <3>1. Moves(Closer) /\ at'[Closer].pc = "end_wait"
      BY <2>1, AtFields DEF Moves, TypeOK
    <3>. QED  BY <3>1, FreePoint
  <2>. QED  BY <1>4, <1>7, <2>1 DEF HalfClosed
<1>8. CASE EndFails \/ EndAccepted
  BY <1>4, <1>8 DEF EndFails, EndAccepted
<1>9. CASE at' = [at EXCEPT ![Closer] = Idle]
  <2>1. Moves(Closer) /\ at'[Closer].pc = "idle"
    BY <1>9, AtFields DEF Moves, TypeOK, Idle
  <2>. QED  BY <2>1, FreePoint
<1>10. CASE EndClosed
  BY <1>9, <1>10 DEF EndClosed
<1>11. CASE FinalizeTimesOut
  BY <1>4, <1>9, <1>11 DEF FinalizeTimesOut
<1>. QED  BY <1>1, <1>2, <1>3, <1>5, <1>6, <1>7, <1>8, <1>10, <1>11 DEF Finalize

LEMMA ReaderOrderly ==
  ASSUME TypeOK, NEW r \in Readers, Frame(r) \/ CancelReader(r)
  PROVE  r \in Procs /\ Orderly(r)
<1>1. r \in Procs
  BY DEF Procs
<1>2. CASE Frame(r)
  BY <1>1, <1>2, GotoOrderly DEF Frame, PumpEntry
<1>3. CASE CancelReader(r)
  <2>1. Moves(r) /\ at'[r].pc = "idle"
    BY <1>1, <1>3, AtFields DEF CancelReader, Moves, TypeOK, Idle
  <2>. QED  BY <1>1, <2>1, FreePoint
<1>. QED  BY <1>1, <1>2, <1>3

LEMMA StepOrderly ==
  ASSUME TypeOK, Remembered, [Next]_vars
  PROVE  UNCHANGED at \/ \E p \in Procs : Orderly(p)
<1>1. ASSUME NEW p \in Procs, Sink(p)
      PROVE  \E q \in Procs : Orderly(q)
  BY <1>1, SinkOrderly
<1>2. ASSUME NEW r \in Readers, Frame(r) \/ CancelReader(r)
      PROVE  \E q \in Procs : Orderly(q)
  BY <1>2, ReaderOrderly
<1>3. CASE StartReopen \/ ReopenLock \/ StartFinalize \/ Finalize \/ FinalizeTimesOut
  BY <1>3, CloserOrderly DEF Procs
<1>4. CASE Gateway \/ \E s \in Streams : Break(s) \/ BreakAfterRead(s)
  BY <1>4 DEF Gateway, CooldownOver, Take, Receive, Accept, Break, BreakAfterRead, client
<1>5. CASE UNCHANGED vars
  BY <1>5 DEF vars, client
<1>. QED  BY <1>1, <1>2, <1>3, <1>4, <1>5 DEF Next, Faults, Finished

LEMMA LocksStep ==
  ASSUME TypeOK, Exclusion, Remembered, [Next]_vars
  PROVE  Exclusion' /\ Remembered'
<1>1. CASE UNCHANGED at
  BY <1>1 DEF Exclusion, Remembered
<1>2. ASSUME NEW p \in Procs, Orderly(p)
      PROVE  Exclusion' /\ Remembered'
  <2>1. ASSUME NEW q \in Procs, q # p
        PROVE  at'[q] = at[q]
    BY <1>2, <2>1 DEF Orderly, Moves
  <2>2. Exclusion'
    BY <1>2, <2>1 DEF Orderly, Exclusion, WriteLockFree, InitLockFree
  <2>3. Remembered'
    BY <1>2, <2>1 DEF Orderly, Remembered
  <2>. QED  BY <2>2, <2>3
<1>. QED  BY <1>1, <1>2, StepOrderly

-----------------------------------------------------------------------------
(* The frame being written.                                                 *)

\* Suspension points without a lock, and a step of p to one of them.
Parked == {"idle", "ensure_lock", "pump_lock", "reconnect_lock", "reopen_lock",
           "end_lock", "end_wait", "end_close"}
Parks(p) == Moves(p) /\ at'[p].pc \in Parked

LEMMA ParkedFacts == Parked \cap Writing = {} /\ Parked \cap Opening = {}
BY DEF Parked, Writing, Opening

LEMMA HelpersPark ==
  ASSUME TypeOK, NEW p \in Procs
  PROVE  /\ \A c : PumpReturns(p, c) => Parks(p)
         /\ \A pc \in Parked : Goto(p, pc) => Parks(p)
         /\ \A why : OpenRaises(p, why, NoStream) => Parks(p)
         /\ \A result : FinallyClose(Closer, result) => Parks(Closer)
         /\ at' = [at EXCEPT ![p] = Idle] => Parks(p)
<1>1. \A c : PumpReturns(p, c) => Parks(p)
  BY PumpReturnsShape, AtFields DEF Parks, Parked, Idle, EndLockAt
<1>2. \A pc \in Parked : Goto(p, pc) => Parks(p)
  BY AtFields DEF Goto, Parks, Moves, TypeOK
<1>3. \A why : OpenRaises(p, why, NoStream) => Parks(p)
  BY OpenRaisesShape, AtFields DEF Parks, Parked, Idle
<1>4. \A result : FinallyClose(Closer, result) => Parks(Closer)
  BY FinallyCloseShape, AtFields DEF Parks, Parked, Idle
<1>5. at' = [at EXCEPT ![p] = Idle] => Parks(p)
  BY AtFields DEF Parks, Parked, Moves, TypeOK, Idle
<1>. QED  BY <1>1, <1>2, <1>3, <1>4, <1>5

\* The steps of p that always park it.
LEMMA StepParks ==
  ASSUME TypeOK, Remembered, NEW p \in Procs,
         \/ OpenWritten(p) \/ OpenFails(p) \/ PumpFails(p)
         \/ p \in Readers /\ (Frame(p) \/ CancelReader(p))
         \/ p = Closer /\ \/ StartReopen \/ (StartFinalize /\ ~UNCHANGED at)
                          \/ HalfClosed \/ EndFails \/ EndAccepted \/ EndClosed
                          \/ FinalizeTimesOut
  PROVE  Parks(p)
<1>0. {"idle", "ensure_lock", "pump_lock", "reopen_lock", "end_lock"} \subseteq Parked
  BY DEF Parked
<1>1. CASE OpenWritten(p)
  <2>1. at[p].why \in {"ensure", "reconnect", "reopen"}
    BY <1>1 DEF OpenWritten, Remembered, Opening
  <2>. QED  BY <1>0, <1>1, <2>1, HelpersPark DEF OpenWritten
<1>2. CASE OpenFails(p)
  BY <1>2, HelpersPark DEF OpenFails, OpenRaises
<1>3. CASE PumpFails(p)
  <2>1. CASE call # NoStream
    BY <1>3, <2>1, AtFields DEF PumpFails, Parks, Parked, Moves, TypeOK
  <2>. QED  BY <1>3, <2>1, HelpersPark DEF PumpFails
<1>4. CASE Frame(p) \/ CancelReader(p)
  BY <1>0, <1>4, HelpersPark DEF Frame, PumpEntry, CancelReader
<1>5. CASE p = Closer /\ (StartReopen \/ (StartFinalize /\ ~UNCHANGED at))
  BY <1>0, <1>5, HelpersPark DEF StartReopen, StartFinalize, PumpEntry
<1>6. CASE p = Closer /\ HalfClosed
  <2>1. CASE at' = [at EXCEPT ![Closer] = At("end_wait", call, Context, "none")]
    BY <1>6, <2>1, AtFields DEF Parks, Parked, Moves, TypeOK
  <2>. QED  BY <1>6, <2>1, HelpersPark DEF HalfClosed
<1>7. CASE p = Closer /\ (EndFails \/ EndAccepted \/ EndClosed \/ FinalizeTimesOut)
  BY <1>7, HelpersPark DEF EndFails, EndAccepted, EndClosed, FinalizeTimesOut
<1>. QED  BY <1>1, <1>2, <1>3, <1>4, <1>5, <1>6, <1>7

\* Nobody starts, or goes on to, the write of a frame.
NoNewPump == \A q \in Procs : at'[q].pc = "pump_write" => at'[q] = at[q]

LEMMA ParksNoNewPump ==
  ASSUME NEW p, \/ Parks(p)
                \/ Moves(p) /\ at'[p].pc \in {"open_lock", "open_write", "closing", "end_write", "half_close"}
  PROVE  NoNewPump
BY DEF Parks, Parked, Moves, NoNewPump

LEMMA OpensNoNewPump ==
  ASSUME TypeOK, NEW p \in Procs, NEW why, OpenCall(p, why) \/ DropAndOpen(p, why)
  PROVE  NoNewPump
<1>1. ASSUME OpenCall(p, why)
      PROVE  NoNewPump
  <2>1. CASE at'[p].pc = "open_lock"
    BY <1>1, <2>1, OpenCallShape, ParksNoNewPump
  <2>2. CASE at'[p] = Idle
    BY <1>1, <2>2, OpenCallShape, ParksNoNewPump, AtFields DEF Idle, Parks, Parked
  <2>. QED  BY <1>1, <2>1, <2>2, OpenCallShape, AtFields
<1>2. CASE DropAndOpen(p, why)
  BY <1>1, <1>2, DropAndOpenShape, ParksNoNewPump, AtFields
<1>. QED  BY <1>1, <1>2

LEMMA TailFacts ==
  ASSUME NEW m \in Seq(Nat), m # <<>>, Increasing(m)
  PROVE  /\ Tail(m) \in Seq(Nat) /\ Increasing(Tail(m))
         /\ Len(Tail(m)) = Len(m) - 1
         /\ \A i \in DOMAIN Tail(m) : i + 1 \in DOMAIN m /\ Tail(m)[i] = m[i + 1] /\ Head(m) < Tail(m)[i]
<1>1. /\ Tail(m) \in Seq(Nat) /\ Len(Tail(m)) = Len(m) - 1
      /\ \A i \in DOMAIN Tail(m) : i + 1 \in DOMAIN m /\ Tail(m)[i] = m[i + 1]
  OBVIOUS
<1>2. \A i \in DOMAIN Tail(m) : Head(m) < Tail(m)[i]
  BY <1>1 DEF Increasing
<1>3. Increasing(Tail(m))
  BY <1>1 DEF Increasing
<1>. QED  BY <1>1, <1>2, <1>3

LEMMA AppendFacts ==
  ASSUME NEW m \in Seq(Nat), NEW x \in Nat, Increasing(m), \A i \in DOMAIN m : m[i] < x
  PROVE  /\ Append(m, x) \in Seq(Nat) /\ Append(m, x) # <<>> /\ Increasing(Append(m, x))
         /\ Append(m, x)[1] = IF m = <<>> THEN x ELSE m[1]
         /\ \A k \in DOMAIN Append(m, x) :
              \/ Append(m, x)[k] = x
              \/ k \in DOMAIN m /\ Append(m, x)[k] = m[k]
<1>1. /\ Append(m, x) \in Seq(Nat) /\ Append(m, x) # <<>> /\ Increasing(Append(m, x))
      /\ DOMAIN Append(m, x) = 1..(Len(m) + 1) /\ Append(m, x)[Len(m) + 1] = x
      /\ \A i \in DOMAIN m : Append(m, x)[i] = m[i]
  BY DEF Increasing
<1>2. CASE m = <<>>
  BY <1>1, <1>2
<1>3. CASE m # <<>>
  <2>1. 1 \in DOMAIN m
    BY <1>3
  <2>2. \A k \in DOMAIN Append(m, x) :
          \/ Append(m, x)[k] = x
          \/ k \in DOMAIN m /\ Append(m, x)[k] = m[k]
    OBVIOUS
  <2>. QED  BY <1>1, <1>3, <2>1, <2>2
<1>. QED  BY <1>2, <1>3

LEMMA OutboxFacts ==
  ASSUME TypeOK
  PROVE  outbox \in Seq(Nat) /\ \A s \in Streams : sent[s] \in Seq(Nat)
<1>1. Frames \subseteq Nat /\ Messages \subseteq Nat
  BY DEF Frames, Messages, Context, EndFrame
<1>2. outbox \in Seq(Frames) /\ \A s \in Streams : sent[s] \in Seq(Messages)
  BY DEF TypeOK
<1>. QED  BY <1>1, <1>2, SeqMonotonic

LEMMA FrameOutbox ==
  ASSUME TypeOK, OutboxOrder, NEW r \in Readers, Frame(r)
  PROVE  /\ OutboxOrder' /\ outbox' # <<>>
         /\ outbox # <<>> => Head(outbox) <= Head(outbox')
         /\ \A k \in DOMAIN outbox' :
              outbox'[k] = enq + 1 \/ \E j \in DOMAIN outbox : outbox'[k] = outbox[j]
<1>1. enq' = enq + 1 /\ enq \in Nat
  BY DEF Frame, TypeOK
<1>2. outbox \in Seq(Nat) /\ Increasing(outbox) /\ \A i \in DOMAIN outbox : outbox[i] < enq + 1
  <2>1. outbox \in Seq(Nat) /\ Increasing(outbox) /\ \A i \in DOMAIN outbox : outbox[i] <= enq
    BY OutboxFacts DEF OutboxOrder
  <2>. QED  BY <1>1, <2>1
<1>3. CASE Len(outbox) < MaxOutbox
  <2>1. outbox' = Append(outbox, enq + 1)
    BY <1>3 DEF Frame
  <2>2. \A k \in DOMAIN outbox' : outbox'[k] = enq + 1 \/ (k \in DOMAIN outbox /\ outbox'[k] = outbox[k])
    BY <1>1, <1>2, <2>1, AppendFacts
  <2>3. OutboxOrder' /\ outbox' # <<>>
    BY <1>1, <1>2, <2>1, <2>2, AppendFacts DEF OutboxOrder
  <2>4. outbox # <<>> => Head(outbox) <= Head(outbox')
    BY <1>1, <1>2, <2>1, <2>2
  <2>. QED  BY <2>2, <2>3, <2>4
<1>4. CASE ~(Len(outbox) < MaxOutbox)
  <2>1. outbox # <<>> /\ outbox' = Append(Tail(outbox), enq + 1)
    BY <1>4 DEF Frame, TypeOK
  <2> DEFINE rest == Tail(outbox)
  <2>2. /\ rest \in Seq(Nat) /\ Increasing(rest)
        /\ \A i \in DOMAIN rest : i + 1 \in DOMAIN outbox /\ rest[i] = outbox[i + 1] /\ Head(outbox) < rest[i]
    BY <1>1, <1>2, <2>1, TailFacts
  <2>3. \A i \in DOMAIN rest : rest[i] < enq + 1
    BY <1>2, <2>2
  <2>. outbox' = Append(rest, enq + 1) /\ enq + 1 \in Nat
    BY <1>1, <2>1
  <2> HIDE DEF rest
  <2>4. \A k \in DOMAIN outbox' : outbox'[k] = enq + 1 \/ (k \in DOMAIN rest /\ outbox'[k] = rest[k])
    BY <2>2, <2>3, AppendFacts
  <2>5. OutboxOrder' /\ outbox' # <<>>
    <3>1. Increasing(outbox') /\ outbox' # <<>>
      BY <2>2, <2>3, AppendFacts
    <3>2. \A k \in DOMAIN outbox' : outbox'[k] <= enq'
      BY <1>1, <1>2, <2>2, <2>4
    <3>. QED  BY <3>1, <3>2 DEF OutboxOrder
  <2>6. Head(outbox) <= Head(outbox')
    <3>1. 1 \in DOMAIN outbox /\ Head(outbox) = outbox[1] /\ Head(outbox') = outbox'[1] /\ 1 \in DOMAIN outbox'
      BY <1>2, <2>1, <2>2, <2>5
    <3>. QED  BY <1>1, <1>2, <2>2, <2>4, <3>1
  <2>7. \A k \in DOMAIN outbox' :
          outbox'[k] = enq + 1 \/ \E j \in DOMAIN outbox : outbox'[k] = outbox[j]
    BY <2>2, <2>4
  <2>. QED  BY <2>5, <2>6, <2>7
<1>. QED  BY <1>3, <1>4

LEMMA OutboxKept ==
  ASSUME TypeOK, PumpHead, OutboxOrder, UNCHANGED <<outbox, enq>>, NoNewPump
  PROVE  PumpHead' /\ OutboxOrder'
BY DEF PumpHead, OutboxOrder, NoNewPump

LEMMA PumpLockOutbox ==
  ASSUME TypeOK, PumpHead, OutboxOrder, NEW p \in Procs, PumpLock(p)
  PROVE  PumpHead' /\ OutboxOrder'
<1>0. UNCHANGED <<outbox, enq>>
  BY DEF PumpLock
<1>1. CASE ~(outbox # <<>> /\ call # NoStream)
  BY <1>0, <1>1, HelpersPark, ParksNoNewPump, OutboxKept DEF PumpLock
<1>2. CASE outbox # <<>> /\ call # NoStream
  <2>1. Moves(p) /\ at'[p].msg = Head(outbox) /\ Head(outbox) \in Frames
    BY <1>2, AtFields DEF PumpLock, Moves, TypeOK
  <2>2. Head(outbox) <= Head(outbox)
    BY <2>1 DEF Frames
  <2>3. PumpHead'
    BY <1>0, <1>2, <2>1, <2>2 DEF PumpHead, Moves
  <2>. QED  BY <1>0, <2>3 DEF OutboxOrder
<1>. QED  BY <1>1, <1>2

LEMMA PumpWrittenOutbox ==
  ASSUME TypeOK, Exclusion, PumpHead, OutboxOrder, NEW p \in Procs, PumpWritten(p)
  PROVE  /\ PumpHead' /\ OutboxOrder'
         /\ \A k \in DOMAIN outbox' : k + 1 \in DOMAIN outbox /\ outbox'[k] = outbox[k + 1]
<1>1. /\ at[p].pc = "pump_write" /\ outbox # <<>> /\ outbox' = Tail(outbox) /\ enq' = enq
      /\ outbox \in Seq(Nat) /\ outbox \in Seq(Frames)
  BY OutboxFacts DEF PumpWritten, PumpHead, TypeOK
<1>2. /\ outbox' \in Seq(Nat) /\ Increasing(outbox')
      /\ \A k \in DOMAIN outbox' : k + 1 \in DOMAIN outbox /\ outbox'[k] = outbox[k + 1]
  BY <1>1, TailFacts DEF OutboxOrder
<1>3. OutboxOrder'
  BY <1>1, <1>2 DEF OutboxOrder
<1>4. \A q \in Procs : at[q].pc = "pump_write" => q = p
  BY <1>1 DEF Exclusion, Writing
<1>5. CASE ~(outbox' # <<>> /\ call # NoStream)
  <2>1. Parks(p)
    BY <1>1, <1>5, HelpersPark DEF PumpWritten
  <2>2. PumpHead'
    BY <1>4, <2>1 DEF PumpHead, Parks, Parked, Moves
  <2>. QED  BY <1>2, <1>3, <2>2
<1>6. CASE outbox' # <<>> /\ call # NoStream
  <2>1. Moves(p) /\ at'[p].msg = Head(outbox')
    BY <1>1, <1>6, AtFields DEF PumpWritten, Moves, TypeOK
  <2>2. Head(outbox') \in Frames /\ Head(outbox') <= Head(outbox')
    <3>1. Tail(outbox) # <<>> /\ Head(Tail(outbox)) \in Frames
      BY <1>1, <1>6
    <3>. QED  BY <1>1, <3>1 DEF Frames
  <2>3. PumpHead'
    BY <1>4, <1>6, <2>1, <2>2 DEF PumpHead, Moves
  <2>. QED  BY <1>2, <1>3, <2>3
<1>. QED  BY <1>5, <1>6

LEMMA OutboxStep ==
  ASSUME TypeOK, Exclusion, Remembered, PumpHead, OutboxOrder, [Next]_vars
  PROVE  PumpHead' /\ OutboxOrder'
<1>1. ASSUME NEW p \in Procs, Sink(p)
      PROVE  PumpHead' /\ OutboxOrder'
  <2>1. CASE EnsureLock(p)
    <3>1. NoNewPump
      BY <2>1, HelpersPark, ParksNoNewPump, OpensNoNewPump DEF EnsureLock, Parked
    <3>. QED  BY <2>1, <3>1, OutboxKept DEF EnsureLock
  <2>2. CASE OpenLock(p)
    <3>1. Moves(p) /\ at'[p].pc = "open_write"
      BY <2>2, AtFields DEF OpenLock, Moves, TypeOK
    <3>. QED  BY <2>2, <3>1, ParksNoNewPump, OutboxKept DEF OpenLock
  <2>3. CASE OpenWritten(p)
    BY <2>3, StepParks, ParksNoNewPump, OutboxKept DEF OpenWritten
  <2>4. CASE OpenFails(p) \/ PumpFails(p)
    BY <2>4, StepParks, ParksNoNewPump, OutboxKept DEF OpenFails, PumpFails
  <2>5. CASE ReconnectLock(p)
    <3>1. NoNewPump
      BY <2>5, HelpersPark, ParksNoNewPump, OpensNoNewPump DEF ReconnectLock
    <3>. QED  BY <2>5, <3>1, OutboxKept DEF ReconnectLock
  <2>6. CASE Closed(p)
    BY <2>6, OpensNoNewPump, OutboxKept DEF Closed
  <2>. QED  BY <1>1, <2>1, <2>2, <2>3, <2>4, <2>5, <2>6, PumpLockOutbox, PumpWrittenOutbox DEF Sink
<1>2. ASSUME NEW r \in Readers, Frame(r)
      PROVE  PumpHead' /\ OutboxOrder'
  <2>1. NoNewPump /\ r \in Procs
    BY <1>2, StepParks, ParksNoNewPump DEF Procs
  <2>2. OutboxOrder' /\ outbox' # <<>> /\ (outbox # <<>> => Head(outbox) <= Head(outbox'))
    BY <1>2, FrameOutbox
  <2>3. Frames \subseteq Nat /\ outbox \in Seq(Frames) /\ outbox' \in Seq(Frames)
    BY <1>2, ReaderStepType DEF TypeOK, Frames
  <2>4. ASSUME NEW q \in Procs, at'[q].pc = "pump_write"
        PROVE  at'[q].msg \in Frames /\ at'[q].msg <= Head(outbox')
    <3>1. at[q].msg \in Frames /\ at[q].msg <= Head(outbox) /\ outbox # <<>> /\ at'[q] = at[q]
      BY <2>1, <2>4 DEF NoNewPump, PumpHead
    <3>2. Head(outbox) \in Frames
      BY <2>3, <3>1
    <3>3. Head(outbox') \in Frames
      BY <2>2, <2>3
    <3>. QED  BY <2>2, <3>1, <3>2, <3>3 DEF Frames
  <2>. QED  BY <2>2, <2>4 DEF PumpHead
<1>3. ASSUME NEW r \in Readers, CancelReader(r)
      PROVE  PumpHead' /\ OutboxOrder'
  BY <1>3, StepParks, ParksNoNewPump, OutboxKept DEF Procs, CancelReader
<1>4. CASE StartReopen \/ (StartFinalize /\ ~UNCHANGED at) \/ HalfClosed \/ EndFails
           \/ EndAccepted \/ EndClosed \/ FinalizeTimesOut
  <2>1. UNCHANGED <<outbox, enq>>
    BY <1>4 DEF StartReopen, StartFinalize, HalfClosed, EndFails, EndAccepted, EndClosed, FinalizeTimesOut
  <2>2. Parks(Closer)
    BY <1>4, StepParks DEF Procs
  <2>. QED  BY <2>1, <2>2, ParksNoNewPump, OutboxKept
<1>5. CASE ReopenLock
  BY <1>5, OpensNoNewPump, OutboxKept DEF ReopenLock, Procs
<1>6. CASE EndLock \/ EndWritten
  <2>1. UNCHANGED <<outbox, enq>>
    BY <1>6 DEF EndLock, EndWritten
  <2>2. \/ FinallyClose(Closer, "failed")
        \/ at' = [at EXCEPT ![Closer] = At("end_write", call, EndFrame, "none")]
        \/ at' = [at EXCEPT ![Closer] = At("half_close", call, Context, "none")]
    BY <1>6 DEF EndLock, EndWritten
  <2>3. Parks(Closer) \/ (Moves(Closer) /\ at'[Closer].pc \in {"end_write", "half_close"})
    BY <2>2, HelpersPark, AtFields DEF Moves, TypeOK, Procs
  <2>. QED  BY <2>1, <2>3, ParksNoNewPump, OutboxKept
<1>7. CASE UNCHANGED <<at, outbox, enq>>
  BY <1>7, OutboxKept DEF NoNewPump
<1>8. CASE Gateway \/ \E s \in Streams : Break(s) \/ BreakAfterRead(s)
  BY <1>7, <1>8 DEF Gateway, CooldownOver, Take, Receive, Accept, Break, BreakAfterRead, client
<1>9. CASE UNCHANGED vars \/ (StartFinalize /\ UNCHANGED at)
  BY <1>7, <1>9 DEF vars, client, StartFinalize
<1>. QED  BY <1>1, <1>2, <1>3, <1>4, <1>5, <1>6, <1>8, <1>9 DEF Next, Finalize, Faults, Finished

-----------------------------------------------------------------------------
(* The streams in hand.                                                     *)

\* Nobody starts to open a stream.
NoNewOpening == \A q \in Procs : at'[q].pc \in Opening => at'[q] = at[q]

\* A step that opens nothing, revives nothing, and leaves nothing live behind
\* if it gives _init_lock back.
LEMMA HandsKept ==
  ASSUME TypeOK, StreamsInHand, OnlyHeldLive, UNCHANGED <<call, chan>>, NoNewOpening,
         InitLockFree' => InitLockFree \/ \A s \in Streams : ~Live(s)',
         \A s \in Streams : Live(s)' => Live(s),
         \A s \in Streams : \/ link'[s] = link[s] \/ link'[s] = "dead"
                            \/ call # NoStream \/ link[s] = "half"
  PROVE  StreamsInHand' /\ OnlyHeldLive'
<1>1. \A q \in Procs : at'[q].pc \in Opening => at'[q] = at[q] /\ at[q].pc \in Opening
  BY DEF NoNewOpening
<1>2. ASSUME NEW q \in Procs, at'[q].pc \in {"open_lock", "open_write"}
      PROVE  chan' = at'[q].stream /\ chan' # NoStream /\ link'[chan'] \in {"open", "dead"}
  <2>1. at'[q] = at[q] /\ at[q].pc \in Opening
    BY <1>1, <1>2 DEF Opening
  <2>2. chan = at[q].stream /\ chan # NoStream /\ link[chan] \in {"open", "dead"} /\ call = NoStream
    BY <1>2, <2>1 DEF StreamsInHand
  <2>. QED  BY <2>1, <2>2 DEF TypeOK
<1>3. StreamsInHand'
  BY <1>1, <1>2 DEF StreamsInHand, Opening
<1>4. OnlyHeldLive'
  BY DEF OnlyHeldLive
<1>. QED  BY <1>3, <1>4

LEMMA ParksOpening ==
  ASSUME NEW p \in Procs,
         Parks(p) \/ (Moves(p) /\ at'[p].pc \in {"pump_write", "end_write", "half_close"})
  PROVE  /\ NoNewOpening
         /\ at[p].pc \notin Opening => (InitLockFree' => InitLockFree)
<1>1. NoNewOpening
  BY DEF Parks, Parked, Moves, NoNewOpening, Opening
<1>2. ASSUME at[p].pc \notin Opening, InitLockFree'
      PROVE  InitLockFree
  BY <1>2 DEF InitLockFree, Parks, Moves
<1>. QED  BY <1>1, <1>2

LEMMA LiveFacts ==
  ASSUME TypeOK
  PROVE  /\ \A s \in Streams : link' = link => (Live(s)' <=> Live(s))
         /\ \A t : link' = Killed(t) =>
              /\ \A s \in Streams : Live(s)' => Live(s) /\ s # t
              /\ \A s \in Streams : link'[s] = link[s] \/ link'[s] = "dead"
<1>1. \A s \in Streams : link' = link => (Live(s)' <=> Live(s))
  BY DEF Live
<1>2. ASSUME NEW t, link' = Killed(t)
      PROVE  /\ \A s \in Streams : Live(s)' => Live(s) /\ s # t
             /\ \A s \in Streams : link'[s] = link[s] \/ link'[s] = "dead"
  BY <1>2 DEF Killed, Live, TypeOK
<1>. QED  BY <1>1, <1>2

\* While a coroutine opens a stream, only that stream can be live.
LEMMA OpenerFacts ==
  ASSUME TypeOK, StreamsInHand, OnlyHeldLive, NEW p \in Procs, at[p].pc \in Opening
  PROVE  /\ call = NoStream
         /\ at[p].pc = "closing" => chan = NoStream /\ \A s \in Streams : ~Live(s)
         /\ at[p].pc # "closing" => chan = at[p].stream /\ chan \in Streams /\ link[chan] \in {"open", "dead"}
<1>1. NoStream \notin Streams
  BY MessageFacts
<1>2. call = NoStream
  BY DEF StreamsInHand
<1>3. at[p].pc = "closing" => chan = NoStream
  BY DEF StreamsInHand
<1>4. at[p].pc # "closing" => chan = at[p].stream /\ chan # NoStream /\ link[chan] \in {"open", "dead"}
  BY DEF StreamsInHand, Opening
<1>5. chan \in Streams \cup {NoStream}
  BY DEF TypeOK
<1>. QED  BY <1>1, <1>2, <1>3, <1>4, <1>5 DEF OnlyHeldLive

LEMMA CancelHands ==
  ASSUME TypeOK, StreamsInHand, OnlyHeldLive, UNCHANGED <<call, chan>>, NEW p \in Procs,
         at' = [at EXCEPT ![p] = Idle],
         link' = IF at[p].pc \in {"open_lock", "open_write", "pump_write"}
                 THEN Killed(at[p].stream) ELSE link
  PROVE  StreamsInHand' /\ OnlyHeldLive'
<1>1. Parks(p)
  BY HelpersPark
<1>2. /\ \A s \in Streams : Live(s)' => Live(s)
      /\ \A s \in Streams : link'[s] = link[s] \/ link'[s] = "dead"
  BY LiveFacts
<1>3. ASSUME at[p].pc \in Opening
      PROVE  \A s \in Streams : ~Live(s)'
  <2>1. CASE at[p].pc = "closing"
    BY <1>2, <1>3, <2>1, OpenerFacts
  <2>2. CASE at[p].pc # "closing"
    <3>1. link' = Killed(chan)
      BY <1>3, <2>2, OpenerFacts DEF Opening
    <3>2. \A s \in Streams : Live(s)' => Live(s) /\ s # chan
      BY <3>1, LiveFacts
    <3>. QED  BY <3>2 DEF OnlyHeldLive
  <2>. QED  BY <2>1, <2>2
<1>. QED  BY <1>1, <1>2, <1>3, ParksOpening, HandsKept

LEMMA OpenCallHands ==
  ASSUME TypeOK, Exclusion, NEW p \in Procs, NEW why, OpenCall(p, why), call' = NoStream,
         at[p].pc \in Opening \/ InitLockFree,
         \A s \in Streams : ~Live(s)
  PROVE  StreamsInHand' /\ OnlyHeldLive'
<1>1. \A q \in Procs : q # p => at'[q] = at[q] /\ at[q].pc \notin Opening
  BY OpenCallShape DEF Exclusion, InitLockFree, Moves
<1>2. ASSUME NEW s \in Unused, at'[p] = At("open_lock", s, Context, why),
             chan' = s, link' = [link EXCEPT ![s] = "open"]
      PROVE  StreamsInHand' /\ OnlyHeldLive'
  <2>1. s \in Streams /\ s # NoStream /\ link'[s] = "open" /\ at'[p].pc = "open_lock" /\ at'[p].stream = s
    BY <1>2, MessageFacts, AtFields DEF Unused, TypeOK
  <2>2. \A t \in Streams : Live(t)' => t = s
    BY <1>2 DEF Live, TypeOK
  <2>3. StreamsInHand'
    BY <1>1, <1>2, <2>1 DEF StreamsInHand, Opening
  <2>4. ~InitLockFree'
    BY <2>1 DEF InitLockFree, Opening
  <2>. QED  BY <1>2, <2>2, <2>3, <2>4 DEF OnlyHeldLive
<1>3. CASE at'[p] = Idle /\ UNCHANGED <<link, chan>>
  <2>1. \A q \in Procs : at'[q].pc \notin Opening
    BY <1>1, <1>3, AtFields DEF Idle, Opening
  <2>2. \A s \in Streams : ~Live(s)'
    BY <1>3 DEF Live
  <2>. QED  BY <2>1, <2>2 DEF StreamsInHand, OnlyHeldLive, Opening
<1>. QED  BY <1>2, <1>3, OpenCallShape

LEMMA DropAndOpenHands ==
  ASSUME TypeOK, Exclusion, StreamsInHand, OnlyHeldLive, NEW p \in Procs, NEW why,
         DropAndOpen(p, why), InitLockFree
  PROVE  StreamsInHand' /\ OnlyHeldLive'
<1>1. call' = NoStream
  BY DEF DropAndOpen
<1>2. CASE chan = NoStream /\ OpenCall(p, why)
  <2>1. \A s \in Streams : ~Live(s)
    BY <1>2, MessageFacts DEF OnlyHeldLive
  <2>. QED  BY <1>1, <1>2, <2>1, OpenCallHands
<1>3. CASE /\ at'[p] = At("closing", chan, Context, why)
           /\ chan # NoStream /\ chan' = NoStream /\ link' = Killed(chan)
  <2>1. \A q \in Procs : q # p => at'[q] = at[q] /\ at[q].pc \notin Opening
    BY DropAndOpenShape DEF InitLockFree, Moves
  <2>2. \A s \in Streams : ~Live(s)'
    BY <1>3, LiveFacts DEF OnlyHeldLive
  <2>3. at'[p].pc = "closing"
    BY <1>3, AtFields
  <2>. QED  BY <1>1, <1>3, <2>1, <2>2, <2>3 DEF StreamsInHand, OnlyHeldLive, Opening
<1>. QED  BY <1>2, <1>3, DropAndOpenShape

LEMMA FinallyCloseHands ==
  ASSUME TypeOK, StreamsInHand, OnlyHeldLive, UNCHANGED <<call, chan>>,
         at[Closer].pc \notin Opening, NEW result, FinallyClose(Closer, result)
  PROVE  StreamsInHand' /\ OnlyHeldLive'
<1>1. Parks(Closer) /\ Closer \in Procs
  BY HelpersPark DEF Procs
<1>2. /\ \A s \in Streams : Live(s)' => Live(s)
      /\ \A s \in Streams : link'[s] = link[s] \/ link'[s] = "dead"
  BY FinallyCloseShape, LiveFacts
<1>. QED  BY <1>1, <1>2, ParksOpening, HandsKept

\* A step that parks p, or goes on to a write, and leaves the streams alone.
LEMMA ParksHands ==
  ASSUME TypeOK, StreamsInHand, OnlyHeldLive, UNCHANGED <<call, chan, link>>, NEW p \in Procs,
         Parks(p) \/ (Moves(p) /\ at'[p].pc \in {"pump_write", "end_write", "half_close"}),
         at[p].pc \notin Opening \/ \A s \in Streams : ~Live(s)
  PROVE  StreamsInHand' /\ OnlyHeldLive'
<1>1. \A s \in Streams : Live(s)' <=> Live(s)
  BY LiveFacts
<1>. QED  BY <1>1, ParksOpening, HandsKept

LEMMA OpenHands ==
  ASSUME TypeOK, Exclusion, StreamsInHand, OnlyHeldLive, NEW p \in Procs,
         OpenLock(p) \/ OpenWritten(p) \/ OpenFails(p), Remembered
  PROVE  StreamsInHand' /\ OnlyHeldLive'
<1>1. UNCHANGED <<chan, link>> /\ at[p].pc \in {"open_lock", "open_write"}
  BY DEF OpenLock, OpenWritten, OpenFails
<1>2. \A s \in Streams : Live(s)' <=> Live(s)
  BY <1>1, LiveFacts
<1>3. /\ call = NoStream /\ chan = at[p].stream /\ chan \in Streams /\ link[chan] \in {"open", "dead"}
  BY <1>1, OpenerFacts DEF Opening
<1>4. \A q \in Procs : q # p => at[q].pc \notin Opening
  BY <1>1 DEF Exclusion, Opening
<1>5. CASE OpenLock(p)
  <2>1. Moves(p) /\ at'[p].pc = "open_write" /\ at'[p].stream = at[p].stream /\ UNCHANGED call
    BY <1>5, AtFields DEF OpenLock, Moves, TypeOK
  <2>2. \A q \in Procs : q # p => at'[q].pc \notin Opening
    BY <1>4, <2>1 DEF Moves
  <2>3. StreamsInHand'
    BY <1>1, <1>3, <2>1, <2>2, MessageFacts DEF StreamsInHand, Opening
  <2>4. ~InitLockFree'
    BY <2>1 DEF InitLockFree, Opening
  <2>. QED  BY <1>1, <1>2, <2>3, <2>4 DEF OnlyHeldLive
<1>6. CASE OpenWritten(p)
  <2>1. Parks(p) /\ call' = chan
    BY <1>3, <1>6, StepParks DEF OpenWritten
  <2>2. \A q \in Procs : at'[q].pc \notin Opening
    BY <1>4, <2>1 DEF Parks, Parked, Moves, Opening
  <2>3. call' # NoStream
    BY <1>3, <2>1, MessageFacts
  <2>4. StreamsInHand'
    BY <1>1, <2>1, <2>2 DEF StreamsInHand, Opening
  <2>. QED  BY <1>1, <1>2, <2>3, <2>4 DEF OnlyHeldLive
<1>7. CASE OpenFails(p)
  <2>1. Parks(p) /\ UNCHANGED call
    BY <1>7, StepParks DEF OpenFails
  <2>2. \A s \in Streams : ~Live(s)
    BY <1>3, <1>7 DEF OpenFails, OnlyHeldLive, Live
  <2>. QED  BY <1>1, <2>1, <2>2, ParksHands
<1>. QED  BY <1>5, <1>6, <1>7

LEMMA SinkHands ==
  ASSUME TypeOK, Exclusion, Remembered, StreamsInHand, OnlyHeldLive, NEW p \in Procs, Sink(p)
  PROVE  StreamsInHand' /\ OnlyHeldLive'
<1>1. CASE EnsureLock(p)
  <2>1. at[p].pc \notin Opening /\ InitLockFree /\ UNCHANGED call
    BY <1>1 DEF EnsureLock, Opening
  <2>2. CASE call # NoStream
    BY <1>1, <2>1, <2>2, HelpersPark, ParksHands DEF EnsureLock, Parked
  <2>3. CASE call = NoStream
    BY <1>1, <2>1, <2>3, OpenCallHands DEF EnsureLock, OnlyHeldLive
  <2>. QED  BY <2>2, <2>3
<1>2. CASE OpenLock(p) \/ OpenWritten(p) \/ OpenFails(p)
  BY <1>2, OpenHands
<1>3. CASE PumpLock(p) \/ PumpWritten(p) \/ PumpFails(p)
  <2>1. UNCHANGED <<call, chan, link>> /\ at[p].pc \notin Opening
    BY <1>3 DEF PumpLock, PumpWritten, PumpFails, Opening
  <2>2. Parks(p) \/ (Moves(p) /\ at'[p].pc = "pump_write")
    <3>1. CASE PumpFails(p)
      BY <3>1, StepParks
    <3>2. ASSUME NEW m, at' = [at EXCEPT ![p] = At("pump_write", call, m, "none")]
          PROVE  Moves(p) /\ at'[p].pc = "pump_write"
      BY <3>2, AtFields DEF Moves, TypeOK
    <3>. QED  BY <1>3, <3>1, <3>2, HelpersPark DEF PumpLock, PumpWritten
  <2>. QED  BY <2>1, <2>2, ParksHands
<1>4. CASE ReconnectLock(p)
  <2>1. at[p].pc \notin Opening /\ InitLockFree
    BY <1>4 DEF ReconnectLock, Opening
  <2>2. CASE call # at[p].stream \/ cooling
    BY <1>4, <2>1, <2>2, HelpersPark, ParksHands DEF ReconnectLock
  <2>. QED  BY <1>4, <2>1, <2>2, DropAndOpenHands DEF ReconnectLock
<1>5. CASE Closed(p)
  <2>1. at[p].pc = "closing" /\ OpenCall(p, at[p].why) /\ UNCHANGED call /\ at[p].pc \in Opening
    BY <1>5 DEF Closed, Opening
  <2>2. call = NoStream /\ \A s \in Streams : ~Live(s)
    BY <2>1, OpenerFacts
  <2>. QED  BY <2>1, <2>2, OpenCallHands
<1>. QED  BY <1>1, <1>2, <1>3, <1>4, <1>5 DEF Sink

LEMMA CloserHands ==
  ASSUME TypeOK, Exclusion, Remembered, StreamsInHand, OnlyHeldLive,
         StartReopen \/ ReopenLock \/ StartFinalize \/ Finalize \/ FinalizeTimesOut
  PROVE  StreamsInHand' /\ OnlyHeldLive'
<1>. Closer \in Procs  BY DEF Procs
<1>1. CASE ReopenLock
  BY <1>1, DropAndOpenHands DEF ReopenLock
<1>2. CASE StartReopen \/ StartFinalize \/ EndClosed
  <2>1. UNCHANGED <<call, chan, link>> /\ at[Closer].pc \notin Opening
    BY <1>2 DEF StartReopen, StartFinalize, EndClosed, Opening
  <2>2. CASE UNCHANGED at
    <3>1. \A s \in Streams : Live(s)' <=> Live(s)
      BY <2>1, LiveFacts
    <3>. QED  BY <2>1, <2>2, <3>1, HandsKept DEF NoNewOpening, InitLockFree
  <2>3. CASE ~UNCHANGED at
    BY <1>2, <2>1, <2>3, StepParks, ParksHands
  <2>. QED  BY <2>2, <2>3
<1>3. CASE EndLock \/ EndWritten
  <2>1. UNCHANGED <<call, chan>> /\ at[Closer].pc \notin Opening
    BY <1>3 DEF EndLock, EndWritten, Opening
  <2>2. CASE FinallyClose(Closer, "failed")
    BY <2>1, <2>2, FinallyCloseHands
  <2>3. CASE ~FinallyClose(Closer, "failed")
    <3>1. /\ UNCHANGED link
          /\ \/ at' = [at EXCEPT ![Closer] = At("end_write", call, EndFrame, "none")]
             \/ at' = [at EXCEPT ![Closer] = At("half_close", call, Context, "none")]
      BY <1>3, <2>3 DEF EndLock, EndWritten
    <3>2. Moves(Closer) /\ at'[Closer].pc \in {"end_write", "half_close"}
      BY <3>1, AtFields DEF Moves, TypeOK
    <3>. QED  BY <2>1, <3>1, <3>2, ParksHands
  <2>. QED  BY <2>2, <2>3
<1>4. CASE HalfClosed
  <2>1. UNCHANGED <<call, chan>> /\ at[Closer].pc \notin Opening
    BY <1>4 DEF HalfClosed, Opening
  <2>2. CASE FinallyClose(Closer, "failed")
    BY <2>1, <2>2, FinallyCloseHands
  <2>3. CASE ~FinallyClose(Closer, "failed")
    <3>1. /\ call # NoStream /\ link[at[Closer].stream] = "open"
          /\ link' = [link EXCEPT ![at[Closer].stream] = "half"]
      BY <1>4, <2>3 DEF HalfClosed
    <3>2. \A s \in Streams : Live(s)' => Live(s)
      BY <3>1 DEF Live, TypeOK
    <3>3. Parks(Closer)
      BY <1>4, StepParks
    <3>. QED  BY <2>1, <3>1, <3>2, <3>3, ParksOpening, HandsKept
  <2>. QED  BY <2>2, <2>3
<1>5. CASE EndFails \/ EndAccepted
  <2>1. /\ UNCHANGED <<call, chan>> /\ at[Closer].pc \notin Opening
        /\ (FinallyClose(Closer, "failed") \/ FinallyClose(Closer, "accepted"))
    BY <1>5 DEF EndFails, EndAccepted, Opening
  <2>. QED  BY <2>1, FinallyCloseHands
<1>6. CASE FinalizeTimesOut
  <2>1. UNCHANGED <<call, chan>>
    BY <1>6 DEF FinalizeTimesOut
  <2>2. CASE at[Closer].pc \in Finalizing
    <3>1. at[Closer].pc \notin Opening /\ FinallyClose(Closer, "failed")
      BY <1>6, <2>2 DEF FinalizeTimesOut, Opening, Finalizing
    <3>. QED  BY <2>1, <3>1, FinallyCloseHands
  <2>3. CASE at[Closer].pc \notin Finalizing
    BY <1>6, <2>1, <2>3, CancelHands DEF FinalizeTimesOut
  <2>. QED  BY <2>2, <2>3
<1>. QED  BY <1>1, <1>2, <1>3, <1>4, <1>5, <1>6 DEF Finalize

LEMMA GatewayHands ==
  ASSUME TypeOK, StreamsInHand, OnlyHeldLive,
         Gateway \/ (\E s \in Streams : Break(s) \/ BreakAfterRead(s)) \/ UNCHANGED vars
  PROVE  StreamsInHand' /\ OnlyHeldLive'
<1>1. UNCHANGED <<call, chan, at>>
  BY DEF Gateway, CooldownOver, Take, Receive, Accept, Break, BreakAfterRead, client, vars
<1>2. /\ \A s \in Streams : Live(s)' => Live(s)
      /\ \A s \in Streams : link'[s] = link[s] \/ link'[s] = "dead" \/ link[s] = "half"
  <2>1. CASE UNCHANGED link
    BY <2>1, LiveFacts
  <2>2. ASSUME NEW t \in Streams, link' = [link EXCEPT ![t] = "dead"]
        PROVE  /\ \A s \in Streams : Live(s)' => Live(s)
               /\ \A s \in Streams : link'[s] = link[s] \/ link'[s] = "dead" \/ link[s] = "half"
    BY <2>2 DEF Live, TypeOK
  <2>3. ASSUME NEW t \in Streams, Accept(t)
        PROVE  /\ \A s \in Streams : Live(s)' => Live(s)
               /\ \A s \in Streams : link'[s] = link[s] \/ link'[s] = "dead" \/ link[s] = "half"
    BY <2>3 DEF Accept, Live, TypeOK
  <2>. QED  BY <2>1, <2>2, <2>3
            DEF Gateway, CooldownOver, Take, Receive, Break, BreakAfterRead, client, vars
<1>. QED  BY <1>1, <1>2, HandsKept DEF NoNewOpening, InitLockFree

LEMMA StreamsStep ==
  ASSUME TypeOK, Exclusion, Remembered, StreamsInHand, OnlyHeldLive, [Next]_vars
  PROVE  StreamsInHand' /\ OnlyHeldLive'
<1>1. ASSUME NEW r \in Readers, Frame(r)
      PROVE  StreamsInHand' /\ OnlyHeldLive'
  BY <1>1, StepParks, ParksHands DEF Procs, Frame, Opening
<1>2. ASSUME NEW r \in Readers, CancelReader(r)
      PROVE  StreamsInHand' /\ OnlyHeldLive'
  BY <1>2, CancelHands DEF Procs, CancelReader
<1>. QED  BY <1>1, <1>2, SinkHands, CloserHands, GatewayHands DEF Next, Faults, Finished
=============================================================================
