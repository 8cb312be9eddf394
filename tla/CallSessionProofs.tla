--------------------------- MODULE CallSessionProofs ---------------------------
(***************************************************************************)
(* The hand-over drives its sink as BrainSink allows, calls a call handed  *)
(* over only when the gateway owns it, and, sink and gateway included,     *)
(* implements MeetingStream - for any readers, streams, frames, limits and *)
(* attempts.                                                               *)
(***************************************************************************)
EXTENDS CallSessionInvariant, BrainSinkOrderProofs

USE CloserAssumption, FramesAssumption, StreamsAssumption, OutboxAssumption, AttemptsAssumption

-----------------------------------------------------------------------------
(* The session's steps are the sink's.                                      *)

LEMMA SessionStepsSink ==
  ASSUME [SessionNext]_svars
  PROVE  [Next]_vars
<1>1. CASE HandOver
  BY <1>1 DEF HandOver, Stop, Left, FinalizeReturned, Wake, AlreadyTaken, NotTaken, Reopened, Unreachable, Next
<1>2. CASE SinkStep
  BY <1>2 DEF SinkStep, Driver, Next
<1>3. CASE Faults
  BY <1>3 DEF Next
<1>4. CASE UNCHANGED svars
  BY <1>4 DEF svars
<1>. QED  BY <1>1, <1>2, <1>3, <1>4 DEF SessionNext, Rest

\* Whatever the hand-over does, it drives the sink only as BrainSink allows;
\* so every theorem about BrainSink holds of a session.
THEOREM SessionDrivesSink == SessionSpec => Spec
<1>1. SessionInit => Init
  BY DEF SessionInit
<1>. QED  BY <1>1, SessionStepsSink, PTL DEF SessionSpec, Spec

\* So the streams of a session, hand-over and reopenings included, exclude each
\* other, keep meeting.v1's order, replay in order and lose no frame uncounted.
THEOREM SessionSafe == SessionSpec => [](OneLiveStream /\ ContractOrder /\ ReplayOrder /\ LossCounted)
BY SessionDrivesSink, StreamsExclude, StreamsInOrder, ReplaysInOrder, LossesCounted, PTL

-----------------------------------------------------------------------------
(* A CallAccepted is of a call the gateway owns.                            *)

\* No new acceptance, except of a call that is taken.
NoNewAcceptance ==
  /\ \A s \in Streams : link'[s] = "done" => link[s] = "done" \/ meeting = "taken"
  /\ outcome' = "accepted" => outcome = "accepted" \/ meeting = "taken"
  /\ at'[Closer].pc = "end_close" /\ at'[Closer].why = "accepted" =>
       at'[Closer] = at[Closer] \/ meeting = "taken"
  /\ at'[Closer].pc = "end_wait" => at'[Closer] = at[Closer] \/ at'[Closer].stream \in Streams

LEMMA TakenForGood ==
  ASSUME [Next]_vars, meeting = "taken"
  PROVE  meeting' = "taken"
<1>1. \A m : Read(m) = "taken"
  BY DEF Read
<1>2. CASE \E s \in Streams : Receive(s) \/ BreakAfterRead(s)
  BY <1>1, <1>2 DEF Receive, BreakAfterRead
<1>3. CASE Take
  BY <1>3 DEF Take
<1>4. CASE UNCHANGED meeting
  BY <1>4
<1>5. ASSUME NEW p \in Procs, Sink(p)
      PROVE  UNCHANGED meeting
  BY <1>5 DEF Sink, EnsureLock, OpenLock, OpenWritten, OpenFails, PumpLock, PumpWritten, PumpFails,
              ReconnectLock, Closed
<1>6. CASE Finalize \/ StartReopen \/ ReopenLock \/ StartFinalize \/ FinalizeTimesOut
  BY <1>4, <1>6 DEF Finalize, EndLock, EndWritten, HalfClosed, EndFails, EndAccepted, EndClosed,
                    StartReopen, ReopenLock, StartFinalize, FinalizeTimesOut
<1>7. ASSUME NEW r \in Readers, Frame(r) \/ CancelReader(r)
      PROVE  UNCHANGED meeting
  BY <1>7 DEF Frame, CancelReader
<1>8. CASE CooldownOver \/ \E s \in Streams : Accept(s) \/ Break(s)
  BY <1>4, <1>8 DEF CooldownOver, Accept, Break
<1>9. CASE UNCHANGED vars
  BY <1>4, <1>9 DEF vars
<1>. QED  BY <1>2, <1>3, <1>4, <1>5, <1>6, <1>7, <1>8, <1>9 DEF Next, Gateway, Faults, Finished

\* The links of a step that kills, opens or leaves streams, as acceptance sees
\* them.
LEMMA LinksAccept ==
  ASSUME TypeOK
  PROVE  /\ \A t : link' = Killed(t) => \A s \in Streams : link'[s] = "done" => link[s] = "done"
         /\ \A t \in Streams : \A l \in LinkStates \ {"done"} :
              link' = [link EXCEPT ![t] = l] => \A s \in Streams : link'[s] = "done" => link[s] = "done"
<1>1. ASSUME NEW t, link' = Killed(t), NEW s \in Streams, link'[s] = "done"
      PROVE  link[s] = "done"
  BY <1>1 DEF Killed, TypeOK
<1>2. ASSUME NEW t \in Streams, NEW l \in LinkStates \ {"done"}, link' = [link EXCEPT ![t] = l],
             NEW s \in Streams, link'[s] = "done"
      PROVE  link[s] = "done"
  BY <1>2 DEF TypeOK
<1>. QED  BY <1>1, <1>2

\* The Closer's place after the helpers, as acceptance sees it.
Elsewhere == at'[Closer].pc \in {"end_close", "end_wait"} => at'[Closer] = at[Closer]

LEMMA HelpersAccept ==
  ASSUME TypeOK, NEW p \in Procs
  PROVE  /\ \A c : PumpReturns(p, c) =>
              Elsewhere /\ (outcome' = "accepted" => outcome = "accepted")
         /\ \A pc \in {"pump_lock", "ensure_lock", "end_lock", "reopen_lock"} : Goto(p, pc) => Elsewhere
         /\ at' = [at EXCEPT ![p] = Idle] => Elsewhere
<1>1. ASSUME NEW c, PumpReturns(p, c)
      PROVE  Elsewhere /\ (outcome' = "accepted" => outcome = "accepted")
  <2>1. Elsewhere
    BY <1>1, PumpReturnsShape, AtFields DEF Moves, Elsewhere, Idle, EndLockAt, Procs
  <2>. QED  BY <1>1, <2>1 DEF PumpReturns
<1>2. ASSUME NEW pc \in {"pump_lock", "ensure_lock", "end_lock", "reopen_lock"}, Goto(p, pc)
      PROVE  Elsewhere
  BY <1>2, AtFields DEF Goto, Elsewhere, TypeOK, Procs
<1>3. at' = [at EXCEPT ![p] = Idle] => Elsewhere
  BY AtFields DEF Idle, Elsewhere, TypeOK, Procs
<1>. QED  BY <1>1, <1>2, <1>3

LEMMA OpenCallAccept ==
  ASSUME TypeOK, NEW p \in Procs, NEW why, OpenCall(p, why)
  PROVE  NoNewAcceptance
<1>1. outcome' = "accepted" => outcome = "accepted"
  BY HelpersAccept DEF OpenCall, OpenRaises
<1>2. Elsewhere
  BY OpenCallShape, AtFields DEF Moves, Elsewhere, Idle, Procs
<1>3. \A s \in Streams : link'[s] = "done" => link[s] = "done"
  BY OpenCallShape, LinksAccept DEF Unused, LinkStates
<1>. QED  BY <1>1, <1>2, <1>3 DEF NoNewAcceptance, Elsewhere

LEMMA DropAndOpenAccept ==
  ASSUME TypeOK, NEW p \in Procs, NEW why, DropAndOpen(p, why)
  PROVE  NoNewAcceptance
<1>1. CASE chan = NoStream
  BY <1>1, OpenCallAccept DEF DropAndOpen
<1>2. CASE chan # NoStream
  <2>1. link' = Killed(chan) /\ outcome' = outcome
    BY <1>2 DEF DropAndOpen
  <2>2. Elsewhere
    BY <1>2, AtFields DEF DropAndOpen, Elsewhere, TypeOK, Procs
  <2>. QED  BY <2>1, <2>2, LinksAccept DEF NoNewAcceptance, Elsewhere
<1>. QED  BY <1>1, <1>2

\* finalize's clean-up delivers what it is given.
LEMMA FinallyCloseAccept ==
  ASSUME TypeOK, NEW result, FinallyClose(Closer, result), result = "accepted" => meeting = "taken"
  PROVE  NoNewAcceptance
<1>. Closer \in Procs  BY DEF Procs
<1>1. CASE chan = NoStream
  BY <1>1, HelpersAccept DEF FinallyClose, NoNewAcceptance, Elsewhere
<1>2. CASE chan # NoStream
  <2>1. /\ link' = Killed(chan) /\ outcome' = outcome
        /\ at'[Closer].pc = "end_close" /\ at'[Closer].why = result
    BY <1>2, AtFields DEF FinallyClose, TypeOK
  <2>. QED  BY <2>1, LinksAccept DEF NoNewAcceptance
<1>. QED  BY <1>1, <1>2

LEMMA SinkAccept ==
  ASSUME TypeOK, Remembered, NEW p \in Procs, Sink(p)
  PROVE  NoNewAcceptance
<1>0. UNCHANGED link /\ Elsewhere /\ (outcome' = "accepted" => outcome = "accepted") => NoNewAcceptance
  BY DEF NoNewAcceptance, Elsewhere
<1>1. CASE EnsureLock(p)
  BY <1>0, <1>1, OpenCallAccept, HelpersAccept DEF EnsureLock
<1>2. CASE OpenLock(p)
  <2>1. Elsewhere
    BY <1>2, AtFields DEF OpenLock, Elsewhere, TypeOK, Procs
  <2>. QED  BY <1>0, <1>2, <2>1 DEF OpenLock
<1>3. CASE OpenWritten(p)
  <2>1. at[p].why \in {"ensure", "reconnect", "reopen"}
    BY <1>3 DEF OpenWritten, Remembered, Opening
  <2>. QED  BY <1>0, <1>3, <2>1, HelpersAccept DEF OpenWritten
<1>4. CASE OpenFails(p)
  BY <1>0, <1>4, HelpersAccept DEF OpenFails, OpenRaises
<1>5. ASSUME NEW pc \in {"pump_write", "reconnect_lock"}, NEW s, NEW m,
             at' = [at EXCEPT ![p] = At(pc, s, m, "none")]
      PROVE  Elsewhere
  BY <1>5, AtFields DEF Elsewhere, TypeOK, Procs
<1>6. CASE PumpLock(p) \/ PumpWritten(p) \/ PumpFails(p)
  BY <1>0, <1>5, <1>6, HelpersAccept DEF PumpLock, PumpWritten, PumpFails
<1>7. CASE ReconnectLock(p)
  BY <1>0, <1>7, DropAndOpenAccept, HelpersAccept DEF ReconnectLock
<1>8. CASE Closed(p)
  BY <1>8, OpenCallAccept DEF Closed
<1>. QED  BY <1>1, <1>2, <1>3, <1>4, <1>6, <1>7, <1>8 DEF Sink

LEMMA CloserAccept ==
  ASSUME TypeOK, Owned, OnlyHeldLive, WritesOpened,
         StartReopen \/ ReopenLock \/ StartFinalize \/ Finalize \/ FinalizeTimesOut
  PROVE  NoNewAcceptance
<1>. Closer \in Procs  BY DEF Procs
<1>0. UNCHANGED link /\ Elsewhere /\ (outcome' = "accepted" => outcome = "accepted") => NoNewAcceptance
  BY DEF NoNewAcceptance, Elsewhere
<1>1. CASE StartReopen \/ StartFinalize
  <2>1. UNCHANGED at => Elsewhere
    BY DEF Elsewhere
  <2>. QED  BY <1>0, <1>1, <2>1, HelpersAccept DEF StartReopen, StartFinalize, PumpEntry
<1>2. CASE ReopenLock
  BY <1>2, DropAndOpenAccept DEF ReopenLock
<1>3. ASSUME NEW pc \in {"end_write", "half_close"}, NEW s, NEW m,
             at' = [at EXCEPT ![Closer] = At(pc, s, m, "none")]
      PROVE  Elsewhere
  BY <1>3, AtFields DEF Elsewhere, TypeOK
<1>4. CASE EndLock \/ EndWritten
  BY <1>0, <1>3, <1>4, FinallyCloseAccept DEF EndLock, EndWritten
<1>5. CASE HalfClosed
  <2>1. CASE call = NoStream
    BY <1>5, <2>1, FinallyCloseAccept DEF HalfClosed
  <2>2. CASE call # NoStream
    <3>1. /\ link' = [link EXCEPT ![at[Closer].stream] = "half"] /\ outcome' = outcome
          /\ at[Closer].stream \in Streams
      BY <1>5, <2>2 DEF HalfClosed, WritesOpened
    <3>2. at'[Closer].pc = "end_wait" /\ at'[Closer].stream \in Streams
      BY <1>5, <2>2, AtFields DEF HalfClosed, TypeOK
    <3>. QED  BY <3>1, <3>2, LinksAccept DEF NoNewAcceptance, LinkStates
  <2>. QED  BY <2>1, <2>2
<1>6. CASE EndFails
  BY <1>6, FinallyCloseAccept DEF EndFails
<1>7. CASE EndAccepted
  <2>1. meeting = "taken"
    BY <1>7 DEF EndAccepted, Owned
  <2>. QED  BY <1>7, <2>1, FinallyCloseAccept DEF EndAccepted
<1>8. CASE EndClosed
  BY <1>8, HelpersAccept DEF EndClosed, NoNewAcceptance, Elsewhere, Owned
<1>9. CASE FinalizeTimesOut
  <2>1. CASE at[Closer].pc \in Finalizing
    BY <1>9, <2>1, FinallyCloseAccept DEF FinalizeTimesOut
  <2>2. CASE at[Closer].pc \notin Finalizing
    BY <1>9, <2>2, LinksAccept, HelpersAccept DEF FinalizeTimesOut, NoNewAcceptance, Elsewhere
  <2>. QED  BY <2>1, <2>2
<1>. QED  BY <1>1, <1>2, <1>4, <1>5, <1>6, <1>7, <1>8, <1>9 DEF Finalize

LEMMA OthersAccept ==
  ASSUME TypeOK,
         \/ \E r \in Readers : Frame(r) \/ CancelReader(r)
         \/ Gateway \/ (\E s \in Streams : Break(s) \/ BreakAfterRead(s)) \/ UNCHANGED vars
  PROVE  NoNewAcceptance
<1>1. ASSUME NEW r \in Readers, Frame(r) \/ CancelReader(r)
      PROVE  NoNewAcceptance
  <2>1. at'[Closer] = at[Closer] /\ outcome' = outcome
    BY <1>1 DEF Frame, CancelReader, PumpEntry, Goto, TypeOK, Procs
  <2>. QED  BY <1>1, <2>1, LinksAccept DEF Frame, CancelReader, NoNewAcceptance
<1>2. ASSUME NEW s \in Streams, Receive(s) \/ Break(s) \/ BreakAfterRead(s)
      PROVE  NoNewAcceptance
  BY <1>2, LinksAccept DEF Receive, Break, BreakAfterRead, NoNewAcceptance, LinkStates, client
<1>3. ASSUME NEW s \in Streams, Accept(s)
      PROVE  NoNewAcceptance
  BY <1>3 DEF Accept, NoNewAcceptance, client
<1>4. CASE CooldownOver \/ Take \/ UNCHANGED vars
  BY <1>4 DEF CooldownOver, Take, NoNewAcceptance, client, vars
<1>. QED  BY <1>1, <1>2, <1>3, <1>4 DEF Gateway

LEMMA OwnedStep ==
  ASSUME IInv, Owned, [Next]_vars
  PROVE  Owned'
<1>. USE DEF IInv
<1>1. NoNewAcceptance
  BY SinkAccept, CloserAccept, OthersAccept DEF Next, Faults, Finished
<1>. QED  BY <1>1, TakenForGood DEF NoNewAcceptance, Owned

-----------------------------------------------------------------------------
(* What the gateway reads.                                                  *)

\* The gateway reads the next message of s, written before or right now.
Reads(s) ==
  /\ Live(s) /\ enq' = enq
  /\ rcvd' = [rcvd EXCEPT ![s] = @ + 1]
  /\ rcvd[s] + 1 <= Len(sent'[s])
  /\ meeting' = Read(sent'[s][rcvd[s] + 1])

\* It hears nothing; frames may be captured.
HearsNothing ==
  /\ rcvd' = rcvd
  /\ (meeting' = meeting /\ enq' \in {enq, enq + 1}) \/ Take

LEMMA StepReads ==
  ASSUME TypeOK, [Next]_vars
  PROVE  HearsNothing \/ \E s \in Streams : Reads(s)
<1>1. ASSUME NEW s \in Streams, Receive(s)
      PROVE  Reads(s)
  <2>1. rcvd[s] + 1 <= Len(sent[s])
    BY <1>1 DEF Receive, TypeOK
  <2>. QED  BY <1>1, <2>1 DEF Receive, Reads, client
<1>2. ASSUME NEW s \in Streams, BreakAfterRead(s)
      PROVE  Reads(s)
  <2>1. PICK p \in Procs : sent' = [sent EXCEPT ![s] = Append(@, at[p].msg)] /\ meeting' = Read(at[p].msg)
    BY <1>2 DEF BreakAfterRead
  <2>2. sent[s] \in Seq(Messages) /\ at[p].msg \in Messages /\ rcvd[s] = Len(sent[s]) /\ sent \in [Streams -> Seq(Messages)]
    BY <1>2 DEF BreakAfterRead, TypeOK, Suspension
  <2>3. sent'[s] = Append(sent[s], at[p].msg)
    BY <2>1, <2>2
  <2>4. rcvd[s] + 1 <= Len(sent'[s]) /\ sent'[s][rcvd[s] + 1] = at[p].msg
    BY <2>2, <2>3
  <2>. QED  BY <1>2, <2>1, <2>4 DEF BreakAfterRead, Reads, Live, client
<1>3. CASE Take
  BY <1>3 DEF Take, HearsNothing
<1>4. CASE UNCHANGED <<rcvd, meeting, enq>>
  BY <1>4 DEF HearsNothing
<1>5. ASSUME NEW p \in Procs, Sink(p)
      PROVE  UNCHANGED <<rcvd, meeting, enq>>
  BY <1>5 DEF Sink, EnsureLock, OpenLock, OpenWritten, OpenFails, PumpLock, PumpWritten, PumpFails,
              ReconnectLock, Closed
<1>6. CASE Finalize \/ StartReopen \/ ReopenLock \/ StartFinalize \/ FinalizeTimesOut
  BY <1>4, <1>6 DEF Finalize, EndLock, EndWritten, HalfClosed, EndFails, EndAccepted, EndClosed,
                    StartReopen, ReopenLock, StartFinalize, FinalizeTimesOut
<1>7. ASSUME NEW r \in Readers, Frame(r) \/ CancelReader(r)
      PROVE  HearsNothing
  BY <1>7 DEF Frame, CancelReader, HearsNothing
<1>8. CASE CooldownOver \/ (\E s \in Streams : Accept(s) \/ Break(s)) \/ UNCHANGED vars
  BY <1>4, <1>8 DEF CooldownOver, Accept, Break, client, vars
<1>. QED  BY <1>1, <1>2, <1>3, <1>4, <1>5, <1>6, <1>7, <1>8 DEF Next, Gateway, Faults, Finished

\* What is on a stream stays there.
Grows ==
  \A s \in Streams : /\ Len(sent[s]) <= Len(sent'[s])
                     /\ \A i \in 1..Len(sent[s]) : sent'[s][i] = sent[s][i]

LEMMA StepGrows ==
  ASSUME IInv, [Next]_vars
  PROVE  Grows
<1>. USE DEF IInv
<1>1. \A s \in Streams : sent[s] \in Seq(Nat) /\ Len(sent[s]) \in Nat
  BY Numbers
<1>2. CASE Quiet
  BY <1>1, <1>2 DEF Quiet, Grows
<1>3. ASSUME NEW p \in Procs, NEW s \in Streams, Writes(p, s)
      PROVE  Grows
  <2>1. sent'[s] = Append(sent[s], at[p].msg) /\ \A t \in Streams : t # s => sent'[t] = sent[t]
    BY <1>3 DEF Writes, TypeOK
  <2>2. Len(sent[s]) <= Len(sent'[s]) /\ \A i \in 1..Len(sent[s]) : sent'[s][i] = sent[s][i]
    BY <1>1, <2>1, Numbers
  <2>3. \A t \in Streams : t # s => Len(sent[t]) <= Len(sent'[t])
    BY <1>1, <2>1
  <2>. QED  BY <2>1, <2>2, <2>3 DEF Grows
<1>. QED  BY <1>2, <1>3, StepWrites

LEMMA NewestIs ==
  ASSUME NEW T \in SUBSET Int, NEW s \in T, \A t \in T : t <= s
  PROVE  Newest(T) = s
<1>1. Newest(T) \in T /\ \A t \in T : t <= Newest(T)
  BY DEF Newest
<1>2. Newest(T) <= s /\ s <= Newest(T) /\ Newest(T) \in Int /\ s \in Int
  BY <1>1
<1>. QED  BY <1>2

\* Where nothing is read, the gateway has heard what it had.
LEMMA HeardKept ==
  ASSUME TypeOK, ReadSoFar, Grows, NEW s \in Streams, rcvd'[s] = rcvd[s]
  PROVE  Heard(s)' = Heard(s) /\ \A i \in 1..rcvd[s] : sent'[s][i] = sent[s][i]
<1>1. \A i \in 1..rcvd[s] : i \in 1..Len(sent[s])
  BY Numbers DEF ReadSoFar, TypeOK
<1>2. \A i \in 1..rcvd[s] : sent'[s][i] = sent[s][i]
  BY <1>1 DEF Grows
<1>. QED  BY <1>2 DEF Heard

\* Nothing read, or no frame.
LEMMA LastKept ==
  ASSUME TypeOK, ReadSoFar, Grows,
         \A s \in Streams : Heard(s)' = Heard(s)
  PROVE  Spoke' = Spoke /\ LastHeard' = LastHeard
<1>1. Spoke' = Spoke
  BY DEF Spoke
<1>2. CASE Spoke = {}
  BY <1>1, <1>2 DEF LastHeard
<1>3. CASE Spoke # {}
  <2> DEFINE u == Newest(Spoke)
             k == Newest(Heard(u))
  <2>1. u \in Spoke /\ u \in Streams /\ Heard(u) # {} /\ k \in Heard(u)
    BY <1>3 DEF ReadSoFar, Spoke
  <2>2. k \in 1..Len(sent[u])
    BY <2>1, Numbers DEF ReadSoFar, Heard, TypeOK
  <2>3. sent'[u][k] = sent[u][k]
    BY <2>1, <2>2 DEF Grows
  <2>4. Newest(Spoke)' = u
    BY <1>1 DEF Newest
  <2>5. Newest(Heard(u))' = k
    BY <2>1, <2>4 DEF Newest
  <2>. QED  BY <1>1, <1>3, <2>3, <2>4, <2>5 DEF LastHeard
<1>. QED  BY <1>2, <1>3

LEMMA NothingHeard ==
  ASSUME TypeOK, ReadSoFar, Grows, HearsNothing
  PROVE  LastHeard' = LastHeard /\ Begun' = Begun /\ Resumed' = Resumed
<1>1. \A s \in Streams : rcvd'[s] = rcvd[s] /\ Heard(s)' = Heard(s)
  BY HeardKept DEF HearsNothing
<1>2. LastHeard' = LastHeard
  BY <1>1, LastKept
<1>3. Begun' = Begun
  BY <1>1 DEF Begun
<1>4. Newest(Begun)' = Newest(Begun)
  BY <1>3 DEF Newest
<1>5. Begun # {} => Heard(Newest(Begun))' = Heard(Newest(Begun))
  BY <1>1, <1>4 DEF ReadSoFar, Begun
<1>6. Resumed' <=> Resumed
  BY <1>3, <1>5 DEF Resumed
<1>7. Resumed \in BOOLEAN /\ Resumed' \in BOOLEAN
  BY DEF Resumed
<1>. QED  BY <1>2, <1>3, <1>6, <1>7

\* The stream read is the newest the gateway knows, and what it reads there
\* comes in meeting.v1's order.
LEMMA ReadFacts ==
  ASSUME RInv, RInv', ReadSoFar, Grows, NEW s \in Streams, Reads(s)
  PROVE  /\ rcvd[s] \in Nat /\ rcvd'[s] = rcvd[s] + 1
         /\ \A t \in Streams \ {s} : rcvd'[t] = rcvd[t] /\ Heard(t)' = Heard(t)
         /\ Begun' = Begun \cup {s} /\ Newest(Begun)' = s
         /\ \A t \in Begun : t <= s
         /\ sent'[s][rcvd[s] + 1] \in Messages
         /\ sent'[s][rcvd[s] + 1] = Context <=> rcvd[s] = 0
<1>. USE DEF RInv, IInv
<1>. \A t \in Streams : t \in Int
  BY DEF Streams
<1>1. rcvd[s] \in Nat /\ rcvd'[s] = rcvd[s] + 1 /\ \A t \in Streams \ {s} : rcvd'[t] = rcvd[t]
  BY DEF Reads, TypeOK
<1>2. \A t \in Streams \ {s} : Heard(t)' = Heard(t)
  BY <1>1, HeardKept
<1>3. s = chan
  BY DEF Reads, OnlyHeldLive
<1>4. ASSUME NEW t \in Streams, s < t
      PROVE  rcvd[t] = 0
  <2>1. sent[t] = <<>>
    BY <1>3, <1>4, MessageFacts DEF InTurn, SentOrder
  <2>2. rcvd[t] <= 0 /\ rcvd[t] \in Nat
    BY <2>1 DEF ReadSoFar, TypeOK
  <2>. QED  BY <2>2
<1>5. \A t \in Begun : t <= s
  BY <1>4 DEF Begun
<1>6. Begun' = Begun \cup {s}
  BY <1>1 DEF Begun
<1>7. Newest(Begun)' = s
  <2>1. Begun' \in SUBSET Int /\ s \in Begun' /\ \A t \in Begun' : t <= s
    BY <1>5, <1>6 DEF Begun
  <2>2. Newest(Begun') = s
    BY <2>1, NewestIs
  <2>. QED  BY <2>2 DEF Newest
<1> DEFINE n == rcvd[s] + 1
           m == sent'[s][n]
<1>8. sent'[s] \in Seq(Messages) /\ n \in DOMAIN sent'[s] /\ 1 \in DOMAIN sent'[s] /\ sent'[s] # <<>>
  BY <1>1 DEF Reads, TypeOK
<1>9. m \in Messages
  BY <1>8
<1>10. m = Context <=> rcvd[s] = 0
  <2>1. Increasing(sent'[s]) /\ sent'[s][1] = Context
    BY <1>8 DEF SentOrder
  <2>2. 1 < n => Context < m
    BY <1>8, <2>1 DEF Increasing
  <2>. QED  BY <1>1, <2>1, <2>2 DEF Context
<1>. QED  BY <1>1, <1>2, <1>5, <1>6, <1>7, <1>9, <1>10

\* A message that is no frame leaves what was heard.
LEMMA ReadSilence ==
  ASSUME RInv, RInv', ReadSoFar, Grows, NEW s \in Streams, Reads(s),
         sent'[s][rcvd[s] + 1] \notin Frames
  PROVE  LastHeard' = LastHeard /\ Spoke' = Spoke /\ \A t \in Streams : Heard(t)' = Heard(t)
<1>. USE DEF RInv, IInv
<1>1. \A i \in 1..rcvd[s] : sent'[s][i] = sent[s][i]
  <2>1. \A i \in 1..rcvd[s] : i \in 1..Len(sent[s])
    BY Numbers DEF ReadSoFar, TypeOK
  <2>. QED  BY <2>1 DEF Grows
<1>2. Heard(s)' = Heard(s)
  <2>1. Heard(s)' = {i \in 1..(rcvd[s] + 1) : sent'[s][i] \in Frames}
    BY ReadFacts DEF Heard
  <2>2. rcvd[s] \in Nat
    BY ReadFacts
  <2>3. ASSUME NEW i \in Heard(s)'
        PROVE  i \in Heard(s)
    <3>1. i \in 1..rcvd[s]
      BY <2>1, <2>2
    <3>. QED  BY <1>1, <2>1, <3>1 DEF Heard
  <2>4. ASSUME NEW i \in Heard(s)
        PROVE  i \in Heard(s)'
    <3>1. i \in 1..rcvd[s] /\ sent[s][i] \in Frames
      BY DEF Heard
    <3>. QED  BY <1>1, <2>1, <2>2, <3>1
  <2>. QED  BY <2>3, <2>4
<1>3. \A t \in Streams : Heard(t)' = Heard(t)
  BY <1>2, ReadFacts
<1>. QED  BY <1>3, LastKept

\* A frame is the last heard.
LEMMA ReadFrame ==
  ASSUME RInv, RInv', ReadSoFar, Grows, NEW s \in Streams, Reads(s),
         sent'[s][rcvd[s] + 1] \in Frames
  PROVE  /\ LastHeard' = sent'[s][rcvd[s] + 1] /\ ~Resumed'
         /\ Newest(Heard(s)') \in Heard(s)'
         /\ Newest(Spoke') \in Spoke'
         /\ Spoke' = Spoke \cup {s}
<1>. USE DEF RInv, IInv
<1>. \A t \in Streams : t \in Int
  BY DEF Streams
<1> DEFINE n == rcvd[s] + 1
<1>1. Heard(s)' = {i \in 1..n : sent'[s][i] \in Frames} /\ rcvd[s] \in Nat
  BY ReadFacts DEF Heard
<1>2. n \in Heard(s)' /\ Heard(s)' \in SUBSET Int /\ \A i \in Heard(s)' : i <= n
  BY <1>1
<1>3. Newest(Heard(s)') = n
  BY <1>2, NewestIs
<1>4. Spoke' = Spoke \cup {s}
  BY <1>2, ReadFacts DEF Spoke
<1>5. \A t \in Spoke : t \in Begun
  BY DEF Spoke, Begun, Heard, TypeOK
<1>6. Newest(Spoke') = s
  <2>1. Spoke' \in SUBSET Int /\ s \in Spoke' /\ \A t \in Spoke' : t <= s
    BY <1>4, <1>5, ReadFacts DEF Spoke
  <2>. QED  BY <2>1, NewestIs
<1>7. Newest(Spoke)' = s /\ Newest(Heard(s))' = n
  BY <1>3, <1>6 DEF Newest
<1>8. LastHeard' = sent'[s][n]
  BY <1>4, <1>7 DEF LastHeard
<1>9. ~Resumed'
  BY <1>2, ReadFacts DEF Resumed
<1>. QED  BY <1>2, <1>3, <1>4, <1>6, <1>8, <1>9

LEMMA ReadSoFarStep ==
  ASSUME RInv, RInv', ReadSoFar, [Next]_vars
  PROVE  ReadSoFar'
<1>. USE DEF RInv, IInv
<1>0. Grows
  BY StepGrows
<1>1. \A t \in Streams : rcvd[t] \in Nat /\ Len(sent[t]) \in Nat /\ Len(sent'[t]) \in Nat
  <2>1. TypeOK /\ TypeOK'
    OBVIOUS
  <2>2. \A t \in Streams : rcvd[t] \in Nat /\ sent[t] \in Seq(Messages) /\ sent'[t] \in Seq(Messages)
    BY <2>1 DEF TypeOK
  <2>. QED  BY <2>2
<1>2. CASE HearsNothing
  <2>1. \A t \in Streams : rcvd'[t] = rcvd[t] /\ Heard(t)' = Heard(t)
    BY <1>0, <1>2, HeardKept DEF HearsNothing
  <2>2. meeting' = meeting \/ meeting' = "taken"
    BY <1>2 DEF HearsNothing, Take
  <2>3. Spoke' = Spoke /\ Begun' = Begun
    BY <2>1 DEF Spoke, Begun
  <2>4. Newest(Begun)' = Newest(Begun) /\ Newest(Spoke)' = Newest(Spoke)
    BY <2>3 DEF Newest
  <2>5. \A t \in Streams : Newest(Heard(t))' = Newest(Heard(t))
    BY <2>1 DEF Newest
  <2>6. \A t \in Streams : rcvd[t] <= Len(sent'[t])
    BY <1>0, <1>1 DEF Grows, ReadSoFar
  <2>. QED  BY <2>1, <2>2, <2>3, <2>4, <2>5, <2>6 DEF ReadSoFar
<1>3. ASSUME NEW s \in Streams, Reads(s)
      PROVE  ReadSoFar'
  <2> DEFINE m == sent'[s][rcvd[s] + 1]
  <2>1. ASSUME NEW t \in Streams
        PROVE  rcvd'[t] <= Len(sent'[t])
    BY <1>0, <1>1, <1>3, ReadFacts DEF Grows, ReadSoFar, Reads
  <2>2. ASSUME NEW t \in Streams, rcvd'[t] > 0
        PROVE  meeting' # "absent"
    <3>1. CASE rcvd[s] = 0
      BY <1>0, <1>3, <3>1, ReadFacts DEF Reads, Read
    <3>2. CASE rcvd[s] > 0
      BY <1>3, <3>2 DEF Reads, Read, ReadSoFar
    <3>. QED  BY <1>1, <3>1, <3>2
  <2>3. Newest(Begun)' \in Begun'
    BY <1>0, <1>3, ReadFacts
  <2>4. CASE m \notin Frames
    <3>1. Spoke' = Spoke /\ \A t \in Streams : Heard(t)' = Heard(t)
      BY <1>0, <1>3, <2>4, ReadSilence
    <3>2. /\ Newest(Spoke)' = Newest(Spoke)
          /\ \A t \in Streams : Newest(Heard(t))' = Newest(Heard(t))
      BY <3>1 DEF Newest
    <3>. QED  BY <2>1, <2>2, <2>3, <3>1, <3>2 DEF ReadSoFar
  <2>5. CASE m \in Frames
    <3>1. Newest(Heard(s)') \in Heard(s)' /\ Newest(Spoke') \in Spoke'
      BY <1>0, <1>3, <2>5, ReadFrame
    <3>2. \A t \in Streams \ {s} : Heard(t)' = Heard(t)
      BY <1>0, <1>3, ReadFacts
    <3>3. \A t \in Streams \ {s} : Newest(Heard(t))' = Newest(Heard(t))
      BY <3>2 DEF Newest
    <3>4. Newest(Spoke)' \in Spoke' /\ Newest(Heard(s))' \in Heard(s)'
      BY <3>1 DEF Newest
    <3>. QED  BY <2>1, <2>2, <2>3, <3>2, <3>3, <3>4 DEF ReadSoFar
  <2>. QED  BY <2>4, <2>5
<1>. QED  BY <1>2, <1>3, StepReads

-----------------------------------------------------------------------------
(* The session's invariant.                                                 *)

\* The hand-over's own variables.
LEMMA SessionTypeStep ==
  ASSUME SessionTypeOK, TypeOK', Undecided, [SessionNext]_svars
  PROVE  SessionTypeOK' /\ Undecided'
<1>0. /\ \A ph \in {"live", "leaving", "handing", "sleeping", "asking", "reopening", "done"} : ph \in Phases
      /\ \A v \in {"open", "accepted", "taken", "none", "gaveup"} : v \in Verdicts
  BY DEF Phases, Verdicts
<1>1. CASE NextAttempt /\ phase # "done"
  <2>1. attempt \in Nat /\ MaxAttempts \in Nat /\ attempt <= MaxAttempts /\ verdict = "open"
    BY <1>1 DEF SessionTypeOK, Undecided
  <2>2. attempt' \in 0..MaxAttempts
    BY <1>1, <2>1 DEF NextAttempt, Settle
  <2>. QED  BY <1>0, <1>1, <2>1, <2>2 DEF NextAttempt, Settle, SessionTypeOK, Undecided
<1>2. ASSUME NEW v \in Verdicts, Settle(v)
      PROVE  SessionTypeOK' /\ Undecided'
  BY <1>0, <1>2 DEF Settle, SessionTypeOK, Undecided
<1>3. CASE Stop \/ Left \/ Wake \/ NotTaken \/ Reopened
  BY <1>0, <1>3 DEF Stop, Left, Wake, NotTaken, Reopened, SessionTypeOK, Undecided
<1>4. CASE FinalizeReturned \/ AlreadyTaken \/ Unreachable
  BY <1>0, <1>1, <1>2, <1>4 DEF FinalizeReturned, AlreadyTaken, Unreachable
<1>5. CASE UNCHANGED session
  BY <1>5 DEF session, SessionTypeOK, Undecided
<1>. QED  BY <1>3, <1>4, <1>5 DEF SessionNext, HandOver, Rest, svars

\* A verdict comes of an answer, or of finalize's outcome.
LEMMA VerdictStep ==
  ASSUME Owned, Undecided, [SessionNext]_svars
  PROVE  \/ verdict' = verdict
         \/ verdict = "open" /\ verdict' \in {"none", "gaveup"}
         \/ verdict' \in {"accepted", "taken"} /\ meeting = "taken" /\ UNCHANGED vars
<1>1. CASE NextAttempt /\ phase # "done"
  BY <1>1 DEF NextAttempt, Settle, Undecided
<1>2. CASE FinalizeReturned
  BY <1>1, <1>2 DEF FinalizeReturned, Settle, Undecided, Owned
<1>3. CASE AlreadyTaken
  BY <1>3 DEF AlreadyTaken, Settle
<1>4. CASE Unreachable
  BY <1>1, <1>4 DEF Unreachable
<1>5. CASE Stop \/ Left \/ Wake \/ NotTaken \/ Reopened \/ UNCHANGED session
  BY <1>5 DEF Stop, Left, Wake, NotTaken, Reopened, session
<1>. QED  BY <1>2, <1>3, <1>4, <1>5 DEF SessionNext, HandOver, Rest, svars

LEMMA SessionStep ==
  ASSUME SInv, [SessionNext]_svars
  PROVE  SInv'
<1>. USE DEF SInv
<1>1. [Next]_vars
  BY SessionStepsSink
<1>2. RInv' /\ Owned'
  BY <1>1, ReplayStep, OwnedStep DEF RInv
<1>3. ReadSoFar'
  BY <1>1, <1>2, ReadSoFarStep
<1>4. SessionTypeOK' /\ Undecided'
  BY <1>2, SessionTypeStep DEF RInv, IInv
<1>5. SettledMeansTaken'
  <2>1. meeting = "taken" => meeting' = "taken"
    BY <1>1, TakenForGood
  <2>. QED  BY <2>1, VerdictStep DEF SettledMeansTaken
<1>. QED  BY <1>2, <1>3, <1>4, <1>5

LEMMA SessionInvariantInit == SessionInit => SInv
<1> SUFFICES ASSUME SessionInit PROVE SInv
  OBVIOUS
<1>1. RInv
  BY ReplayInit DEF SessionInit
<1>2. /\ \A s \in Streams : link[s] = "none" /\ rcvd[s] = 0 /\ sent[s] = <<>>
      /\ at[Closer].pc = "idle" /\ outcome = "never"
  BY AtFields DEF SessionInit, Init, Idle, Procs
<1>3. Owned
  BY <1>2 DEF Owned
<1>4. \A s \in Streams : Heard(s) = {}
  BY <1>2 DEF Heard
<1>5. Spoke = {} /\ Begun = {}
  BY <1>2, <1>4 DEF Spoke, Begun
<1>6. ReadSoFar
  BY <1>2, <1>4, <1>5 DEF ReadSoFar
<1>7. SessionTypeOK /\ Undecided /\ SettledMeansTaken
  BY <1>1 DEF RInv, IInv, SessionTypeOK, Undecided, SettledMeansTaken, SessionInit, Phases, Verdicts
<1>. QED  BY <1>1, <1>3, <1>6, <1>7 DEF SInv

\* The whole invariant of a session, its sink and its gateway.
THEOREM SessionInvariant == SessionSpec => []SInv
BY SessionInvariantInit, SessionStep, PTL DEF SessionSpec

\* Every variable of a session keeps its type.
THEOREM SessionTypeCorrect == SessionSpec => []SessionTypeOK
<1>1. SInv => SessionTypeOK
  BY DEF SInv
<1>. QED  BY <1>1, SessionInvariant, PTL

\* A call is called handed over only when the gateway durably owns it, whatever
\* attempts failed, timed out, or were answered late.
THEOREM SettledTaken == SessionSpec => []SettledMeansTaken
<1>1. SInv => SettledMeansTaken
  BY DEF SInv
<1>. QED  BY <1>1, SessionInvariant, PTL

-----------------------------------------------------------------------------
(* A session implements MeetingStream.                                      *)

LEMMA ReadsImplement ==
  ASSUME RInv, RInv', ReadSoFar, Grows, NEW s \in Streams, Reads(s), UNCHANGED verdict
  PROVE  [Meeting!Next]_Meeting!vars
<1>. USE DEF RInv, IInv
<1> DEFINE n == rcvd[s] + 1
           m == sent'[s][n]
<1>1. m \in Messages /\ (m = Context \/ m \in Frames \/ m = EndFrame)
  <2>1. m \in Messages
    BY ReadFacts
  <2>. QED  BY <2>1 DEF Messages, Context, Frames, EndFrame
<1>2. enq' = enq /\ meeting' = Read(m)
  BY DEF Reads
<1>3. rcvd[s] \in Nat
  BY ReadFacts
<1>4. CASE m = Context
  <2>1. m \notin Frames
    BY <1>4 DEF Context, Frames
  <2>2. LastHeard' = LastHeard
    BY <2>1, ReadSilence
  <2>3. rcvd[s] = 0 /\ Begun' # {} /\ Newest(Begun)' = s
    BY <1>4, ReadFacts
  <2>4. Heard(s) = {}
    BY <2>3 DEF Heard
  <2>5. Heard(s)' = {}
    BY <2>1, <2>4, ReadSilence
  <2>6. Resumed'
    BY <2>3, <2>5 DEF Resumed
  <2>7. Resumed' = TRUE
    BY <2>6 DEF Resumed
  <2>8. meeting' = IF meeting = "absent" THEN "live" ELSE meeting
    BY <1>2, <1>4 DEF Read, Context, EndFrame
  <2>. QED  BY <1>2, <2>2, <2>7, <2>8 DEF Meeting!Next, Meeting!Begin
<1>5. CASE m = EndFrame
  <2>1. m \notin Frames /\ m # Context
    BY <1>5 DEF Context, Frames, EndFrame
  <2>2. LastHeard' = LastHeard /\ \A t \in Streams : Heard(t)' = Heard(t)
    BY <2>1, ReadSilence
  <2>3. rcvd[s] > 0
    BY <1>3, <2>1, ReadFacts
  <2>4. s \in Begun
    BY <2>3 DEF Begun
  <2>5. Begun' = Begun
    BY <2>4, ReadFacts
  <2>6. Newest(Begun)' = Newest(Begun) /\ Newest(Begun)' = s
    BY <2>5, ReadFacts DEF Newest
  <2>7. Resumed' = Resumed
    <3>1. Resumed' <=> Resumed
      BY <2>2, <2>5, <2>6 DEF Resumed
    <3>. QED  BY <3>1 DEF Resumed
  <2>8. meeting' = IF meeting = "live" THEN "ending" ELSE meeting
    BY <1>2, <1>5 DEF Read, Context, EndFrame
  <2>. QED  BY <1>2, <2>2, <2>7, <2>8 DEF Meeting!Next, Meeting!End, Meeting!vars
<1>6. CASE m \in Frames
  <2>1. m # Context /\ m # EndFrame
    BY <1>6 DEF Context, Frames, EndFrame
  <2>2. rcvd[s] > 0
    BY <1>3, <2>1, ReadFacts
  <2>3. meeting' = meeting /\ meeting # "absent"
    BY <1>2, <2>1, <2>2 DEF Read, ReadSoFar
  <2>4. s \in Begun /\ \A t \in Begun : t <= s
    BY <2>2, ReadFacts DEF Begun
  <2>5. Newest(Begun) = s
    <3>1. Begun \in SUBSET Int
      BY DEF Begun, Streams
    <3>. QED  BY <2>4, <3>1, NewestIs
  <2>6. Resumed <=> Heard(s) = {}
    BY <2>4, <2>5 DEF Resumed
  <2>7. sent'[s] \in Seq(Messages) /\ n \in DOMAIN sent'[s] /\ Len(sent'[s]) \in Nat
    BY <1>3 DEF Reads, TypeOK
  <2>8. m \in 1..enq
    <3>1. m <= enq'
      BY <2>1, <2>7 DEF SentBefore
    <3>. QED  BY <1>2, <1>6, <3>1 DEF Frames, TypeOK
  <2>9. m > LastHeard \/ (Resumed /\ m = LastHeard)
    <3>1. CASE Spoke = {}
      BY <1>6, <3>1 DEF LastHeard, Frames
    <3>2. CASE Spoke # {}
      <4> DEFINE u == Newest(Spoke)
                 k == Newest(Heard(u))
      <4>1. u \in Streams /\ k \in Heard(u)
        BY <3>2 DEF ReadSoFar, Spoke
      <4>2. /\ k \in 1..rcvd[u] /\ sent[u][k] \in Frames /\ LastHeard = sent[u][k]
            /\ rcvd[u] \in Nat /\ rcvd[u] <= Len(sent[u])
            /\ sent[u] \in Seq(Messages) /\ sent'[u] \in Seq(Messages)
            /\ Len(sent[u]) <= Len(sent'[u])
        <5>1. k \in 1..rcvd[u] /\ sent[u][k] \in Frames
          BY <4>1 DEF Heard
        <5>2. LastHeard = sent[u][k]
          BY <3>2 DEF LastHeard
        <5>3. TypeOK /\ TypeOK'
          OBVIOUS
        <5>. QED  BY <4>1, <5>1, <5>2, <5>3 DEF TypeOK, ReadSoFar, Grows
      <4>3. u \in Begun /\ k \in DOMAIN sent[u] /\ k \in DOMAIN sent'[u] /\ sent'[u][k] = sent[u][k]
        BY <4>1, <4>2 DEF Grows, Begun
      <4>4. CASE u = s
        <5>1. k < n
          BY <1>3, <4>2, <4>4
        <5>2. LastHeard < m
          BY <2>7, <4>1, <4>2, <4>3, <4>4, <5>1 DEF SentOrder, Increasing
        <5>. QED  BY <1>6, <4>2, <5>2 DEF Frames
      <4>5. CASE u # s
        <5>1. u < s
          BY <2>4, <4>1, <4>3, <4>5 DEF Streams
        <5>2. LastHeard <= m
          BY <1>6, <2>7, <4>1, <4>2, <4>3, <5>1 DEF ReplayOrder
        <5>3. Heard(s) = {}
          <6>1. CASE s \in Spoke
            <7>1. \A t \in Spoke : t \in Begun
              BY DEF Spoke, Begun, Heard, TypeOK
            <7>2. Spoke \in SUBSET Int /\ \A t \in Spoke : t <= s
              BY <2>4, <7>1 DEF Spoke, Streams
            <7>3. u = s
              BY <6>1, <7>2, NewestIs
            <7>. QED  BY <4>5, <7>3
          <6>. QED  BY <6>1 DEF Spoke
        <5>. QED  BY <1>6, <2>6, <4>2, <5>2, <5>3 DEF Frames
      <4>. QED  BY <4>4, <4>5
    <3>. QED  BY <3>1, <3>2
  <2>10. LastHeard' = m /\ Resumed' = FALSE
    <3>1. LastHeard' = m /\ ~Resumed'
      BY <1>6, ReadFrame
    <3>. QED  BY <3>1 DEF Resumed
  <2>. QED  BY <1>2, <2>3, <2>8, <2>9, <2>10 DEF Meeting!Next, Meeting!Hear
<1>. QED  BY <1>1, <1>4, <1>5, <1>6

LEMMA SessionImplements ==
  ASSUME SInv, SInv', [SessionNext]_svars
  PROVE  [Meeting!Next]_Meeting!vars
<1>. USE DEF SInv
<1> DEFINE settled == verdict \in {"accepted", "taken"}
<1>0. [Next]_vars /\ TypeOK
  BY SessionStepsSink DEF RInv, IInv
<1>1. Grows
  BY <1>0, StepGrows DEF RInv
<1>2. HearsNothing => LastHeard' = LastHeard /\ Resumed' = Resumed
  BY <1>0, <1>1, NothingHeard
<1>3. CASE HandOver
  <2>1. UNCHANGED <<rcvd, meeting, enq>>
    BY <1>3 DEF HandOver, Stop, Left, FinalizeReturned, Wake, AlreadyTaken, NotTaken, Reopened,
                Unreachable, StartFinalize, StartReopen, vars, client
  <2>2. LastHeard' = LastHeard /\ Resumed' = Resumed
    BY <1>2, <2>1 DEF HearsNothing
  <2>3. CASE verdict' \in {"accepted", "taken"} /\ meeting = "taken"
    <3>1. settled' = TRUE
      BY <2>3
    <3>. QED  BY <2>1, <2>2, <2>3, <3>1 DEF Meeting!Next, Meeting!Settle
  <2>4. CASE ~(verdict' \in {"accepted", "taken"} /\ meeting = "taken")
    <3>1. settled' = settled
      BY <2>4, VerdictStep
    <3>. QED  BY <2>1, <2>2, <3>1 DEF Meeting!vars
  <2>. QED  BY <2>3, <2>4
<1>4. CASE UNCHANGED session
  <2>1. UNCHANGED verdict
    BY <1>4 DEF session
  <2>2. settled' = settled
    BY <2>1
  <2>3. ASSUME NEW s \in Streams, Reads(s)
        PROVE  [Meeting!Next]_Meeting!vars
    BY <1>1, <2>1, <2>3, ReadsImplement
  <2>4. CASE Take
    <3>1. meeting = "ending" /\ meeting' = "taken" /\ enq' = enq
      BY <2>4 DEF Take, client
    <3>2. LastHeard' = LastHeard /\ Resumed' = Resumed
      BY <1>2, <2>4 DEF HearsNothing, Take
    <3>. QED  BY <2>2, <3>1, <3>2 DEF Meeting!Next, Meeting!Take
  <2>5. CASE HearsNothing /\ ~Take
    <3>1. meeting' = meeting /\ enq' \in {enq, enq + 1}
      BY <2>5 DEF HearsNothing
    <3>2. LastHeard' = LastHeard /\ Resumed' = Resumed
      BY <1>2, <2>5
    <3>3. CASE enq' = enq
      BY <2>2, <3>1, <3>2, <3>3 DEF Meeting!vars
    <3>4. CASE enq' = enq + 1
      BY <2>2, <3>1, <3>2, <3>4 DEF Meeting!Next, Meeting!Speak
    <3>. QED  BY <3>1, <3>3, <3>4
  <2>. QED  BY <1>0, <2>3, <2>4, <2>5, StepReads
<1>. QED  BY <1>3, <1>4 DEF SessionNext, Rest, svars

\* A session, with its sink, its streams and its gateway, implements the call as
\* meeting.v1 wants it: one meeting, its speech in order over all streams, and
\* settled only when the gateway has taken it.
THEOREM Implements == SessionSpec => ImplementsMeeting
<1>1. SessionInit => Meeting!Init
  <2> SUFFICES ASSUME SessionInit PROVE Meeting!Init
    OBVIOUS
  <2>1. \A s \in Streams : rcvd[s] = 0 /\ Heard(s) = {}
    BY DEF SessionInit, Init, Heard
  <2>2. Spoke = {} /\ Begun = {}
    BY <2>1 DEF Spoke, Begun
  <2>3. LastHeard = 0 /\ Resumed = FALSE
    BY <2>2 DEF LastHeard, Resumed
  <2>4. (verdict \in {"accepted", "taken"}) = FALSE
    BY DEF SessionInit
  <2>. QED  BY <2>3, <2>4 DEF SessionInit, Init, Meeting!Init
<1>. QED  BY <1>1, SessionInvariant, SessionImplements, PTL
          DEF SessionSpec, ImplementsMeeting, Meeting!Spec
=============================================================================
