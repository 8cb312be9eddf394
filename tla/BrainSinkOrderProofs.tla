------------------------- MODULE BrainSinkOrderProofs -------------------------
(***************************************************************************)
(* What goes out on the streams: BrainSink's invariant is inductive, every *)
(* stream honours meeting.v1's order, no replacement goes back before what *)
(* an earlier one carried, and no more frames are lost than the sink       *)
(* counts - for any readers, streams, frames and limits.                   *)
(***************************************************************************)
EXTENDS BrainSinkProofs, FiniteSetTheorems

USE CloserAssumption, FramesAssumption, StreamsAssumption, OutboxAssumption

-----------------------------------------------------------------------------
(* Steps that write nothing.                                                *)

\* What a coroutine needs of the streams where it is suspended next.
Fresh(p) ==
  /\ at'[p].pc = "open_lock" =>
       at'[p].msg = Context /\ at'[p].stream \in Streams /\ link[at'[p].stream] = "none"
  /\ at'[p].pc = "open_write" =>
       at'[p].msg = Context /\ at[p].pc = "open_lock" /\ at'[p].stream = at[p].stream
  /\ at'[p].pc \in {"pump_write", "end_write", "half_close"} =>
       call # NoStream /\ at'[p].stream = call
  /\ at'[p].pc = "pump_write" => outbox # <<>> /\ at'[p].msg = Head(outbox)
  /\ at'[p].pc = "end_write" => at'[p].msg = EndFrame

\* A link changes no further than opening an unused stream, and no stream that
\* may carry an end frame stays open when the half-close is left.
LinksQuiet ==
  \A s \in Streams :
    /\ link'[s] = "none" => link[s] = "none"
    /\ link'[s] = "open" =>
         \/ link[s] = "none"
         \/ link[s] = "open" /\ (at[Closer].pc = "half_close" => at'[Closer].pc = "half_close")

Quiet ==
  /\ UNCHANGED sent
  /\ enq <= enq'
  /\ call' \in {call, NoStream}
  /\ \A k \in DOMAIN outbox' : outbox'[k] = enq + 1 \/ \E j \in DOMAIN outbox : outbox'[k] = outbox[j]
  /\ LinksQuiet
  /\ \A p \in Procs : at'[p] = at[p] \/ Fresh(p)

\* The outbox's head and the messages are numbers.
LEMMA Numbers ==
  ASSUME TypeOK
  PROVE  /\ enq \in Nat /\ MaxFrames \in Nat /\ EndFrame \in Nat /\ EndFrame = MaxFrames + 1
         /\ \A s \in Streams : sent[s] \in Seq(Nat) /\ \A i \in DOMAIN sent[s] : sent[s][i] \in Nat
         /\ outbox \in Seq(Nat) /\ \A k \in DOMAIN outbox : outbox[k] \in Nat
         /\ outbox # <<>> => 1 \in DOMAIN outbox /\ Head(outbox) = outbox[1]
         /\ \A p \in Procs : at[p].msg \in Nat
<1>1. enq \in Nat /\ MaxFrames \in Nat /\ EndFrame \in Nat /\ EndFrame = MaxFrames + 1
  BY DEF TypeOK, EndFrame
<1>2. outbox \in Seq(Nat) /\ \A s \in Streams : sent[s] \in Seq(Nat)
  BY OutboxFacts
<1>3. \A p \in Procs : at[p].msg \in Nat
  BY MessageFacts DEF TypeOK, Suspension
<1>. QED  BY <1>1, <1>2, <1>3

LEMMA QuietSentOrder ==
  ASSUME TypeOK, SentOrder, Quiet
  PROVE  SentOrder'
<1> SUFFICES ASSUME NEW s \in Streams
             PROVE  /\ Increasing(sent[s])
                    /\ sent[s] # <<>> => sent[s][1] = Context
                    /\ link'[s] = "none" => sent[s] = <<>>
                    /\ \A p \in Procs :
                         at'[p].pc \in {"open_lock", "open_write"} /\ at'[p].stream = s /\ link'[s] = "open"
                           => sent[s] = <<>>
                    /\ s = call' => sent[s] # <<>>
  BY DEF SentOrder, Quiet
<1>1. /\ Increasing(sent[s])
      /\ sent[s] # <<>> => sent[s][1] = Context
  BY DEF SentOrder
<1>2. link'[s] = "none" => sent[s] = <<>>
  BY DEF SentOrder, Quiet, LinksQuiet
<1>3. s = call' => sent[s] # <<>>
  BY MessageFacts DEF SentOrder, Quiet
<1>4. ASSUME NEW p \in Procs, at'[p].pc \in {"open_lock", "open_write"}, at'[p].stream = s, link'[s] = "open"
      PROVE  sent[s] = <<>>
  <2>1. link[s] \in {"none", "open"}
    BY <1>4 DEF Quiet, LinksQuiet
  <2>2. CASE link[s] = "none"
    BY <2>2 DEF SentOrder
  <2>3. CASE link[s] = "open"
    <3>1. at[p].pc \in {"open_lock", "open_write"} /\ at[p].stream = s
      BY <1>4, <2>3 DEF Quiet, Fresh
    <3>. QED  BY <2>3, <3>1 DEF SentOrder
  <2>. QED  BY <2>1, <2>2, <2>3
<1>. QED  BY <1>1, <1>2, <1>3, <1>4

LEMMA QuietSentBefore ==
  ASSUME TypeOK, TypeOK', SentOrder, SentBefore, Quiet
  PROVE  SentBefore'
<1> SUFFICES ASSUME NEW s \in Streams, NEW i \in DOMAIN sent[s]
             PROVE  /\ sent[s][i] = EndFrame \/ sent[s][i] <= enq'
                    /\ link'[s] = "open" /\ sent[s][i] # EndFrame =>
                         /\ \A k \in DOMAIN outbox' : sent[s][i] < outbox'[k]
                         /\ \A p \in Procs : at'[p].pc = "pump_write" => sent[s][i] < at'[p].msg
                    /\ link'[s] = "open" /\ sent[s][i] = EndFrame => at'[Closer].pc = "half_close"
  BY DEF SentBefore, Quiet
<1>1. sent[s] # <<>> /\ sent[s][i] \in Nat
  BY Numbers
<1>2. sent[s][i] = EndFrame \/ sent[s][i] <= enq'
  BY <1>1, Numbers, TypeOK' DEF SentBefore, Quiet, TypeOK
<1>3. link'[s] = "open" =>
        link[s] = "open" /\ (at[Closer].pc = "half_close" => at'[Closer].pc = "half_close")
  BY <1>1 DEF Quiet, LinksQuiet, SentOrder
<1>4. ASSUME link'[s] = "open", sent[s][i] # EndFrame
      PROVE  /\ \A k \in DOMAIN outbox' : sent[s][i] < outbox'[k]
             /\ \A p \in Procs : at'[p].pc = "pump_write" => sent[s][i] < at'[p].msg
  <2>1. /\ sent[s][i] <= enq
        /\ \A k \in DOMAIN outbox : sent[s][i] < outbox[k]
        /\ \A p \in Procs : at[p].pc = "pump_write" => sent[s][i] < at[p].msg
    BY <1>3, <1>4 DEF SentBefore
  <2>2. ASSUME NEW k \in DOMAIN outbox'
        PROVE  sent[s][i] < outbox'[k]
    <3>1. outbox'[k] = enq + 1 \/ \E j \in DOMAIN outbox : outbox'[k] = outbox[j]
      BY DEF Quiet
    <3>. QED  BY <1>1, <2>1, <3>1, Numbers
  <2>3. ASSUME NEW p \in Procs, at'[p].pc = "pump_write"
        PROVE  sent[s][i] < at'[p].msg
    <3>1. CASE at'[p] = at[p]
      BY <2>1, <2>3, <3>1
    <3>2. CASE Fresh(p)
      BY <2>1, <2>3, <3>2, Numbers DEF Fresh
    <3>. QED  BY <3>1, <3>2 DEF Quiet
  <2>. QED  BY <2>2, <2>3
<1>5. link'[s] = "open" /\ sent[s][i] = EndFrame => at'[Closer].pc = "half_close"
  BY <1>3 DEF SentBefore
<1>. QED  BY <1>2, <1>4, <1>5

LEMMA QuietWritesOpened ==
  ASSUME TypeOK, SentOrder, WritesOpened, Quiet
  PROVE  WritesOpened'
<1> SUFFICES ASSUME NEW p \in Procs
             PROVE  /\ at'[p].pc \in {"pump_write", "end_write", "half_close"} =>
                         at'[p].stream \in Streams /\ sent[at'[p].stream] # <<>>
                    /\ at'[p].pc \in {"open_lock", "open_write"} => at'[p].msg = Context
                    /\ at'[p].pc = "end_write" => at'[p].msg = EndFrame
  BY DEF WritesOpened, Quiet
<1>1. CASE at'[p] = at[p]
  BY <1>1 DEF WritesOpened
<1>2. CASE Fresh(p)
  <2>1. call # NoStream => call \in Streams /\ sent[call] # <<>>
    BY DEF TypeOK, SentOrder
  <2>. QED  BY <1>2, <2>1 DEF Fresh
<1>. QED  BY <1>1, <1>2 DEF Quiet

-----------------------------------------------------------------------------
(* Steps that write: a message goes out on the open stream p has in hand.   *)

\* What is on the stream when p writes on it, and what p writes.
LEMMA WriteFacts ==
  ASSUME TypeOK, Exclusion, PumpHead, OutboxOrder, SentOrder, SentBefore, WritesOpened, Remembered,
         NEW p \in Procs, NEW s \in Streams, at[p].stream = s, link[s] = "open",
         at[p].pc \in {"open_write", "pump_write", "end_write"}
  PROVE  /\ at[Closer].pc # "half_close"
         /\ at[p].msg = EndFrame <=> at[p].pc = "end_write"
         /\ at[p].msg = EndFrame \/ at[p].msg <= enq
         /\ at[p].pc = "open_write" => at[p].msg = Context
         /\ at[p].pc = "pump_write" => outbox # <<>> /\ at[p].msg <= Head(outbox)
         /\ sent[s] = <<>> <=> at[p].pc = "open_write"
         /\ \A i \in DOMAIN sent[s] : sent[s][i] < at[p].msg /\ sent[s][i] # EndFrame
<1>1. at[Closer].pc # "half_close"
  BY DEF Exclusion, Writing, Procs
<1>2. at[p].pc = "open_write" => at[p].msg = Context /\ sent[s] = <<>>
  BY DEF WritesOpened, SentOrder
<1>3. at[p].pc # "open_write" => sent[s] # <<>>
  BY DEF WritesOpened
<1>4. at[p].pc = "end_write" => at[p].msg = EndFrame
  BY DEF WritesOpened
<1>5. ASSUME at[p].pc = "pump_write"
      PROVE  /\ outbox # <<>> /\ at[p].msg <= Head(outbox) /\ at[p].msg \in Frames
             /\ at[p].msg <= enq
  <2>1. outbox # <<>> /\ at[p].msg <= Head(outbox) /\ at[p].msg \in Frames
    BY <1>5 DEF PumpHead
  <2>2. Head(outbox) <= enq
    BY <2>1, Numbers DEF OutboxOrder
  <2>. QED  BY <2>1, <2>2, Numbers
<1>6. at[p].msg = EndFrame <=> at[p].pc = "end_write"
  BY <1>2, <1>4, <1>5, MessageFacts DEF Frames, EndFrame, Context
<1>7. at[p].msg = EndFrame \/ at[p].msg <= enq
  BY <1>2, <1>4, <1>5, Numbers DEF Context
<1>8. ASSUME NEW i \in DOMAIN sent[s]
      PROVE  sent[s][i] < at[p].msg /\ sent[s][i] # EndFrame
  <2>1. sent[s][i] # EndFrame /\ sent[s][i] <= enq
    BY <1>1 DEF SentBefore
  <2>2. at[p].pc # "open_write"
    BY <1>2, Numbers
  <2>3. CASE at[p].pc = "pump_write"
    BY <2>1, <2>3 DEF SentBefore
  <2>4. CASE at[p].pc = "end_write"
    BY <1>4, <2>1, <2>4, Numbers DEF TypeOK
  <2>. QED  BY <2>1, <2>2, <2>3, <2>4
<1>. QED  BY <1>1, <1>2, <1>3, <1>5, <1>6, <1>7, <1>8

\* A completed write: p goes on as the code does, or the stream breaks under
\* the write and nobody moves.
Writes(p, s) ==
  /\ at[p].stream = s /\ link[s] = "open"
  /\ at[p].pc \in {"open_write", "pump_write", "end_write"}
  /\ sent' = [sent EXCEPT ![s] = Append(@, at[p].msg)]
  /\ enq' = enq
  /\ Moves(p)
  /\ \A t \in Streams : /\ link'[t] = "none" => link[t] = "none"
                        /\ link'[t] = "open" => link[t] = "open"
  /\ outbox' = outbox \/ (at[p].pc = "pump_write" /\ outbox' = Tail(outbox))
  /\ call' = call \/ call' = s
  /\ \/ at' = at /\ link'[s] # "open"
     \/ /\ at[p].pc = "pump_write" => outbox' = Tail(outbox)
        /\ at'[p].pc \notin {"open_lock", "open_write", "end_write"}
        /\ at'[p].pc \in {"pump_write", "half_close"} => call # NoStream /\ at'[p].stream = call
        /\ at'[p].pc = "pump_write" => outbox' # <<>> /\ at'[p].msg = Head(outbox')
        /\ at[p].pc = "end_write" /\ link'[s] = "open" => at'[Closer].pc = "half_close"

\* The sequence a write leaves on its stream.
LEMMA WriteSent ==
  ASSUME TypeOK, Exclusion, PumpHead, OutboxOrder, SentOrder, SentBefore, WritesOpened, Remembered,
         NEW p \in Procs, NEW s \in Streams, Writes(p, s)
  PROVE  /\ sent'[s] # <<>> /\ sent'[s][1] = Context /\ Increasing(sent'[s])
         /\ \A i \in DOMAIN sent'[s] :
              \/ sent'[s][i] = at[p].msg
              \/ i \in DOMAIN sent[s] /\ sent'[s][i] = sent[s][i]
         /\ \A t \in Streams : t # s => sent'[t] = sent[t]
<1>1. sent'[s] = Append(sent[s], at[p].msg) /\ \A t \in Streams : t # s => sent'[t] = sent[t]
  BY DEF Writes, TypeOK
<1>2. sent[s] \in Seq(Nat) /\ at[p].msg \in Nat
  BY Numbers
<1>3. Increasing(sent[s]) /\ (sent[s] # <<>> => sent[s][1] = Context)
  BY DEF SentOrder
<1>4. /\ at[p].pc = "open_write" => at[p].msg = Context
      /\ sent[s] = <<>> <=> at[p].pc = "open_write"
      /\ \A i \in DOMAIN sent[s] : sent[s][i] < at[p].msg
  BY WriteFacts DEF Writes
<1>. QED  BY <1>1, <1>2, <1>3, <1>4, AppendFacts

\* After the write of a frame only younger frames wait.
LEMMA WriteOutbox ==
  ASSUME TypeOK, Exclusion, PumpHead, OutboxOrder, SentOrder, SentBefore, WritesOpened, Remembered,
         NEW p \in Procs, NEW s \in Streams, Writes(p, s)
  PROVE  /\ \A k \in DOMAIN outbox' : \E j \in DOMAIN outbox : outbox'[k] = outbox[j]
         /\ at[p].pc = "pump_write" /\ outbox' = Tail(outbox) =>
              \A k \in DOMAIN outbox' : at[p].msg < outbox'[k]
<1>1. CASE outbox' = outbox /\ ~(at[p].pc = "pump_write" /\ outbox' = Tail(outbox))
  BY <1>1
<1>2. CASE at[p].pc = "pump_write" /\ outbox' = Tail(outbox)
  <2>1. outbox # <<>> /\ at[p].msg <= Head(outbox) /\ at[p].msg \in Nat
    BY <1>2, Numbers DEF PumpHead
  <2>2. outbox \in Seq(Nat) /\ Increasing(outbox) /\ Head(outbox) \in Nat
    BY <2>1, Numbers DEF OutboxOrder
  <2>3. \A k \in DOMAIN Tail(outbox) : /\ k + 1 \in DOMAIN outbox /\ Tail(outbox)[k] = outbox[k + 1]
                                       /\ Head(outbox) < Tail(outbox)[k]
    BY <2>1, <2>2, TailFacts
  <2>4. ASSUME NEW k \in DOMAIN outbox'
        PROVE  at[p].msg < outbox'[k] /\ \E j \in DOMAIN outbox : outbox'[k] = outbox[j]
    <3>1. k + 1 \in DOMAIN outbox /\ outbox'[k] = outbox[k + 1] /\ Head(outbox) < outbox'[k]
      BY <1>2, <2>3, <2>4
    <3>2. outbox'[k] \in Nat
      BY <3>1, Numbers
    <3>. QED  BY <2>1, <2>2, <3>1, <3>2
  <2>. QED  BY <2>4
<1>. QED  BY <1>1, <1>2 DEF Writes

LEMMA WriteSentOrder ==
  ASSUME TypeOK, Exclusion, PumpHead, OutboxOrder, SentOrder, SentBefore, WritesOpened, Remembered,
         NEW p \in Procs, NEW s \in Streams, Writes(p, s)
  PROVE  SentOrder'
<1> SUFFICES ASSUME NEW t \in Streams
             PROVE  /\ Increasing(sent'[t])
                    /\ sent'[t] # <<>> => sent'[t][1] = Context
                    /\ link'[t] = "none" => sent'[t] = <<>>
                    /\ \A q \in Procs :
                         at'[q].pc \in {"open_lock", "open_write"} /\ at'[q].stream = t /\ link'[t] = "open"
                           => sent'[t] = <<>>
                    /\ t = call' => sent'[t] # <<>>
  BY DEF SentOrder
<1>1. Increasing(sent'[t]) /\ (sent'[t] # <<>> => sent'[t][1] = Context)
  <2>1. Increasing(sent[t]) /\ (sent[t] # <<>> => sent[t][1] = Context)
    BY DEF SentOrder
  <2>2. CASE t = s
    BY <2>2, WriteSent
  <2>3. CASE t # s
    BY <2>1, <2>3, WriteSent
  <2>. QED  BY <2>2, <2>3
<1>2. link'[t] = "none" => sent'[t] = <<>>
  <2>1. link'[t] = "none" => t # s /\ sent[t] = <<>>
    BY DEF SentOrder, Writes
  <2>. QED  BY <2>1, WriteSent
<1>3. t = call' => sent'[t] # <<>>
  <2>1. t = call' => t = s \/ sent[t] # <<>>
    BY DEF SentOrder, Writes
  <2>. QED  BY <2>1, WriteSent
<1>4. ASSUME NEW q \in Procs, at'[q].pc \in {"open_lock", "open_write"}, at'[q].stream = t, link'[t] = "open"
      PROVE  sent'[t] = <<>>
  <2>1. link[t] = "open"
    BY <1>4 DEF Writes
  <2>2. CASE at' = at /\ link'[s] # "open"
    BY <1>4, <2>1, <2>2, WriteSent DEF SentOrder
  <2>3. CASE ~(at' = at /\ link'[s] # "open")
    <3>1. q # p /\ at'[q] = at[q]
      BY <1>4, <2>3 DEF Writes, Moves
    <3>2. sent[t] = <<>>
      BY <1>4, <2>1, <3>1 DEF SentOrder
    <3>3. t # s
      <4>1. at[p].pc = "open_write" => FALSE
        BY <1>4, <3>1 DEF Exclusion, Opening
      <4>2. sent[s] # <<>>
        BY <4>1, WriteFacts DEF Writes
      <4>. QED  BY <3>2, <4>2
    <3>. QED  BY <3>2, <3>3, WriteSent
  <2>. QED  BY <2>2, <2>3
<1>. QED  BY <1>1, <1>2, <1>3, <1>4

LEMMA WriteSentBefore ==
  ASSUME TypeOK, TypeOK', Exclusion, PumpHead, OutboxOrder, SentOrder, SentBefore, WritesOpened, Remembered,
         NEW p \in Procs, NEW s \in Streams, Writes(p, s)
  PROVE  SentBefore'
<1> SUFFICES ASSUME NEW t \in Streams, NEW i \in DOMAIN sent'[t]
             PROVE  /\ sent'[t][i] = EndFrame \/ sent'[t][i] <= enq'
                    /\ link'[t] = "open" /\ sent'[t][i] # EndFrame =>
                         /\ \A k \in DOMAIN outbox' : sent'[t][i] < outbox'[k]
                         /\ \A q \in Procs : at'[q].pc = "pump_write" => sent'[t][i] < at'[q].msg
                    /\ link'[t] = "open" /\ sent'[t][i] = EndFrame => at'[Closer].pc = "half_close"
  BY DEF SentBefore
<1>0. /\ at[Closer].pc # "half_close"
      /\ at[p].msg = EndFrame <=> at[p].pc = "end_write"
      /\ at[p].msg = EndFrame \/ at[p].msg <= enq
      /\ at[p].pc = "open_write" => at[p].msg = Context
      /\ link[s] = "open" /\ enq' = enq
  BY WriteFacts DEF Writes
<1>1. \/ t = s /\ sent'[t][i] = at[p].msg
      \/ i \in DOMAIN sent[t] /\ sent'[t][i] = sent[t][i]
  BY WriteSent
<1>2. sent'[t][i] \in Nat /\ enq \in Nat
  BY Numbers, <1>1
<1>3. sent'[t][i] = EndFrame \/ sent'[t][i] <= enq'
  BY <1>0, <1>1 DEF SentBefore
<1>4. link'[t] = "open" /\ sent'[t][i] = EndFrame => at'[Closer].pc = "half_close"
  <2>1. CASE t = s /\ sent'[t][i] = at[p].msg
    BY <1>0, <2>1 DEF Writes
  <2>2. CASE i \in DOMAIN sent[t] /\ sent'[t][i] = sent[t][i]
    BY <1>0, <2>2 DEF Writes, SentBefore
  <2>. QED  BY <1>1, <2>1, <2>2
<1>5. ASSUME link'[t] = "open", sent'[t][i] # EndFrame
      PROVE  \A k \in DOMAIN outbox' : sent'[t][i] < outbox'[k]
  <2>1. CASE t = s /\ sent'[t][i] = at[p].msg
    <3>1. CASE at[p].pc = "open_write"
      <4>1. outbox' = outbox /\ sent'[t][i] = 0
        BY <1>0, <2>1, <3>1 DEF Writes, Context
      <4>2. \A k \in DOMAIN outbox : outbox[k] \in Frames
        BY DEF TypeOK
      <4>. QED  BY <4>1, <4>2 DEF Frames
    <3>2. CASE at[p].pc = "pump_write"
      <4>1. outbox' = Tail(outbox)
        BY <1>5, <2>1, <3>2 DEF Writes
      <4>. QED  BY <2>1, <3>2, <4>1, WriteOutbox
    <3>. QED  BY <1>0, <1>5, <2>1, <3>1, <3>2 DEF Writes
  <2>2. CASE i \in DOMAIN sent[t] /\ sent'[t][i] = sent[t][i]
    <3>1. \A k \in DOMAIN outbox : sent[t][i] < outbox[k]
      BY <1>5, <2>2 DEF SentBefore, Writes
    <3>2. \A k \in DOMAIN outbox' : \E j \in DOMAIN outbox : outbox'[k] = outbox[j]
      BY WriteOutbox
    <3>. QED  BY <2>2, <3>1, <3>2
  <2>. QED  BY <1>1, <2>1, <2>2
<1>6. ASSUME link'[t] = "open", sent'[t][i] # EndFrame, NEW q \in Procs, at'[q].pc = "pump_write"
      PROVE  sent'[t][i] < at'[q].msg
  <2>1. CASE at' = at /\ link'[s] # "open"
    <3>1. t # s /\ link[t] = "open"
      BY <1>6, <2>1 DEF Writes
    <3>2. i \in DOMAIN sent[t] /\ sent'[t][i] = sent[t][i]
      BY <1>1, <3>1
    <3>. QED  BY <1>6, <2>1, <3>1, <3>2 DEF SentBefore
  <2>2. CASE ~(at' = at /\ link'[s] # "open")
    <3>1. q = p
      <4>1. q # p => at'[q] = at[q]
        BY DEF Writes, Moves
      <4>. QED  BY <1>6, <4>1 DEF Exclusion, Writing, Writes
    <3>2. outbox' # <<>> /\ at'[p].msg = Head(outbox')
      BY <1>6, <2>2, <3>1 DEF Writes
    <3>3. outbox' \in Seq(Frames)
      BY TypeOK' DEF TypeOK
    <3>4. 1 \in DOMAIN outbox' /\ Head(outbox') = outbox'[1]
      BY <3>2, <3>3
    <3>. QED  BY <1>5, <1>6, <3>1, <3>2, <3>4
  <2>. QED  BY <2>1, <2>2
<1>. QED  BY <1>3, <1>4, <1>5, <1>6

LEMMA WriteWritesOpened ==
  ASSUME TypeOK, Exclusion, PumpHead, OutboxOrder, SentOrder, SentBefore, WritesOpened, Remembered,
         NEW p \in Procs, NEW s \in Streams, Writes(p, s)
  PROVE  WritesOpened'
<1>1. \A t \in Streams : sent[t] # <<>> => sent'[t] # <<>>
  BY WriteSent
<1>2. call # NoStream => call \in Streams /\ sent[call] # <<>>
  BY DEF TypeOK, SentOrder
<1> SUFFICES ASSUME NEW q \in Procs
             PROVE  /\ at'[q].pc \in {"pump_write", "end_write", "half_close"} =>
                         at'[q].stream \in Streams /\ sent'[at'[q].stream] # <<>>
                    /\ at'[q].pc \in {"open_lock", "open_write"} => at'[q].msg = Context
                    /\ at'[q].pc = "end_write" => at'[q].msg = EndFrame
  BY DEF WritesOpened
<1>3. CASE at'[q] = at[q]
  BY <1>1, <1>3 DEF WritesOpened
<1>4. CASE at'[q] # at[q]
  <2>1. /\ q = p
        /\ at'[p].pc \notin {"open_lock", "open_write", "end_write"}
        /\ at'[p].pc \in {"pump_write", "half_close"} => call # NoStream /\ at'[p].stream = call
    BY <1>4 DEF Writes, Moves
  <2>. QED  BY <1>1, <1>2, <2>1
<1>. QED  BY <1>3, <1>4

-----------------------------------------------------------------------------
(* Every step is quiet or a write.                                          *)

StaysHalf == at[Closer].pc = "half_close" => at'[Closer].pc = "half_close"

LEMMA QuietFrom ==
  ASSUME TypeOK, UNCHANGED <<sent, outbox, enq>>, call' \in {call, NoStream}, LinksQuiet,
         \A p \in Procs : at'[p] = at[p] \/ Fresh(p)
  PROVE  Quiet
<1>1. enq <= enq'
  BY Numbers
<1>. QED  BY <1>1 DEF Quiet

LEMMA ParksFresh ==
  ASSUME NEW p \in Procs, Parks(p)
  PROVE  \A q \in Procs : at'[q] = at[q] \/ Fresh(q)
BY DEF Parks, Parked, Moves, Fresh

LEMMA LinksFacts ==
  ASSUME TypeOK
  PROVE  /\ StaysHalf /\ link' = link => LinksQuiet
         /\ \A t : StaysHalf /\ link' = Killed(t) => LinksQuiet
         /\ \A t \in Unused : StaysHalf /\ link' = [link EXCEPT ![t] = "open"] => LinksQuiet
         /\ \A t : StaysHalf /\ link[t] # "none" /\ link' = [link EXCEPT ![t] = "dead"] => LinksQuiet
<1>1. link' = link => \A s \in Streams : link'[s] = link[s]
  OBVIOUS
<1>2. ASSUME NEW t, link' = Killed(t)
      PROVE  \A s \in Streams : /\ link'[s] = "none" => link[s] = "none"
                                /\ link'[s] = "open" => link[s] = "open"
  BY <1>2 DEF Killed, TypeOK
<1>3. ASSUME NEW t \in Unused, link' = [link EXCEPT ![t] = "open"]
      PROVE  \A s \in Streams : /\ link'[s] = "none" => link[s] = "none"
                                /\ link'[s] = "open" => link[s] \in {"none", "open"}
  BY <1>3 DEF Unused, TypeOK
<1>4. ASSUME NEW t, link' = [link EXCEPT ![t] = "dead"]
      PROVE  \A s \in Streams : /\ link'[s] = "none" => link[s] = "none"
                                /\ link'[s] = "open" => link[s] = "open"
  BY <1>4 DEF TypeOK
<1>. QED  BY <1>1, <1>2, <1>3, <1>4 DEF LinksQuiet, StaysHalf

\* finalize's clean-up leaves no live stream, so no end frame on an open one.
LEMMA FinallyCloseLinks ==
  ASSUME TypeOK, OnlyHeldLive, NEW result, FinallyClose(Closer, result)
  PROVE  LinksQuiet
<1>1. NoStream \notin Streams
  BY MessageFacts
<1>2. CASE chan = NoStream /\ link' = link
  BY <1>1, <1>2 DEF OnlyHeldLive, LinksQuiet, Live
<1>3. CASE link' = Killed(chan)
  <2>1. \A s \in Streams : Live(s)' => Live(s) /\ s # chan
    BY <1>3, LiveFacts
  <2>2. \A s \in Streams : link'[s] # "open"
    BY <2>1 DEF OnlyHeldLive, Live
  <2>3. \A s \in Streams : link'[s] = link[s] \/ link'[s] = "dead"
    BY <1>3, LiveFacts
  <2>. QED  BY <2>2, <2>3 DEF LinksQuiet
<1>. QED  BY <1>2, <1>3, FinallyCloseShape

LEMMA FinallyCloseQuiet ==
  ASSUME TypeOK, OnlyHeldLive, UNCHANGED <<sent, outbox, enq, call>>, NEW result, FinallyClose(Closer, result)
  PROVE  Quiet
<1>1. Closer \in Procs /\ Parks(Closer)
  BY HelpersPark DEF Procs
<1>. QED  BY <1>1, ParksFresh, FinallyCloseLinks, QuietFrom

\* p parks, was not half-closing, and at most one stream dies.
LEMMA ParksQuiet ==
  ASSUME TypeOK, UNCHANGED <<sent, outbox, enq, call>>, NEW p \in Procs, Parks(p),
         at[p].pc # "half_close",
         link' = link \/ \E t : link' = Killed(t)
  PROVE  Quiet
<1>1. StaysHalf
  BY DEF StaysHalf, Parks, Moves, Procs
<1>. QED  BY <1>1, ParksFresh, LinksFacts, QuietFrom

LEMMA OpenCallQuiet ==
  ASSUME TypeOK, UNCHANGED <<sent, outbox, enq>>, call' \in {call, NoStream}, NEW p \in Procs, NEW why,
         OpenCall(p, why), at[p].pc # "half_close"
  PROVE  Quiet
<1>1. StaysHalf
  BY OpenCallShape DEF StaysHalf, Moves, Procs
<1>2. ASSUME NEW s \in Unused, at'[p] = At("open_lock", s, Context, why), link' = [link EXCEPT ![s] = "open"]
      PROVE  Quiet
  <2>1. s \in Streams /\ link[s] = "none"
    BY DEF Unused
  <2>2. Fresh(p)
    BY <1>2, <2>1, AtFields DEF Fresh
  <2>. QED  BY <1>1, <1>2, <2>2, OpenCallShape, LinksFacts, QuietFrom DEF Moves
<1>3. CASE at'[p] = Idle /\ link' = link
  <2>1. Parks(p)
    BY <1>3, OpenCallShape, AtFields DEF Parks, Parked, Idle
  <2>. QED  BY <1>1, <1>3, <2>1, ParksFresh, LinksFacts, QuietFrom
<1>. QED  BY <1>2, <1>3, OpenCallShape

LEMMA DropAndOpenQuiet ==
  ASSUME TypeOK, UNCHANGED <<sent, outbox, enq>>, NEW p \in Procs, NEW why,
         DropAndOpen(p, why), at[p].pc # "half_close"
  PROVE  Quiet
<1>1. call' = NoStream
  BY DEF DropAndOpen
<1>2. CASE OpenCall(p, why)
  BY <1>1, <1>2, OpenCallQuiet
<1>3. CASE at'[p] = At("closing", chan, Context, why) /\ link' = Killed(chan)
  <2>1. Moves(p)
    BY DropAndOpenShape
  <2>2. StaysHalf
    BY <2>1 DEF StaysHalf, Moves, Procs
  <2>3. Fresh(p)
    BY <1>3, AtFields DEF Fresh
  <2>. QED  BY <1>1, <1>3, <2>1, <2>2, <2>3, LinksFacts, QuietFrom DEF Moves
<1>. QED  BY <1>2, <1>3, DropAndOpenShape

LEMMA SinkQuiet ==
  ASSUME TypeOK, Remembered, WritesOpened, NEW p \in Procs,
         \/ EnsureLock(p) \/ OpenLock(p) \/ OpenFails(p) \/ PumpLock(p) \/ PumpFails(p)
         \/ ReconnectLock(p) \/ Closed(p)
  PROVE  Quiet
<1>1. /\ UNCHANGED <<sent, outbox, enq>> /\ at[p].pc # "half_close"
  BY DEF EnsureLock, OpenLock, OpenFails, PumpLock, PumpFails, ReconnectLock, Closed
<1>2. CASE EnsureLock(p)
  <2>1. CASE call # NoStream
    BY <1>1, <1>2, <2>1, HelpersPark, ParksQuiet DEF EnsureLock, Parked
  <2>. QED  BY <1>1, <1>2, <2>1, OpenCallQuiet DEF EnsureLock
<1>3. CASE OpenLock(p)
  <2>1. /\ UNCHANGED <<call, link>> /\ Moves(p) /\ at[p].pc = "open_lock"
        /\ at'[p].pc = "open_write" /\ at'[p].stream = at[p].stream /\ at'[p].msg = Context
    BY <1>3, AtFields DEF OpenLock, Moves, TypeOK
  <2>2. StaysHalf
    BY <1>1, <2>1 DEF StaysHalf, Moves, Procs
  <2>3. Fresh(p)
    BY <2>1 DEF Fresh
  <2>. QED  BY <1>1, <2>1, <2>2, <2>3, LinksFacts, QuietFrom DEF Moves
<1>4. CASE OpenFails(p) \/ PumpFails(p)
  BY <1>1, <1>4, StepParks, ParksQuiet DEF OpenFails, PumpFails
<1>5. CASE PumpLock(p)
  <2>1. UNCHANGED <<call, link>>
    BY <1>5 DEF PumpLock
  <2>2. CASE outbox # <<>> /\ call # NoStream
    <3>1. /\ Moves(p) /\ at'[p].pc = "pump_write" /\ at'[p].stream = call /\ at'[p].msg = Head(outbox)
      BY <1>5, <2>2, AtFields DEF PumpLock, Moves, TypeOK
    <3>2. StaysHalf
      BY <1>1, <3>1 DEF StaysHalf, Moves, Procs
    <3>3. Fresh(p)
      BY <2>2, <3>1 DEF Fresh
    <3>. QED  BY <1>1, <2>1, <3>1, <3>2, <3>3, LinksFacts, QuietFrom DEF Moves
  <2>3. CASE ~(outbox # <<>> /\ call # NoStream)
    BY <1>1, <1>5, <2>1, <2>3, HelpersPark, ParksQuiet DEF PumpLock
  <2>. QED  BY <2>2, <2>3
<1>6. CASE ReconnectLock(p)
  <2>1. CASE call # at[p].stream \/ cooling
    BY <1>1, <1>6, <2>1, HelpersPark, ParksQuiet DEF ReconnectLock
  <2>. QED  BY <1>1, <1>6, <2>1, DropAndOpenQuiet DEF ReconnectLock
<1>7. CASE Closed(p)
  BY <1>1, <1>7, OpenCallQuiet DEF Closed
<1>. QED  BY <1>2, <1>3, <1>4, <1>5, <1>6, <1>7

LEMMA CloserQuiet ==
  ASSUME TypeOK, Remembered, WritesOpened, OnlyHeldLive,
         \/ StartReopen \/ ReopenLock \/ StartFinalize \/ FinalizeTimesOut
         \/ EndLock \/ HalfClosed \/ EndFails \/ EndAccepted \/ EndClosed
  PROVE  Quiet
<1>. Closer \in Procs  BY DEF Procs
<1>1. UNCHANGED <<sent, outbox, enq>>
  BY DEF StartReopen, ReopenLock, StartFinalize, FinalizeTimesOut, EndLock, HalfClosed, EndFails,
         EndAccepted, EndClosed
<1>2. CASE ReopenLock
  BY <1>1, <1>2, DropAndOpenQuiet DEF ReopenLock
<1>3. CASE StartReopen \/ EndClosed \/ (StartFinalize /\ ~UNCHANGED at)
  BY <1>1, <1>3, StepParks, ParksQuiet DEF StartReopen, StartFinalize, EndClosed
<1>4. CASE UNCHANGED at /\ StartFinalize
  BY <1>1, <1>4, LinksFacts, QuietFrom DEF StartFinalize, StaysHalf
<1>5. CASE EndFails \/ EndAccepted
  BY <1>1, <1>5, FinallyCloseQuiet DEF EndFails, EndAccepted
<1>6. CASE EndLock
  <2>1. CASE call = NoStream
    BY <1>1, <1>6, <2>1, FinallyCloseQuiet DEF EndLock
  <2>2. CASE call # NoStream
    <3>1. /\ UNCHANGED <<call, link>> /\ Moves(Closer) /\ at[Closer].pc = "end_lock"
          /\ at'[Closer].pc = "end_write" /\ at'[Closer].stream = call /\ at'[Closer].msg = EndFrame
      BY <1>6, <2>2, AtFields DEF EndLock, Moves, TypeOK
    <3>2. StaysHalf /\ Fresh(Closer)
      BY <2>2, <3>1 DEF StaysHalf, Fresh
    <3>. QED  BY <1>1, <3>1, <3>2, LinksFacts, QuietFrom DEF Moves
  <2>. QED  BY <2>1, <2>2
<1>7. CASE HalfClosed
  <2>1. UNCHANGED call /\ link[at[Closer].stream] = "open" /\ at[Closer].pc = "half_close"
    BY <1>7 DEF HalfClosed
  <2>2. CASE call = NoStream
    BY <1>1, <1>7, <2>1, <2>2, FinallyCloseQuiet DEF HalfClosed
  <2>3. CASE call # NoStream
    <3>1. link' = [link EXCEPT ![at[Closer].stream] = "half"]
      BY <1>7, <2>3 DEF HalfClosed
    <3>2. at[Closer].stream \in Streams
      BY <2>1 DEF WritesOpened
    <3>3. \A s \in Streams : link[s] = "open" => s = at[Closer].stream
      BY <2>1, <3>2 DEF OnlyHeldLive, Live
    <3>4. LinksQuiet
      BY <2>1, <3>1, <3>2, <3>3 DEF LinksQuiet, TypeOK
    <3>. QED  BY <1>1, <1>7, <2>1, <3>4, StepParks, ParksFresh, QuietFrom
  <2>. QED  BY <2>2, <2>3
<1>8. CASE FinalizeTimesOut
  <2>1. UNCHANGED call
    BY <1>8 DEF FinalizeTimesOut
  <2>2. CASE at[Closer].pc \in Finalizing
    BY <1>1, <1>8, <2>1, <2>2, FinallyCloseQuiet DEF FinalizeTimesOut
  <2>3. CASE at[Closer].pc \notin Finalizing
    <3>1. at[Closer].pc # "half_close" /\ (link' = link \/ \E t : link' = Killed(t))
      BY <1>8, <2>3 DEF FinalizeTimesOut, Finalizing
    <3>. QED  BY <1>1, <1>8, <2>1, <3>1, StepParks, ParksQuiet
  <2>. QED  BY <2>2, <2>3
<1>. QED  BY <1>2, <1>3, <1>4, <1>5, <1>6, <1>7, <1>8

LEMMA ReaderQuiet ==
  ASSUME TypeOK, OutboxOrder, Remembered, NEW r \in Readers, Frame(r) \/ CancelReader(r)
  PROVE  Quiet
<1>1. r \in Procs /\ r # Closer /\ Parks(r)
  BY StepParks DEF Procs
<1>2. StaysHalf
  BY <1>1 DEF StaysHalf, Parks, Moves, Procs
<1>3. CASE Frame(r)
  <2>1. UNCHANGED <<sent, call, link>> /\ enq <= enq'
    BY <1>3, Numbers DEF Frame
  <2>2. \A k \in DOMAIN outbox' : outbox'[k] = enq + 1 \/ \E j \in DOMAIN outbox : outbox'[k] = outbox[j]
    BY <1>3, FrameOutbox
  <2>. QED  BY <1>1, <1>2, <2>1, <2>2, ParksFresh, LinksFacts DEF Quiet
<1>4. CASE CancelReader(r)
  <2>1. UNCHANGED <<sent, outbox, enq, call>> /\ (link' = link \/ \E t : link' = Killed(t))
    BY <1>4 DEF CancelReader
  <2>. QED  BY <1>1, <1>2, <2>1, ParksFresh, LinksFacts, QuietFrom
<1>. QED  BY <1>3, <1>4

LEMMA GatewayQuiet ==
  ASSUME TypeOK, Gateway \/ (\E s \in Streams : Break(s)) \/ UNCHANGED vars
  PROVE  Quiet
<1>1. UNCHANGED <<sent, outbox, enq, call, at>>
  BY DEF Gateway, CooldownOver, Take, Receive, Accept, Break, client, vars
<1>2. StaysHalf
  BY <1>1 DEF StaysHalf
<1>3. CASE UNCHANGED link
  BY <1>1, <1>2, <1>3, LinksFacts, QuietFrom
<1>4. ASSUME NEW s \in Streams, Accept(s)
      PROVE  Quiet
  <2>1. LinksQuiet
    BY <1>2, <1>4 DEF Accept, LinksQuiet, StaysHalf, TypeOK
  <2>. QED  BY <1>1, <2>1, QuietFrom
<1>5. ASSUME NEW s \in Streams, link[s] # "none", link' = [link EXCEPT ![s] = "dead"]
      PROVE  Quiet
  BY <1>1, <1>2, <1>5, LinksFacts, QuietFrom
<1>. QED  BY <1>3, <1>4, <1>5
          DEF Gateway, CooldownOver, Take, Receive, Break, Live, client, vars

LEMMA OpenWrittenWrites ==
  ASSUME TypeOK, StreamsInHand, OnlyHeldLive, WritesOpened, Remembered, NEW p \in Procs, OpenWritten(p)
  PROVE  \E s \in Streams : Writes(p, s)
<1> DEFINE s == at[p].stream
<1>1. /\ at[p].pc = "open_write" /\ link[s] = "open" /\ call' = s
      /\ sent' = [sent EXCEPT ![s] = Append(@, Context)]
      /\ UNCHANGED <<outbox, enq, link>>
  BY DEF OpenWritten
<1>2. s \in Streams /\ at[p].msg = Context
  BY <1>1, OpenerFacts DEF Opening, WritesOpened
<1>3. Parks(p)
  BY StepParks
<1>. QED  BY <1>1, <1>2, <1>3 DEF Writes, Parks, Parked

LEMMA PumpWrittenWrites ==
  ASSUME TypeOK, WritesOpened, Remembered, NEW p \in Procs, PumpWritten(p)
  PROVE  \E s \in Streams : Writes(p, s)
<1> DEFINE s == at[p].stream
<1>1. /\ at[p].pc = "pump_write" /\ link[s] = "open"
      /\ sent' = [sent EXCEPT ![s] = Append(@, at[p].msg)]
      /\ outbox' = Tail(outbox) /\ UNCHANGED <<call, enq, link>>
  BY DEF PumpWritten
<1>2. s \in Streams
  BY <1>1 DEF WritesOpened
<1>3. CASE outbox' # <<>> /\ call # NoStream
  <2>1. /\ Moves(p) /\ at'[p].pc = "pump_write" /\ at'[p].stream = call /\ at'[p].msg = Head(outbox')
    BY <1>1, <1>3, AtFields DEF PumpWritten, Moves, TypeOK
  <2>. QED  BY <1>1, <1>2, <1>3, <2>1 DEF Writes
<1>4. CASE ~(outbox' # <<>> /\ call # NoStream)
  <2>1. Parks(p)
    BY <1>1, <1>4, HelpersPark DEF PumpWritten
  <2>. QED  BY <1>1, <1>2, <2>1 DEF Writes, Parks, Parked
<1>. QED  BY <1>3, <1>4

LEMMA EndWrittenWrites ==
  ASSUME TypeOK, WritesOpened, OnlyHeldLive, Remembered, EndWritten
  PROVE  \E s \in Streams : Writes(Closer, s)
<1>. Closer \in Procs  BY DEF Procs
<1> DEFINE s == at[Closer].stream
<1>1. /\ at[Closer].pc = "end_write" /\ link[s] = "open"
      /\ sent' = [sent EXCEPT ![s] = Append(@, EndFrame)]
      /\ UNCHANGED <<outbox, call, enq>>
  BY DEF EndWritten
<1>2. s \in Streams /\ at[Closer].msg = EndFrame
  BY <1>1 DEF WritesOpened
<1>3. CASE FinallyClose(Closer, "failed")
  <2>1. Parks(Closer)
    BY <1>3, HelpersPark
  <2>2. chan = s /\ chan # NoStream
    BY <1>1, <1>2, MessageFacts DEF OnlyHeldLive, Live
  <2>3. link' = Killed(chan)
    BY <1>3, <2>2, FinallyCloseShape
  <2>4. /\ link'[s] # "open"
        /\ \A t \in Streams : /\ link'[t] = "none" => link[t] = "none"
                              /\ link'[t] = "open" => link[t] = "open"
    BY <1>2, <2>2, <2>3 DEF Killed, TypeOK
  <2>. QED  BY <1>1, <1>2, <2>1, <2>4 DEF Writes, Parks, Parked
<1>4. CASE call # NoStream /\ at' = [at EXCEPT ![Closer] = At("half_close", call, Context, "none")]
  <2>1. /\ Moves(Closer) /\ at'[Closer].pc = "half_close" /\ at'[Closer].stream = call
    BY <1>4, AtFields DEF Moves, TypeOK
  <2>2. link' = link
    BY <1>4 DEF EndWritten
  <2>. QED  BY <1>1, <1>2, <1>4, <2>1, <2>2 DEF Writes
<1>. QED  BY <1>3, <1>4 DEF EndWritten

LEMMA BreakAfterReadWrites ==
  ASSUME TypeOK, NEW s \in Streams, BreakAfterRead(s)
  PROVE  \E p \in Procs : Writes(p, s)
<1>1. PICK p \in Procs : /\ at[p].pc \in Writing \ {"half_close"} /\ at[p].stream = s
                        /\ sent' = [sent EXCEPT ![s] = Append(@, at[p].msg)]
  BY DEF BreakAfterRead
<1>2. /\ UNCHANGED <<at, outbox, call, enq>> /\ link[s] = "open" /\ link' = [link EXCEPT ![s] = "dead"]
  BY DEF BreakAfterRead, client
<1>3. \A t \in Streams : /\ link'[t] = "none" => link[t] = "none"
                        /\ link'[t] = "open" => link[t] = "open"
  BY <1>2 DEF TypeOK
<1>4. link'[s] # "open"
  BY <1>2 DEF TypeOK
<1>5. at[p].pc \in {"open_write", "pump_write", "end_write"} /\ Moves(p)
  BY <1>1, <1>2 DEF Writing, Moves
<1>6. Writes(p, s)
  BY <1>1, <1>2, <1>3, <1>4, <1>5 DEF Writes
<1>. QED  BY <1>6

LEMMA StepWrites ==
  ASSUME IInv, [Next]_vars
  PROVE  Quiet \/ \E p \in Procs, s \in Streams : Writes(p, s)
<1>. USE DEF IInv
<1>1. ASSUME NEW p \in Procs, Sink(p)
      PROVE  Quiet \/ \E s \in Streams : Writes(p, s)
  BY <1>1, SinkQuiet, OpenWrittenWrites, PumpWrittenWrites DEF Sink
<1>2. ASSUME NEW r \in Readers, Frame(r) \/ CancelReader(r)
      PROVE  Quiet
  BY <1>2, ReaderQuiet
<1>3. CASE StartReopen \/ ReopenLock \/ StartFinalize \/ Finalize \/ FinalizeTimesOut
  BY <1>3, CloserQuiet, EndWrittenWrites DEF Finalize, Procs
<1>4. ASSUME NEW s \in Streams, BreakAfterRead(s)
      PROVE  \E p \in Procs : Writes(p, s)
  BY <1>4, BreakAfterReadWrites
<1>5. CASE Gateway \/ (\E s \in Streams : Break(s)) \/ UNCHANGED vars
  BY <1>5, GatewayQuiet
<1>. QED  BY <1>1, <1>2, <1>3, <1>4, <1>5 DEF Next, Faults, Finished

-----------------------------------------------------------------------------
(* The theorems.                                                            *)

LEMMA InvariantStep ==
  ASSUME IInv, [Next]_vars
  PROVE  IInv'
<1>. USE DEF IInv
<1>1. TypeOK' /\ Exclusion' /\ Remembered' /\ PumpHead' /\ OutboxOrder'
  BY TypeStep, LocksStep, OutboxStep
<1>2. StreamsInHand' /\ OnlyHeldLive'
  BY StreamsStep
<1>3. CASE Quiet
  <2>1. SentOrder'
    BY <1>3, QuietSentOrder
  <2>2. SentBefore'
    BY <1>1, <1>3, QuietSentBefore
  <2>3. WritesOpened'
    BY <1>3, QuietWritesOpened
  <2>. QED  BY <1>1, <1>2, <2>1, <2>2, <2>3
<1>4. ASSUME NEW p \in Procs, NEW s \in Streams, Writes(p, s)
      PROVE  SentOrder' /\ SentBefore' /\ WritesOpened'
  BY <1>1, <1>4, WriteSentOrder, WriteSentBefore, WriteWritesOpened
<1>. QED  BY <1>1, <1>2, <1>3, <1>4, StepWrites

LEMMA InvariantInit == Init => IInv
<1> SUFFICES ASSUME Init PROVE IInv
  OBVIOUS
<1>1. TypeOK
  <2>1. Idle \in Suspension
    BY IdleType
  <2>2. /\ outbox \in Seq(Frames) /\ dropped \in SUBSET Frames
        /\ sent \in [Streams -> Seq(Messages)] /\ rcvd \in [Streams -> Nat]
    BY DEF Init
  <2>3. /\ call \in Streams \cup {NoStream} /\ chan \in Streams \cup {NoStream}
        /\ cooling \in BOOLEAN /\ meeting \in {"absent", "live", "ending", "taken"}
    BY DEF Init
  <2>5. enq \in 0..MaxFrames
    BY DEF Init
  <2>4. at \in [Procs -> Suspension] /\ outcome \in Outcomes /\ link \in [Streams -> LinkStates]
    BY <2>1 DEF Init, Outcomes, LinkStates
  <2>. QED  BY <2>2, <2>3, <2>4, <2>5 DEF TypeOK
<1>2. \A p \in Procs : at[p].pc = "idle"
  BY AtFields DEF Init, Idle
<1>3. Exclusion /\ Remembered /\ PumpHead /\ WritesOpened
  BY <1>2 DEF Exclusion, Remembered, PumpHead, WritesOpened, Writing, Opening, Finalizing
<1>4. StreamsInHand /\ OnlyHeldLive
  BY <1>2 DEF StreamsInHand, OnlyHeldLive, Live, Opening, Init
<1>5. \A s \in Streams : sent[s] = <<>>
  BY DEF Init
<1>6. Increasing(<<>>)
  BY DEF Increasing
<1>7. OutboxOrder
  BY <1>6 DEF Init, OutboxOrder
<1>8. SentOrder /\ SentBefore
  BY <1>2, <1>5, <1>6, MessageFacts DEF SentOrder, SentBefore, Init
<1>. QED  BY <1>1, <1>3, <1>4, <1>7, <1>8 DEF IInv

\* The whole invariant holds throughout: the locks exclude, the streams in hand
\* fit, the outbox and the streams line up.
THEOREM Invariant == Spec => []IInv
BY InvariantInit, InvariantStep, PTL DEF Spec

\* Every variable keeps its type.
THEOREM TypeCorrect == Spec => []TypeOK
<1>1. IInv => TypeOK
  BY DEF IInv
<1>. QED  BY <1>1, Invariant, PTL

\* At most one of a call's streams is live, however reconnects, reopens and
\* cancellations interleave.
THEOREM StreamsExclude == Spec => []OneLiveStream
<1>1. IInv => OneLiveStream
  BY DEF IInv, OnlyHeldLive, OneLiveStream
<1>. QED  BY <1>1, Invariant, PTL

\* Every stream starts with the context, carries the audio in the order of its
\* capture and never twice, and ends with the end frame.
THEOREM StreamsInOrder == Spec => []ContractOrder
<1>1. IInv => ContractOrder
  BY DEF IInv, SentOrder, Increasing, ContractOrder
<1>. QED  BY <1>1, Invariant, PTL

-----------------------------------------------------------------------------
(* Streams are opened in turn.                                              *)

\* A step opens the first unused stream, or leaves every stream as used as it
\* was and holds no other channel.
Opens ==
  \E s \in Unused : /\ \A t \in Unused : s <= t
                    /\ link' = [link EXCEPT ![s] = "open"]
                    /\ chan' = s

KeepsTurn ==
  /\ \A t \in Streams : link'[t] = "none" <=> link[t] = "none"
  /\ chan' \in {chan, NoStream}

LEMMA TurnKept ==
  ASSUME TypeOK, InTurn, Opens \/ KeepsTurn
  PROVE  InTurn'
<1>. \A s \in Streams : s \in Int
  BY DEF Streams
<1>1. CASE KeepsTurn
  <2>1. chan' # NoStream => chan' = chan /\ chan \in Streams
    BY <1>1 DEF KeepsTurn, TypeOK
  <2>. QED  BY <1>1, <2>1 DEF KeepsTurn, InTurn
<1>2. ASSUME NEW s \in Unused, \A t \in Unused : s <= t,
             link' = [link EXCEPT ![s] = "open"], chan' = s
      PROVE  InTurn'
  <2>1. s \in Streams /\ link[s] = "none" /\ link'[s] = "open"
    BY <1>2 DEF Unused, TypeOK
  <2>2. \A t \in Streams : t # s => link'[t] = link[t]
    BY <1>2 DEF TypeOK
  <2>3. \A t \in Streams : link[t] = "none" => s <= t
    BY <1>2 DEF Unused
  <2>4. ASSUME NEW u \in Streams, NEW t \in Streams, u < t, link'[u] = "none"
        PROVE  link'[t] = "none"
    <3>1. u # s /\ link[u] = "none" /\ link[t] = "none"
      BY <2>1, <2>2, <2>4 DEF InTurn
    <3>2. t # s
      BY <2>3, <2>4, <3>1
    <3>. QED  BY <2>2, <3>1, <3>2
  <2>5. ASSUME NEW t \in Streams, s < t
        PROVE  link'[t] = "none"
    <3>1. link[t] = "none" /\ t # s
      BY <2>1, <2>5 DEF InTurn
    <3>. QED  BY <2>2, <3>1
  <2>. QED  BY <1>2, <2>1, <2>4, <2>5 DEF InTurn
<1>. QED  BY <1>1, <1>2 DEF Opens

\* The stream a coroutine has in hand was opened.
LEMMA InHandOpened ==
  ASSUME TypeOK, StreamsInHand, OnlyHeldLive, SentOrder, WritesOpened, NEW p \in Procs,
         at[p].pc \in {"open_lock", "open_write", "pump_write", "end_write", "half_close"}
  PROVE  at[p].stream \in Streams /\ link[at[p].stream] # "none"
<1>1. CASE at[p].pc \in {"open_lock", "open_write"}
  BY <1>1, OpenerFacts DEF Opening
<1>2. CASE at[p].pc \in {"pump_write", "end_write", "half_close"}
  BY <1>2 DEF WritesOpened, SentOrder
<1>. QED  BY <1>1, <1>2

LEMMA KilledTurn ==
  ASSUME TypeOK, NEW t, t \in Streams => link[t] # "none", link' = Killed(t), chan' \in {chan, NoStream}
  PROVE  KeepsTurn
BY DEF Killed, KeepsTurn, TypeOK

LEMMA OpenCallTurn ==
  ASSUME NEW p, NEW why, OpenCall(p, why)
  PROVE  Opens \/ UNCHANGED <<link, chan>>
BY DEF OpenCall, Opens

LEMMA DropAndOpenTurn ==
  ASSUME TypeOK, InTurn, NEW p, NEW why, DropAndOpen(p, why)
  PROVE  Opens \/ KeepsTurn
<1>1. CASE chan = NoStream
  <2>1. Opens \/ UNCHANGED <<link, chan>>
    BY <1>1, OpenCallTurn DEF DropAndOpen
  <2>. QED  BY <2>1 DEF KeepsTurn
<1>2. CASE chan # NoStream
  BY <1>2, KilledTurn DEF DropAndOpen, InTurn
<1>. QED  BY <1>1, <1>2

LEMMA FinallyCloseTurn ==
  ASSUME TypeOK, InTurn, NEW result, FinallyClose(Closer, result), UNCHANGED chan
  PROVE  KeepsTurn
<1>1. CASE chan = NoStream
  BY <1>1 DEF FinallyClose, KeepsTurn
<1>2. CASE chan # NoStream
  BY <1>2, KilledTurn DEF FinallyClose, InTurn
<1>. QED  BY <1>1, <1>2

LEMMA CancelTurn ==
  ASSUME TypeOK, StreamsInHand, OnlyHeldLive, SentOrder, WritesOpened, NEW p \in Procs, UNCHANGED chan,
         link' = IF at[p].pc \in {"open_lock", "open_write", "pump_write"}
                 THEN Killed(at[p].stream) ELSE link
  PROVE  KeepsTurn
<1>1. CASE at[p].pc \in {"open_lock", "open_write", "pump_write"}
  BY <1>1, InHandOpened, KilledTurn
<1>2. CASE at[p].pc \notin {"open_lock", "open_write", "pump_write"}
  BY <1>2 DEF KeepsTurn
<1>. QED  BY <1>1, <1>2

LEMMA SinkTurn ==
  ASSUME TypeOK, InTurn, NEW p \in Procs, Sink(p)
  PROVE  Opens \/ KeepsTurn
<1>1. UNCHANGED <<link, chan>> => KeepsTurn
  BY DEF KeepsTurn
<1>2. CASE EnsureLock(p)
  BY <1>1, <1>2, OpenCallTurn DEF EnsureLock
<1>3. CASE OpenLock(p) \/ OpenWritten(p) \/ OpenFails(p) \/ PumpLock(p) \/ PumpWritten(p) \/ PumpFails(p)
  BY <1>1, <1>3 DEF OpenLock, OpenWritten, OpenFails, PumpLock, PumpWritten, PumpFails
<1>4. CASE ReconnectLock(p)
  BY <1>1, <1>4, DropAndOpenTurn DEF ReconnectLock
<1>5. CASE Closed(p)
  BY <1>1, <1>5, OpenCallTurn DEF Closed
<1>. QED  BY <1>2, <1>3, <1>4, <1>5 DEF Sink

LEMMA CloserTurn ==
  ASSUME IInv, InTurn, StartReopen \/ ReopenLock \/ StartFinalize \/ Finalize \/ FinalizeTimesOut
  PROVE  Opens \/ KeepsTurn
<1>. USE DEF IInv
<1>. Closer \in Procs  BY DEF Procs
<1>0. UNCHANGED <<link, chan>> => KeepsTurn
  BY DEF KeepsTurn
<1>1. CASE StartReopen \/ StartFinalize \/ EndClosed
  BY <1>0, <1>1 DEF StartReopen, StartFinalize, EndClosed
<1>2. CASE ReopenLock
  BY <1>2, DropAndOpenTurn DEF ReopenLock
<1>3. CASE EndLock \/ EndWritten
  BY <1>0, <1>3, FinallyCloseTurn DEF EndLock, EndWritten
<1>4. CASE EndFails \/ EndAccepted
  BY <1>4, FinallyCloseTurn DEF EndFails, EndAccepted
<1>5. CASE HalfClosed
  <2>1. CASE call = NoStream
    BY <1>5, <2>1, FinallyCloseTurn DEF HalfClosed
  <2>2. CASE call # NoStream
    BY <1>5, <2>2 DEF HalfClosed, KeepsTurn, TypeOK
  <2>. QED  BY <2>1, <2>2
<1>6. CASE FinalizeTimesOut
  BY <1>6, FinallyCloseTurn, CancelTurn DEF FinalizeTimesOut
<1>. QED  BY <1>1, <1>2, <1>3, <1>4, <1>5, <1>6 DEF Finalize

LEMMA GatewayTurn ==
  ASSUME TypeOK, Gateway \/ (\E s \in Streams : Break(s) \/ BreakAfterRead(s)) \/ UNCHANGED vars
  PROVE  KeepsTurn
<1>1. UNCHANGED chan
  BY DEF Gateway, CooldownOver, Take, Receive, Accept, Break, BreakAfterRead, client, vars
<1>2. CASE UNCHANGED link
  BY <1>1, <1>2 DEF KeepsTurn
<1>3. ASSUME NEW s \in Streams, link[s] # "none", NEW l \in LinkStates \ {"none"},
             link' = [link EXCEPT ![s] = l]
      PROVE  KeepsTurn
  BY <1>1, <1>3 DEF KeepsTurn, TypeOK
<1>4. "dead" \in LinkStates \ {"none"} /\ "done" \in LinkStates \ {"none"}
  BY DEF LinkStates
<1>. QED  BY <1>2, <1>3, <1>4
          DEF Gateway, CooldownOver, Take, Receive, Accept, Break, BreakAfterRead, Live, client, vars

LEMMA InTurnStep ==
  ASSUME IInv, InTurn, [Next]_vars
  PROVE  InTurn'
<1>. USE DEF IInv
<1>1. ASSUME NEW r \in Readers, Frame(r)
      PROVE  KeepsTurn
  BY <1>1 DEF Frame, KeepsTurn
<1>2. ASSUME NEW r \in Readers, CancelReader(r)
      PROVE  KeepsTurn
  BY <1>2, CancelTurn DEF CancelReader, Procs
<1>3. Opens \/ KeepsTurn
  BY <1>1, <1>2, SinkTurn, CloserTurn, GatewayTurn DEF Next, Faults, Finished
<1>. QED  BY <1>3, TurnKept

-----------------------------------------------------------------------------
(* Nothing older than what was carried is left to write.                    *)

LEMMA QuietReplayed ==
  ASSUME IInv, Replayed, Quiet
  PROVE  Replayed'
<1>. USE DEF IInv
<1> SUFFICES ASSUME NEW s \in Streams, NEW i \in DOMAIN sent[s], sent[s][i] \in Frames
             PROVE  /\ \A k \in DOMAIN outbox' : sent[s][i] <= outbox'[k]
                    /\ \A p \in Procs : at'[p].pc = "pump_write" => sent[s][i] <= at'[p].msg
  BY DEF Replayed, Quiet
<1>1. sent[s][i] \in Nat /\ sent[s][i] <= enq
  BY Numbers, MessageFacts DEF SentBefore
<1>2. /\ \A k \in DOMAIN outbox : sent[s][i] <= outbox[k]
      /\ \A p \in Procs : at[p].pc = "pump_write" => sent[s][i] <= at[p].msg
  BY DEF Replayed
<1>3. ASSUME NEW k \in DOMAIN outbox'
      PROVE  sent[s][i] <= outbox'[k]
  <2>1. outbox'[k] = enq + 1 \/ \E j \in DOMAIN outbox : outbox'[k] = outbox[j]
    BY DEF Quiet
  <2>. QED  BY <1>1, <1>2, <2>1, Numbers
<1>4. ASSUME NEW p \in Procs, at'[p].pc = "pump_write"
      PROVE  sent[s][i] <= at'[p].msg
  <2>1. CASE at'[p] = at[p]
    BY <1>2, <1>4, <2>1
  <2>2. CASE Fresh(p)
    BY <1>2, <1>4, <2>2, Numbers DEF Fresh
  <2>. QED  BY <2>1, <2>2 DEF Quiet
<1>. QED  BY <1>3, <1>4

\* A write puts a frame on its stream only if p pumps it, and then it is no
\* younger than any that waits.
LEMMA WrittenFrame ==
  ASSUME IInv, NEW p \in Procs, NEW s \in Streams, Writes(p, s), at[p].msg \in Frames
  PROVE  at[p].pc = "pump_write" /\ \A k \in DOMAIN outbox : at[p].msg <= outbox[k]
<1>. USE DEF IInv
<1>1. at[p].msg # EndFrame /\ at[p].msg # Context
  BY DEF Frames, EndFrame, Context
<1>2. at[p].pc = "pump_write" /\ outbox # <<>> /\ at[p].msg <= Head(outbox)
  BY <1>1, WriteFacts DEF Writes
<1>3. ASSUME NEW k \in DOMAIN outbox
      PROVE  at[p].msg <= outbox[k]
  <2>1. /\ 1 \in DOMAIN outbox /\ Head(outbox) = outbox[1]
        /\ at[p].msg \in Nat /\ outbox[1] \in Nat /\ outbox[k] \in Nat
    BY <1>2, Numbers
  <2>2. outbox \in Seq(Nat)
    BY Numbers
  <2>3. k = 1 \/ 1 < k
    BY <2>2
  <2>4. 1 < k => outbox[1] < outbox[k]
    BY <2>1 DEF OutboxOrder, Increasing
  <2>. QED  BY <1>2, <2>1, <2>3, <2>4
<1>. QED  BY <1>2, <1>3

LEMMA WriteReplayed ==
  ASSUME IInv, IInv', Replayed, NEW p \in Procs, NEW s \in Streams, Writes(p, s)
  PROVE  Replayed'
<1>. USE DEF IInv
<1> SUFFICES ASSUME NEW t \in Streams, NEW i \in DOMAIN sent'[t], sent'[t][i] \in Frames
             PROVE  /\ \A k \in DOMAIN outbox' : sent'[t][i] <= outbox'[k]
                    /\ \A q \in Procs : at'[q].pc = "pump_write" => sent'[t][i] <= at'[q].msg
  BY DEF Replayed
<1>1. \/ sent'[t][i] = at[p].msg
      \/ i \in DOMAIN sent[t] /\ sent'[t][i] = sent[t][i]
  BY WriteSent
<1>2. \A k \in DOMAIN outbox : sent'[t][i] <= outbox[k]
  BY <1>1, WrittenFrame DEF Replayed
<1>3. \A k \in DOMAIN outbox' : sent'[t][i] <= outbox'[k]
  BY <1>2, WriteOutbox
<1>4. ASSUME NEW q \in Procs, at'[q].pc = "pump_write"
      PROVE  sent'[t][i] <= at'[q].msg
  <2>1. CASE at' = at
    <3>1. q = p
      BY <1>4, <2>1 DEF Exclusion, Writing, Writes
    <3>2. at[p].msg <= at[p].msg
      BY Numbers
    <3>. QED  BY <1>1, <1>4, <2>1, <3>1, <3>2 DEF Replayed
  <2>2. CASE at' # at
    <3>1. q = p
      <4>1. q # p => at'[q] = at[q]
        BY DEF Writes, Moves
      <4>. QED  BY <1>4, <4>1 DEF Exclusion, Writing, Writes
    <3>2. outbox' # <<>> /\ at'[p].msg = Head(outbox')
      BY <1>4, <2>2, <3>1 DEF Writes
    <3>3. outbox' \in Seq(Frames)
      BY DEF TypeOK
    <3>4. 1 \in DOMAIN outbox' /\ Head(outbox') = outbox'[1]
      BY <3>2, <3>3
    <3>. QED  BY <1>3, <3>1, <3>2, <3>4
  <2>. QED  BY <2>1, <2>2
<1>. QED  BY <1>3, <1>4

LEMMA WriteReplayOrder ==
  ASSUME IInv, InTurn, Replayed, ReplayOrder, NEW p \in Procs, NEW s \in Streams, Writes(p, s)
  PROVE  ReplayOrder'
<1>. USE DEF IInv
<1> SUFFICES ASSUME NEW u \in Streams, NEW t \in Streams, u < t,
                    NEW i \in DOMAIN sent'[u], NEW j \in DOMAIN sent'[t],
                    sent'[u][i] \in Frames, sent'[t][j] \in Frames
             PROVE  sent'[u][i] <= sent'[t][j]
  BY DEF ReplayOrder
<1>1. u # t
  BY DEF Streams
<1>2. CASE u = s
  <2>1. s = chan
    BY DEF Writes, OnlyHeldLive, Live
  <2>2. link[t] = "none"
    BY <1>2, <2>1, MessageFacts DEF InTurn
  <2>3. sent'[t] = <<>>
    BY <1>1, <1>2, <2>2, WriteSent DEF SentOrder
  <2>. QED  BY <2>3
<1>3. CASE u # s
  <2>1. sent'[u] = sent[u]
    BY <1>3, WriteSent
  <2>2. CASE sent'[t][j] = at[p].msg
    BY <2>1, <2>2, WrittenFrame DEF Replayed
  <2>3. CASE j \in DOMAIN sent[t] /\ sent'[t][j] = sent[t][j]
    BY <2>1, <2>3 DEF ReplayOrder
  <2>. QED  BY <2>2, <2>3, WriteSent
<1>. QED  BY <1>2, <1>3

-----------------------------------------------------------------------------
(* The theorem.                                                             *)

LEMMA ReplayStep ==
  ASSUME RInv, [Next]_vars
  PROVE  RInv'
<1>1. IInv /\ InTurn /\ Replayed /\ ReplayOrder
  BY DEF RInv
<1>2. IInv' /\ InTurn'
  BY <1>1, InvariantStep, InTurnStep
<1>3. CASE Quiet
  <2>1. ReplayOrder'
    BY <1>1, <1>3 DEF Quiet, ReplayOrder
  <2>. QED  BY <1>1, <1>2, <1>3, <2>1, QuietReplayed DEF RInv
<1>4. ASSUME NEW p \in Procs, NEW s \in Streams, Writes(p, s)
      PROVE  RInv'
  BY <1>1, <1>2, <1>4, WriteReplayed, WriteReplayOrder DEF RInv
<1>. QED  BY <1>1, <1>3, <1>4, StepWrites

LEMMA ReplayInit == Init => RInv
<1> SUFFICES ASSUME Init PROVE RInv
  OBVIOUS
<1>1. chan = NoStream /\ (\A s \in Streams : sent[s] = <<>>) /\ \A s \in Streams : link[s] = "none"
  BY DEF Init
<1>2. InTurn /\ Replayed /\ ReplayOrder
  BY <1>1 DEF InTurn, Replayed, ReplayOrder
<1>. QED  BY <1>2, InvariantInit DEF RInv

\* However a call's streams break, are cancelled, reconnected and reopened, a
\* later stream never carries audio older than what an earlier one carried.
THEOREM ReplaysInOrder == Spec => []ReplayOrder
<1>1. RInv => ReplayOrder
  BY DEF RInv
<1>2. Spec => []RInv
  BY ReplayInit, ReplayStep, PTL DEF Spec
<1>. QED  BY <1>1, <1>2, PTL

-----------------------------------------------------------------------------
(* What a step does to the frames.                                          *)

\* Nothing new waits, goes out or is evicted; whoever starts the write of a
\* frame takes the head of the outbox.
FramesKept ==
  /\ UNCHANGED <<sent, outbox, enq, dropped>>
  /\ \A p \in Procs : at'[p].pc = "pump_write" =>
       at'[p] = at[p] \/ (outbox # <<>> /\ at'[p].msg = Head(outbox))

\* A message goes out and the outbox stays: the context, the end frame, or a
\* frame the gateway read although its write raised.
GoesOut(p, s) ==
  /\ at[p].stream = s /\ at[p].pc \in {"open_write", "pump_write", "end_write"}
  /\ sent' = [sent EXCEPT ![s] = Append(@, at[p].msg)]
  /\ UNCHANGED <<outbox, enq, dropped>>
  /\ \A q \in Procs : at'[q].pc = "pump_write" => at'[q] = at[q]

LEMMA QuietKept ==
  ASSUME Quiet, UNCHANGED <<outbox, enq, dropped>>
  PROVE  FramesKept
BY DEF Quiet, Fresh, FramesKept

LEMMA StepFrames ==
  ASSUME IInv, [Next]_vars
  PROVE  \/ FramesKept
         \/ \E r \in Readers : Frame(r)
         \/ \E p \in Procs : PumpWritten(p)
         \/ \E p \in Procs, s \in Streams : GoesOut(p, s)
<1>. USE DEF IInv
<1>1. ASSUME NEW p \in Procs,
             \/ EnsureLock(p) \/ OpenLock(p) \/ OpenFails(p) \/ PumpLock(p) \/ PumpFails(p)
             \/ ReconnectLock(p) \/ Closed(p)
      PROVE  FramesKept
  <2>1. UNCHANGED <<outbox, enq, dropped>>
    BY <1>1 DEF EnsureLock, OpenLock, OpenFails, PumpLock, PumpFails, ReconnectLock, Closed
  <2>. QED  BY <1>1, <2>1, SinkQuiet, QuietKept
<1>2. ASSUME NEW p \in Procs, OpenWritten(p)
      PROVE  \E s \in Streams : GoesOut(p, s)
  <2>1. Parks(p)
    BY <1>2, StepParks
  <2>2. at[p].stream \in Streams /\ at[p].msg = Context
    BY <1>2, OpenerFacts DEF OpenWritten, Opening, WritesOpened
  <2>. QED  BY <1>2, <2>1, <2>2 DEF OpenWritten, GoesOut, Parks, Parked, Moves
<1>3. CASE \/ StartReopen \/ ReopenLock \/ StartFinalize \/ FinalizeTimesOut
           \/ EndLock \/ HalfClosed \/ EndFails \/ EndAccepted \/ EndClosed
  <2>1. UNCHANGED <<outbox, enq, dropped>>
    BY <1>3 DEF StartReopen, ReopenLock, StartFinalize, FinalizeTimesOut, EndLock, HalfClosed, EndFails,
                EndAccepted, EndClosed
  <2>. QED  BY <1>3, <2>1, CloserQuiet, QuietKept
<1>4. ASSUME EndWritten
      PROVE  \E s \in Streams : GoesOut(Closer, s)
  <2>. Closer \in Procs  BY DEF Procs
  <2>1. at[Closer].stream \in Streams /\ at[Closer].msg = EndFrame /\ at[Closer].pc = "end_write"
    BY <1>4 DEF EndWritten, WritesOpened
  <2>2. \A q \in Procs : at'[q].pc = "pump_write" => at'[q] = at[q]
    <3>1. CASE FinallyClose(Closer, "failed")
      BY <3>1, HelpersPark DEF Parks, Parked, Moves
    <3>2. CASE at' = [at EXCEPT ![Closer] = At("half_close", call, Context, "none")]
      BY <3>2, AtFields DEF TypeOK
    <3>. QED  BY <1>4, <3>1, <3>2 DEF EndWritten
  <2>. QED  BY <1>4, <2>1, <2>2 DEF EndWritten, GoesOut
<1>5. ASSUME NEW r \in Readers, CancelReader(r)
      PROVE  FramesKept
  BY <1>5, ReaderQuiet, QuietKept DEF CancelReader
<1>6. CASE Gateway \/ (\E s \in Streams : Break(s)) \/ UNCHANGED vars
  <2>1. UNCHANGED <<outbox, enq, dropped>>
    BY <1>6 DEF Gateway, CooldownOver, Take, Receive, Accept, Break, client, vars
  <2>. QED  BY <1>6, <2>1, GatewayQuiet, QuietKept
<1>7. ASSUME NEW s \in Streams, BreakAfterRead(s)
      PROVE  \E p \in Procs : GoesOut(p, s)
  BY <1>7 DEF BreakAfterRead, GoesOut, Writing, client
<1>. QED  BY <1>1, <1>2, <1>3, <1>4, <1>5, <1>6, <1>7 DEF Next, Sink, Finalize, Faults, Finished, Procs

-----------------------------------------------------------------------------
(* Sets of frames.                                                          *)

LEMMA CardinalityFacts ==
  ASSUME TypeOK, dropped \subseteq 1..enq
  PROVE  /\ IsFiniteSet(Lost) /\ Cardinality(Lost) \in Nat
         /\ IsFiniteSet(dropped) /\ Cardinality(dropped) \in Nat
<1>1. IsFiniteSet(1..enq)
  BY FS_Interval DEF TypeOK
<1>2. Lost \in SUBSET (1..enq)
  BY DEF Lost
<1>3. IsFiniteSet(Lost) /\ IsFiniteSet(dropped)
  BY <1>1, <1>2, FS_Subset
<1>. QED  BY <1>3, FS_CardinalityType

LEMMA SmallerSet ==
  ASSUME NEW S, NEW T \in SUBSET S, IsFiniteSet(S)
  PROVE  Cardinality(T) <= Cardinality(S)
BY FS_Subset

\* An outbox's frames, and which is at its head.
LEMMA OutboxRange ==
  ASSUME TypeOK, OutboxOrder
  PROVE  /\ \A f \in Range(outbox) : f \in Frames /\ f <= enq
         /\ outbox # <<>> => /\ Head(outbox) \in Range(outbox) /\ Head(outbox) \in Frames
                             /\ Head(outbox) <= enq
                             /\ \A f \in Range(outbox) : Head(outbox) <= f
<1>1. outbox \in Seq(Frames) /\ outbox \in Seq(Nat)
  BY Numbers DEF TypeOK
<1>2. \A f \in Range(outbox) : f \in Frames /\ f <= enq
  BY <1>1 DEF Range, OutboxOrder
<1>3. ASSUME outbox # <<>>
      PROVE  /\ Head(outbox) \in Range(outbox)
             /\ \A f \in Range(outbox) : Head(outbox) <= f
  <2>1. 1 \in DOMAIN outbox /\ Head(outbox) = outbox[1] /\ outbox[1] \in Nat
    BY <1>1, <1>3
  <2>2. ASSUME NEW k \in DOMAIN outbox
        PROVE  Head(outbox) <= outbox[k]
    <3>1. k = 1 \/ 1 < k
      BY <1>1
    <3>2. 1 < k => outbox[1] < outbox[k]
      BY <2>1 DEF OutboxOrder, Increasing
    <3>. QED  BY <1>1, <2>1, <3>1, <3>2
  <2>. QED  BY <2>1, <2>2 DEF Range
<1>. QED  BY <1>2, <1>3

\* What is written after a write.
LEMMA WrittenAfter ==
  ASSUME TypeOK, NEW s \in Streams, NEW m, sent' = [sent EXCEPT ![s] = Append(@, m)]
  PROVE  \A f : Written(f)' <=> Written(f) \/ f = m
<1>1. sent[s] \in Seq(Nat)
  BY Numbers
<1>2. sent'[s] = Append(sent[s], m) /\ \A t \in Streams : t # s => sent'[t] = sent[t]
  BY DEF TypeOK
<1>3. DOMAIN Append(sent[s], m) = 1..(Len(sent[s]) + 1) /\ Len(sent[s]) \in Nat /\ DOMAIN sent[s] = 1..Len(sent[s])
  BY <1>1
<1>4. /\ \A i \in DOMAIN sent[s] : i \in DOMAIN sent'[s] /\ sent'[s][i] = sent[s][i]
      /\ Len(sent[s]) + 1 \in DOMAIN sent'[s] /\ sent'[s][Len(sent[s]) + 1] = m
  BY <1>1, <1>2, <1>3
<1>5. \A i \in DOMAIN sent'[s] : i \in DOMAIN sent[s] \/ i = Len(sent[s]) + 1
  BY <1>2, <1>3
<1>6. \A f : f \in Range(sent'[s]) <=> f \in Range(sent[s]) \/ f = m
  BY <1>4, <1>5 DEF Range
<1>. QED  BY <1>2, <1>6 DEF Written

\* What is on the streams has been enqueued, if it is a frame; a frame being
\* written too.
LEMMA PumpedFacts ==
  ASSUME TypeOK, PumpHead, OutboxOrder, NEW p \in Procs, at[p].pc = "pump_write"
  PROVE  /\ outbox # <<>> /\ at[p].msg \in 1..enq /\ at[p].msg <= Head(outbox)
         /\ at[p].msg < Head(outbox) => at[p].msg \notin Range(outbox)
<1>1. outbox # <<>> /\ at[p].msg \in Frames /\ at[p].msg <= Head(outbox)
  BY DEF PumpHead
<1>2. /\ Head(outbox) \in Frames /\ Head(outbox) <= enq
      /\ \A f \in Range(outbox) : f \in Frames /\ Head(outbox) <= f
  BY <1>1, OutboxRange
<1>3. enq \in Nat
  BY Numbers
<1>. QED  BY <1>1, <1>2, <1>3 DEF Frames

-----------------------------------------------------------------------------
(* No step loses more than it counts.                                       *)

LEMMA KeptLoss ==
  ASSUME IInv, Evictions, LossCounted, FramesKept
  PROVE  Evictions' /\ LossCounted'
<1>1. Lost' = Lost /\ \A f : Written(f)' = Written(f)
  BY DEF FramesKept, Lost, Written
<1>2. ASSUME NEW p \in Procs, Overtaken(p)'
      PROVE  at'[p] = at[p] /\ Overtaken(p)
  <2>1. outbox # <<>> => Head(outbox) \in Nat
    BY Numbers DEF IInv
  <2>. QED  BY <1>2, <2>1 DEF Overtaken, FramesKept
<1>. QED  BY <1>1, <1>2 DEF FramesKept, Evictions, LossCounted

\* A frame more waits; a full outbox loses its head, and counts it.
LEMMA FrameLoss ==
  ASSUME IInv, Evictions, LossCounted, NEW r \in Readers, Frame(r)
  PROVE  Evictions' /\ LossCounted'
<1>. USE DEF IInv
<1>1. enq' = enq + 1 /\ enq \in Nat /\ sent' = sent
  BY Numbers DEF Frame
<1>2. \A f : Written(f)' = Written(f)
  BY <1>1 DEF Written
<1>3. /\ Cardinality(Lost) \in Nat /\ Cardinality(dropped) \in Nat
      /\ IsFiniteSet(Lost) /\ IsFiniteSet(dropped)
      /\ Cardinality(Lost) <= Cardinality(dropped)
  BY CardinalityFacts DEF Evictions, LossCounted
<1>4. \A p \in Procs : at'[p].pc = "pump_write" => at'[p] = at[p]
  BY StepParks DEF Procs, Parks, Parked, Moves
<1>5. outbox \in Seq(Frames) /\ outbox \in Seq(Nat) /\ \A f \in Range(outbox) : f <= enq
  BY Numbers, OutboxRange DEF TypeOK
<1>6. CASE Len(outbox) < MaxOutbox
  <2>1. outbox' = Append(outbox, enq + 1) /\ dropped' = dropped
    BY <1>6 DEF Frame
  <2>2. \A f : f \in Range(outbox') <=> f \in Range(outbox) \/ f = enq + 1
    <3>1. /\ DOMAIN outbox' = 1..(Len(outbox) + 1) /\ outbox'[Len(outbox) + 1] = enq + 1
          /\ \A i \in 1..Len(outbox) : outbox'[i] = outbox[i]
          /\ DOMAIN outbox = 1..Len(outbox) /\ Len(outbox) \in Nat
      BY <1>1, <1>5, <2>1
    <3>2. /\ \A i \in DOMAIN outbox : i \in DOMAIN outbox' /\ outbox'[i] = outbox[i]
          /\ \A i \in DOMAIN outbox' : i \in DOMAIN outbox \/ i = Len(outbox) + 1
          /\ Len(outbox) + 1 \in DOMAIN outbox'
      BY <3>1
    <3>. QED  BY <3>1, <3>2 DEF Range
  <2>3. Lost' = Lost
    <3>1. \A f \in 1..(enq + 1) : f \in 1..enq \/ f = enq + 1
      BY <1>1
    <3>2. 1..enq \subseteq 1..(enq + 1) /\ enq + 1 \notin 1..enq
      BY <1>1
    <3>. QED  BY <1>1, <1>2, <2>2, <3>1, <3>2 DEF Lost
  <2>4. dropped' \subseteq 1..enq'
    BY <1>1, <2>1 DEF Evictions
  <2>5. \A d \in dropped', k \in DOMAIN outbox' : d < outbox'[k]
    <3>1. \A k \in DOMAIN outbox' : outbox'[k] = enq + 1 \/ \E j \in DOMAIN outbox : outbox'[k] = outbox[j]
      BY FrameOutbox
    <3>. QED  BY <1>1, <2>1, <3>1 DEF Evictions
  <2>6. ASSUME NEW p \in Procs, (Overtaken(p) /\ Written(at[p].msg))'
        PROVE  Cardinality(Lost)' < Cardinality(dropped)'
    <3>1. at'[p] = at[p] /\ at[p].pc = "pump_write" /\ outbox # <<>>
      <4>1. at'[p] = at[p]
        BY <1>4, <2>6 DEF Overtaken
      <4>. QED  BY <2>6, <4>1, PumpedFacts DEF Overtaken
    <3>2. Head(outbox') = Head(outbox)
      BY <1>1, <1>5, <2>1, <3>1
    <3>. QED  BY <1>2, <2>1, <2>3, <2>6, <3>1, <3>2 DEF Overtaken, Evictions
  <2>. QED  BY <1>3, <2>1, <2>3, <2>4, <2>5, <2>6 DEF Evictions, LossCounted
<1>7. CASE ~(Len(outbox) < MaxOutbox)
  <2> DEFINE h == Head(outbox)
  <2>1. outbox # <<>>
    BY <1>5, <1>7
  <2>2. outbox' = Append(Tail(outbox), enq + 1) /\ dropped' = dropped \cup {h}
    BY <1>7 DEF Frame
  <2>3. h \in Range(outbox) /\ h \in Frames /\ h <= enq /\ h \in 1..enq
    BY <2>1, OutboxRange, <1>1 DEF Frames
  <2>4. h \notin dropped /\ \A d \in dropped : d < h
    <3>1. 1 \in DOMAIN outbox /\ h = outbox[1]
      BY <1>5, <2>1
    <3>. QED  BY <2>3, <3>1 DEF Evictions, Frames
  <2>5. /\ \A f \in Range(outbox') : h < f
        /\ \A f \in Range(outbox) : f = h \/ f \in Range(outbox')
        /\ \A f \in Range(outbox') : f \in Range(outbox) \/ f = enq + 1
    <3>1. /\ Tail(outbox) \in Seq(Nat) /\ Len(Tail(outbox)) = Len(outbox) - 1
          /\ \A i \in DOMAIN Tail(outbox) : /\ i + 1 \in DOMAIN outbox /\ Tail(outbox)[i] = outbox[i + 1]
                                            /\ h < Tail(outbox)[i]
      BY <1>5, <2>1, TailFacts DEF OutboxOrder
    <3>2. Len(outbox) \in Nat /\ DOMAIN outbox = 1..Len(outbox) /\ Len(outbox) > 0
      BY <1>5, <2>1
    <3>3. /\ DOMAIN outbox' = 1..Len(outbox) /\ outbox'[Len(outbox)] = enq + 1
          /\ \A i \in 1..(Len(outbox) - 1) : outbox'[i] = Tail(outbox)[i] /\ i \in DOMAIN Tail(outbox)
      BY <1>1, <2>2, <3>1, <3>2
    <3>4. \A i \in DOMAIN outbox' : i = Len(outbox) \/ i \in 1..(Len(outbox) - 1)
      BY <3>2, <3>3
    <3>5. ASSUME NEW i \in DOMAIN outbox'
          PROVE  h < outbox'[i] /\ (outbox'[i] \in Range(outbox) \/ outbox'[i] = enq + 1)
      <4>1. CASE i = Len(outbox)
        BY <1>1, <2>3, <3>3, <4>1 DEF Frames
      <4>2. CASE i \in 1..(Len(outbox) - 1)
        BY <3>1, <3>3, <4>2 DEF Range
      <4>. QED  BY <3>4, <4>1, <4>2
    <3>6. ASSUME NEW i \in DOMAIN outbox
          PROVE  outbox[i] = h \/ outbox[i] \in Range(outbox')
      <4>1. CASE i = 1
        BY <1>5, <2>1, <4>1
      <4>2. CASE i # 1
        <5>1. i - 1 \in 1..(Len(outbox) - 1) /\ i - 1 \in DOMAIN outbox' /\ i - 1 + 1 = i
          BY <3>2, <3>3, <4>2
        <5>2. outbox'[i - 1] = outbox[i]
          BY <3>1, <3>3, <5>1
        <5>. QED  BY <5>1, <5>2 DEF Range
      <4>. QED  BY <4>1, <4>2
    <3>. QED  BY <3>5, <3>6 DEF Range
  <2>6. Lost' = IF Written(h) THEN Lost ELSE Lost \cup {h}
    <3>1. \A f \in 1..(enq + 1) : f \in 1..enq \/ f = enq + 1
      BY <1>1
    <3>2. 1..enq \subseteq 1..(enq + 1) /\ enq + 1 \notin 1..enq
      BY <1>1
    <3>3. enq + 1 \in Range(outbox')
      <4>1. Tail(outbox) \in Seq(Nat)
        BY <1>5, <2>1
      <4>2. Len(Tail(outbox)) + 1 \in DOMAIN outbox' /\ outbox'[Len(Tail(outbox)) + 1] = enq + 1
        BY <1>1, <2>2, <4>1
      <4>. QED  BY <4>2 DEF Range
    <3>4. h \notin Range(outbox')
      BY <2>3, <2>5 DEF Frames
    <3>5. \A f \in 1..enq : f # h => (f \in Range(outbox') <=> f \in Range(outbox))
      BY <2>5, <3>2
    <3>6. Lost' = {f \in 1..(enq + 1) : f \notin Range(outbox') /\ ~Written(f)}
      BY <1>1, <1>2 DEF Lost
    <3>. QED  BY <2>3, <3>1, <3>2, <3>3, <3>4, <3>5, <3>6 DEF Lost
  <2>7. Cardinality(dropped') = Cardinality(dropped) + 1
    BY <1>3, <2>2, <2>4, FS_AddElement
  <2>8. /\ Written(h) => Cardinality(Lost') = Cardinality(Lost)
        /\ Cardinality(Lost') <= Cardinality(Lost) + 1 /\ Cardinality(Lost') \in Nat
    <3>1. /\ IsFiniteSet(Lost \cup {h})
          /\ Cardinality(Lost \cup {h}) = IF h \in Lost THEN Cardinality(Lost) ELSE Cardinality(Lost) + 1
      BY <1>3, FS_AddElement
    <3>2. CASE Written(h)
      BY <1>3, <2>6, <3>2
    <3>3. CASE ~Written(h)
      <4>1. Lost' = Lost \cup {h}
        BY <2>6, <3>3
      <4>. QED  BY <1>3, <3>1, <3>3, <4>1
    <3>. QED  BY <3>2, <3>3
  <2>9. dropped' \subseteq 1..enq'
    <3>1. 1..enq \subseteq 1..enq' /\ dropped \subseteq 1..enq
      BY <1>1 DEF Evictions
    <3>. QED  BY <2>2, <2>3, <3>1
  <2>10. \A d \in dropped', k \in DOMAIN outbox' : d < outbox'[k]
    <3>1. \A k \in DOMAIN outbox' : outbox'[k] \in Range(outbox')
      BY DEF Range
    <3>2. \A k \in DOMAIN outbox' : h < outbox'[k] /\ outbox'[k] \in Nat
      <4>1. \A k \in DOMAIN outbox' : outbox'[k] \in Frames \/ outbox'[k] = enq + 1
        BY <2>5, <3>1, OutboxRange
      <4>. QED  BY <1>1, <2>5, <3>1, <4>1 DEF Frames
    <3>3. \A d \in dropped : d \in Nat
      BY DEF Evictions
    <3>. QED  BY <2>2, <2>3, <2>4, <3>2, <3>3 DEF Frames
  <2>11. ASSUME NEW p \in Procs, (Overtaken(p) /\ Written(at[p].msg))'
         PROVE  Cardinality(Lost') < Cardinality(dropped')
    <3>1. at'[p] = at[p] /\ at[p].pc = "pump_write" /\ Written(at[p].msg)
      <4>1. at'[p] = at[p]
        BY <1>4, <2>11 DEF Overtaken
      <4>. QED  BY <1>2, <2>11, <4>1 DEF Overtaken
    <3>2. at[p].msg = h \/ at[p].msg < h
      BY <1>1, <2>3, <3>1, PumpedFacts DEF Frames
    <3>3. CASE at[p].msg = h
      BY <1>3, <2>7, <2>8, <3>1, <3>3
    <3>4. CASE at[p].msg < h
      <4>1. Cardinality(Lost) < Cardinality(dropped)
        BY <3>1, <3>4 DEF Overtaken, Evictions
      <4>. QED  BY <1>3, <2>7, <2>8, <4>1
    <3>. QED  BY <3>2, <3>3, <3>4
  <2>12. LossCounted'
    BY <1>3, <2>7, <2>8 DEF LossCounted
  <2>. QED  BY <2>9, <2>10, <2>11, <2>12 DEF Evictions
<1>. QED  BY <1>6, <1>7

\* A message goes out, the outbox stays: if it is a lost frame, it is lost no
\* more.
LEMMA GoesOutLoss ==
  ASSUME IInv, Evictions, LossCounted, NEW p \in Procs, NEW s \in Streams, GoesOut(p, s)
  PROVE  Evictions' /\ LossCounted'
<1>. USE DEF IInv
<1> DEFINE m == at[p].msg
<1>1. \A f : Written(f)' <=> Written(f) \/ f = m
  BY WrittenAfter DEF GoesOut
<1>2. Lost' = Lost \ {m} /\ UNCHANGED <<outbox, enq, dropped>>
  BY <1>1 DEF GoesOut, Lost
<1>3. /\ Cardinality(Lost) \in Nat /\ Cardinality(dropped) \in Nat
      /\ Cardinality(Lost) <= Cardinality(dropped)
      /\ Cardinality(Lost \ {m}) = IF m \in Lost THEN Cardinality(Lost) - 1 ELSE Cardinality(Lost)
  BY CardinalityFacts, FS_RemoveElement DEF Evictions, LossCounted
<1>4. ASSUME NEW q \in Procs, (Overtaken(q) /\ Written(at[q].msg))'
      PROVE  Cardinality(Lost') < Cardinality(dropped')
  <2>1. at'[q] = at[q]
    BY <1>4 DEF GoesOut, Overtaken
  <2>2. Overtaken(q) /\ (Written(at[q].msg) \/ at[q].msg = m)
    BY <1>1, <1>2, <1>4, <2>1 DEF Overtaken
  <2>3. CASE Written(at[q].msg)
    BY <1>2, <1>3, <2>2, <2>3 DEF Evictions
  <2>4. CASE ~Written(at[q].msg) /\ at[q].msg = m
    <3>1. m \in Lost
      BY <2>2, <2>4, PumpedFacts DEF Overtaken, Lost
    <3>. QED  BY <1>2, <1>3, <3>1
  <2>. QED  BY <2>2, <2>3, <2>4
<1>5. LossCounted'
  BY <1>2, <1>3 DEF LossCounted
<1>. QED  BY <1>2, <1>4, <1>5 DEF Evictions

\* A frame goes out and the outbox loses its head: that frame, or a younger one
\* for which an evicted one went out.
LEMMA PumpLoss ==
  ASSUME IInv, IInv', Evictions, LossCounted, NEW p \in Procs, PumpWritten(p)
  PROVE  Evictions' /\ LossCounted'
<1>. USE DEF IInv
<1> DEFINE m == at[p].msg
           h == Head(outbox)
<1>1. at[p].pc = "pump_write" /\ outbox' = Tail(outbox) /\ UNCHANGED <<enq, dropped>>
  BY DEF PumpWritten
<1>2. \A f : Written(f)' <=> Written(f) \/ f = m
  <2>1. at[p].stream \in Streams /\ sent' = [sent EXCEPT ![at[p].stream] = Append(@, m)]
    BY <1>1 DEF WritesOpened, PumpWritten
  <2>. QED  BY <2>1, WrittenAfter
<1>3. outbox # <<>> /\ m \in 1..enq /\ m <= h /\ (m < h => m \notin Range(outbox))
  BY <1>1, PumpedFacts
<1>4. \A k \in DOMAIN outbox' : k + 1 \in DOMAIN outbox /\ outbox'[k] = outbox[k + 1]
  BY PumpWrittenOutbox
<1>5. \A f \in Range(outbox) : f = h \/ f \in Range(outbox')
  <2>1. outbox \in Seq(Nat)
    BY Numbers
  <2>2. ASSUME NEW k \in DOMAIN outbox
        PROVE  outbox[k] = h \/ outbox[k] \in Range(outbox')
    <3>1. CASE k = 1
      BY <1>3, <2>1, <3>1
    <3>2. CASE k # 1
      <4>1. k - 1 \in DOMAIN outbox' /\ k - 1 + 1 = k
        BY <1>1, <1>3, <2>1, <3>2
      <4>2. outbox'[k - 1] = outbox[k]
        BY <1>4, <4>1
      <4>. QED  BY <4>1, <4>2 DEF Range
    <3>. QED  BY <3>1, <3>2
  <2>. QED  BY <2>2 DEF Range
<1>6. Lost' \subseteq (Lost \ {m}) \cup {h}
  BY <1>1, <1>2, <1>5 DEF Lost
<1>7. /\ Cardinality(Lost) \in Nat /\ Cardinality(dropped) \in Nat
      /\ IsFiniteSet(Lost) /\ Cardinality(Lost) <= Cardinality(dropped)
  BY CardinalityFacts DEF Evictions, LossCounted
<1>8. LossCounted'
  <2>1. CASE m = h
    <3>1. Lost' \subseteq Lost
      BY <1>2, <1>6, <2>1 DEF Lost
    <3>2. Cardinality(Lost') <= Cardinality(Lost) /\ Cardinality(Lost') \in Nat
      BY <1>7, <3>1, FS_Subset, FS_CardinalityType
    <3>. QED  BY <1>1, <1>7, <3>2 DEF LossCounted
  <2>2. CASE m < h
    <3>1. /\ IsFiniteSet(Lost \ {m})
          /\ Cardinality(Lost \ {m}) = IF m \in Lost THEN Cardinality(Lost) - 1 ELSE Cardinality(Lost)
      BY <1>7, FS_RemoveElement
    <3>2. /\ IsFiniteSet((Lost \ {m}) \cup {h})
          /\ Cardinality((Lost \ {m}) \cup {h}) <= Cardinality(Lost \ {m}) + 1
      <4>1. /\ IsFiniteSet((Lost \ {m}) \cup {h})
            /\ Cardinality((Lost \ {m}) \cup {h})
                 = IF h \in Lost \ {m} THEN Cardinality(Lost \ {m}) ELSE Cardinality(Lost \ {m}) + 1
        BY <3>1, FS_AddElement
      <4>2. Cardinality(Lost \ {m}) \in Nat
        BY <3>1, FS_CardinalityType
      <4>. QED  BY <4>1, <4>2
    <3>3. Cardinality(Lost') <= Cardinality((Lost \ {m}) \cup {h}) /\ IsFiniteSet(Lost')
      BY <1>6, <3>2, FS_Subset
    <3>4. Cardinality(Lost') \in Nat /\ Cardinality((Lost \ {m}) \cup {h}) \in Nat
      BY <3>2, <3>3, FS_CardinalityType
    <3>5. CASE Written(m)
      <4>1. Cardinality(Lost) < Cardinality(dropped)
        BY <1>1, <2>2, <3>5 DEF Overtaken, Evictions
      <4>. QED  BY <1>1, <1>7, <3>1, <3>2, <3>3, <3>4, <4>1 DEF LossCounted
    <3>6. CASE ~Written(m)
      <4>1. m \in Lost
        BY <1>3, <2>2, <3>6 DEF Lost
      <4>. QED  BY <1>1, <1>7, <3>1, <3>2, <3>3, <3>4, <4>1 DEF LossCounted
    <3>. QED  BY <3>5, <3>6
  <2>3. h \in Nat /\ m \in Nat
    BY <1>3, Numbers
  <2>. QED  BY <1>3, <2>1, <2>2, <2>3
<1>9. ASSUME NEW q \in Procs
      PROVE  ~Overtaken(q)'
  <2>1. CASE at'[q].pc = "pump_write"
    <3>1. q = p
      <4>1. q # p => at'[q] = at[q]
        BY HelpersPark DEF PumpWritten, Parks, Moves, TypeOK
      <4>. QED  BY <1>1, <2>1, <4>1 DEF Exclusion, Writing
    <3>2. outbox' # <<>> /\ call # NoStream
      BY <2>1, <3>1, HelpersPark DEF PumpWritten, Parks, Parked
    <3>3. at'[p].msg = Head(outbox')
      BY <1>1, <3>2, AtFields DEF PumpWritten, TypeOK
    <3>4. Head(outbox') \in Nat
      <4>1. TypeOK'
        OBVIOUS
      <4>2. outbox' \in Seq(Frames)
        BY <4>1 DEF TypeOK
      <4>. QED  BY <3>2, <4>2 DEF Frames
    <3>. QED  BY <3>1, <3>3, <3>4 DEF Overtaken
  <2>. QED  BY <2>1 DEF Overtaken
<1>10. dropped' \subseteq 1..enq' /\ \A d \in dropped', k \in DOMAIN outbox' : d < outbox'[k]
  BY <1>1, <1>4 DEF Evictions
<1>. QED  BY <1>8, <1>9, <1>10 DEF Evictions

-----------------------------------------------------------------------------
(* The theorem.                                                             *)

LEMMA LossStep ==
  ASSUME LInv, [Next]_vars
  PROVE  LInv'
<1>1. IInv /\ Evictions /\ LossCounted
  BY DEF LInv
<1>2. IInv'
  BY <1>1, InvariantStep
<1>3. Evictions' /\ LossCounted'
  BY <1>1, <1>2, StepFrames, KeptLoss, FrameLoss, GoesOutLoss, PumpLoss
<1>. QED  BY <1>2, <1>3 DEF LInv

LEMMA LossInit == Init => LInv
<1> SUFFICES ASSUME Init PROVE LInv
  OBVIOUS
<1>1. Lost = {} /\ dropped = {} /\ \A p \in Procs : at[p].pc = "idle"
  BY AtFields DEF Init, Lost, Idle
<1>2. Evictions /\ LossCounted
  BY <1>1, FS_EmptySet DEF Evictions, LossCounted, Overtaken
<1>. QED  BY <1>2, InvariantInit DEF LInv

\* No reconnect, cancellation or race between two pumps, and no eviction of a
\* frame being written, loses more frames than _lost_frames counts.
THEOREM LossesCounted == Spec => []LossCounted
<1>1. LInv => LossCounted
  BY DEF LInv
<1>2. Spec => []LInv
  BY LossInit, LossStep, PTL DEF Spec
<1>. QED  BY <1>1, <1>2, PTL

\* "none before the outbox was full": as long as nothing was evicted, every frame
\* enqueued is in the outbox or was written to a stream.
THEOREM NothingLostEarly == Spec => [](dropped = {} => Lost = {})
<1>1. IInv /\ LossCounted => (dropped = {} => Lost = {})
  <2>. SUFFICES ASSUME IInv, LossCounted, dropped = {} PROVE Lost = {}
    OBVIOUS
  <2>1. enq \in Nat /\ IsFiniteSet(1..enq)
    BY FS_Interval DEF IInv, TypeOK
  <2>2. IsFiniteSet(Lost)
    BY <2>1, FS_Subset DEF Lost
  <2>3. Cardinality(Lost) \in Nat /\ Cardinality(Lost) <= 0
    BY <2>2, FS_CardinalityType, FS_EmptySet DEF LossCounted
  <2>. QED  BY <2>2, <2>3, FS_EmptySet
<1>. QED  BY <1>1, Invariant, LossesCounted, PTL

=============================================================================
