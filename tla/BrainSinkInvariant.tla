------------------------- MODULE BrainSinkInvariant -------------------------
(***************************************************************************)
(* The inductive invariant behind BrainSink's theorems: what the two locks *)
(* exclude, which stream each coroutine has in hand, and how the outbox    *)
(* and the streams line up.  BrainSinkProofs proves it.                    *)
(***************************************************************************)
EXTENDS BrainSink

Increasing(m) == \A i, j \in DOMAIN m : i < j => m[i] < m[j]

\* _write_lock and _init_lock exclude.
Exclusion ==
  \A p, q \in Procs :
    /\ at[p].pc \in Writing /\ at[q].pc \in Writing => p = q
    /\ at[p].pc \in Opening /\ at[q].pc \in Opening => p = q

\* What a suspended coroutine remembers fits where it is suspended.
Remembered ==
  \A p \in Procs :
    /\ at[p].pc \in Opening => at[p].why \in {"ensure", "reconnect", "reopen"}
    /\ at[p].pc = "end_close" => at[p].why \in {"accepted", "failed"}
    /\ at[p].pc \in Finalizing \cup {"end_close"} => p = Closer

\* A frame being written is the head of the outbox, or was evicted from there.
PumpHead ==
  \A p \in Procs : at[p].pc = "pump_write" =>
    /\ outbox # <<>>
    /\ at[p].msg \in Frames /\ at[p].msg <= Head(outbox)

\* The stream in use is the one whose channel is held; while a coroutine opens
\* a stream there is none in use, and the channel held is the new stream's.
StreamsInHand ==
  /\ call # NoStream => chan = call
  /\ \A p \in Procs :
       /\ at[p].pc \in Opening => call = NoStream
       /\ at[p].pc = "closing" => chan = NoStream
       /\ at[p].pc \in {"open_lock", "open_write"} =>
            /\ chan = at[p].stream /\ chan # NoStream
            /\ link[chan] \in {"open", "dead"}

\* Only the stream whose channel is held can be live; with no stream in use and
\* none being opened, not even that one.
OnlyHeldLive ==
  /\ \A s \in Streams : Live(s) => s = chan
  /\ call = NoStream /\ InitLockFree => \A s \in Streams : ~Live(s)

\* The outbox holds frames in the order they were enqueued.
OutboxOrder ==
  /\ Increasing(outbox)
  /\ \A i \in DOMAIN outbox : outbox[i] <= enq

\* What each stream carries is in order and starts with the context; a stream
\* not yet opened carries nothing, one being opened nothing while it works.
SentOrder ==
  \A s \in Streams :
    /\ Increasing(sent[s])
    /\ sent[s] # <<>> => sent[s][1] = Context
    /\ link[s] = "none" => sent[s] = <<>>
    /\ \A p \in Procs :
         at[p].pc \in {"open_lock", "open_write"} /\ at[p].stream = s /\ link[s] = "open"
           => sent[s] = <<>>
    /\ s = call => sent[s] # <<>>

\* On a stream that can still be written on, every message is older than what
\* waits in the outbox or is being written; the end frame is on it only while
\* the Closer, holding _write_lock, half-closes it.
SentBefore ==
  \A s \in Streams : \A i \in DOMAIN sent[s] :
    /\ sent[s][i] = EndFrame \/ sent[s][i] <= enq
    /\ link[s] = "open" /\ sent[s][i] # EndFrame =>
         /\ \A k \in DOMAIN outbox : sent[s][i] < outbox[k]
         /\ \A p \in Procs : at[p].pc = "pump_write" => sent[s][i] < at[p].msg
    /\ link[s] = "open" /\ sent[s][i] = EndFrame => at[Closer].pc = "half_close"

\* A frame or end frame being written goes out on a stream that was in use.
WritesOpened ==
  \A p \in Procs :
    /\ at[p].pc \in {"pump_write", "end_write", "half_close"} =>
         at[p].stream \in Streams /\ sent[at[p].stream] # <<>>
    /\ at[p].pc \in {"open_lock", "open_write"} => at[p].msg = Context
    /\ at[p].pc = "end_write" => at[p].msg = EndFrame

IInv ==
  /\ TypeOK
  /\ Exclusion /\ Remembered /\ PumpHead
  /\ StreamsInHand /\ OnlyHeldLive
  /\ OutboxOrder /\ SentOrder /\ SentBefore /\ WritesOpened

-----------------------------------------------------------------------------
(* Across streams.                                                          *)

\* Streams are opened one after the other; the one held is the newest opened.
InTurn ==
  /\ \A s, t \in Streams : s < t /\ link[s] = "none" => link[t] = "none"
  /\ chan # NoStream =>
       /\ link[chan] # "none"
       /\ \A t \in Streams : chan < t => link[t] = "none"

\* No frame that waits or is being written is older than one some stream has
\* carried; it may be the very frame, whose write broke off.
Replayed ==
  \A s \in Streams : \A i \in DOMAIN sent[s] : sent[s][i] \in Frames =>
    /\ \A k \in DOMAIN outbox : sent[s][i] <= outbox[k]
    /\ \A p \in Procs : at[p].pc = "pump_write" => sent[s][i] <= at[p].msg

RInv == IInv /\ InTurn /\ Replayed /\ ReplayOrder

-----------------------------------------------------------------------------
(* Losses.                                                                  *)

\* The frame p writes was evicted meanwhile.
Overtaken(p) == at[p].pc = "pump_write" /\ at[p].msg < Head(outbox)

\* The evicted frames are older than those that wait.  A pump that writes an
\* evicted frame will discard another one for it: when the frame is written on
\* some stream already, its eviction cost nothing yet, and makes up for that.
Evictions ==
  /\ dropped \subseteq 1..enq
  /\ \A d \in dropped, k \in DOMAIN outbox : d < outbox[k]
  /\ \A p \in Procs : Overtaken(p) /\ Written(at[p].msg) => Cardinality(Lost) < Cardinality(dropped)

LInv == IInv /\ Evictions /\ LossCounted
=============================================================================
