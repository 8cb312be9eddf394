------------------------- MODULE SpreedSubscriptions -------------------------
(***************************************************************************)
(* The Talk client's audio subscriptions                                   *)
(* (src/src/talk_capture/spreed_client.py, SpreedClient): one WebRTC peer  *)
(* per participant who is heard, opened by an offer from the signalling    *)
(* server, replaced by the next offer, watched by a watchdog, closed by    *)
(* its own state changes, and asked for again by the reconcile sweep.      *)
(*                                                                         *)
(* The signalling loop handles one message at a time, to its end; the      *)
(* sweep, and each peer's watchdog and state handlers, are tasks of their  *)
(* own.  A step is the code between two awaits that suspend.  The websocket*)
(* stays up.  Time is left out: a sleep may be over at any moment, and     *)
(* whether a backoff or a minimal interval is over is left open.  A task's *)
(* last act is an offer request, whose short sleep before it is sent is    *)
(* part of its way to the server, or a close whose end it only awaits.     *)
(*                                                                         *)
(* _offer_locks has no state here: _handle_offer_locked's own _close_peer  *)
(* takes the lock out of the table before anything suspends, so nobody     *)
(* ever finds one locked.                                                  *)
(***************************************************************************)
EXTENDS Integers, Sequences, FiniteSets, Functions

CONSTANTS
  Sids,         \* the signalling sessions of the participants
  MaxPeers,     \* bound: peer connections in use at once, closing ones included
  MaxRetries,   \* MAX_OFFER_RETRIES
  MaxInbox,     \* bound: messages on their way from the server
  MaxAsked      \* bound: offer requests for one participant not answered yet

NoSid == "none"
ASSUME SidsAssumption == NoSid \notin Sids
ASSUME BoundsAssumption ==
  MaxPeers \in Nat /\ MaxRetries \in Nat \ {0} /\ MaxInbox \in Nat /\ MaxAsked \in Nat

Peers == 1..MaxPeers
NoPeer == 0

VARIABLES
  where,    \* each participant: "out", in the "room", in the call: "audio", "silent"
  asked,    \* the offer requests for each, not answered yet
  inbox,    \* messages from the server, not received yet
  conns,    \* _peer_connections
  wanted,   \* _want_audio
  retries,  \* _offer_retries: the attempts since the last reset
  peers,    \* the RTCPeerConnections: whose, and in which state
  co,       \* where each coroutine is suspended
  phase     \* "in" the call, "leaving" it (disconnect), "left"

server == <<where, asked, inbox>>
roster == <<wanted, retries>>
vars == <<server, conns, roster, peers, co, phase>>

Kinds == {"join", "audio", "silent", "left", "offer"}
Message(kind, sid) == [kind |-> kind, sid |-> sid]

\* A peer: "new" until its answer is made, then "connecting"; "ended" when the
\* far end closed it; "closing" while pc.close() runs, "abandoned" when the close
\* was cancelled halfway and nobody finishes it.
PeerStates == {"new", "connecting", "connected", "failed", "ended", "closing", "abandoned", "closed"}
Peer(sid, st) == [of |-> sid, st |-> st]
Open(i) == peers[i].st \notin {"closing", "abandoned", "closed"}

\* The coroutines: the loop, disconnect, a watchdog for each peer, and the
\* handlers of its "failed" and its "closed".  The sweep never waits in here.
Loop == <<"loop", NoPeer>>
Leaver == <<"leaver", NoPeer>>
Dog(i) == <<"dog", i>>
OnFailed(i) == <<"failed", i>>
OnClosed(i) == <<"closed", i>>
Tasks == {"dog", "failed", "closed"} \X Peers
Coroutines == {Loop, Leaver} \cup Tasks

\* Where a coroutine is: not begun, scheduled, in the loop's sleep before it asks
\* for an offer, awaiting a peer's close (and then done, resubscribing, or making
\* the next peer), in the loop's negotiation; over, or dead of an exception.
Places == {"idle", "due", "asking", "dropping", "closing", "replacing",
           "negotiating", "answering", "over", "dead"}
Place(at, sid, i) == [at |-> at, sid |-> sid, peer |-> i]
Nothing == Place("idle", NoSid, NoPeer)
Due == Place("due", NoSid, NoPeer)
Over == Place("over", NoSid, NoPeer)
At(c, at) == co[c].at = at
Goto(c, at, sid, i) == co' = [co EXCEPT ![c] = Place(at, sid, i)]

\* A coroutine has no more to do: the loop goes on to the next message, disconnect
\* to the next peer.
Done(c) == Goto(c, IF c \in Tasks THEN "over" ELSE "idle", NoSid, NoPeer)

Init ==
  /\ where = [s \in Sids |-> "out"] /\ asked = [s \in Sids |-> 0] /\ inbox = <<>>
  /\ conns = [s \in Sids |-> NoPeer]
  /\ wanted = {} /\ retries = [s \in Sids |-> 0]
  /\ peers = [i \in Peers |-> Peer(NoSid, "closed")]
  /\ co = [c \in Coroutines |-> IF c \in Tasks THEN Over ELSE Nothing]
  /\ phase = "in"

-----------------------------------------------------------------------------
(* Helpers: the calls the coroutines make.                                  *)

\* _close_peer of a participant who has one: it leaves the table, its close begins,
\* unless disconnect began it before.
DropPeer(sid) ==
  /\ conns' = [conns EXCEPT ![sid] = NoPeer]
  /\ peers' = [peers EXCEPT ![conns[sid]].st = IF Open(conns[sid]) THEN "closing" ELSE @]

\* The same, with the close awaited at `at`.
ClosePeer(c, sid, at) == DropPeer(sid) /\ Goto(c, at, sid, conns[sid])

\* Whether pc.close(), awaited at `at`, is over.
CloseOver(c, at) == At(c, at) /\ peers[co[c].peer].st = "closed"

\* c is cancelled: the close it awaits is given up where it is, as nothing
\* catches the cancellation.
Awaits(c, i) ==
  /\ co[c].at \in {"dropping", "replacing", "closing"} /\ co[c].peer = i
  /\ peers[i].st = "closing"
Abandons(c) ==
  peers' = [i \in Peers |-> IF Awaits(c, i) THEN Peer(peers[i].of, "abandoned") ELSE peers[i]]

\* requestoffer is sent; when the call is being left it goes nowhere.
Ask(sid) == asked' = [asked EXCEPT ![sid] = IF phase # "in" \/ @ = MaxAsked THEN @ ELSE @ + 1]

\* Mutant of RequestOffer: it is given up one attempt too late.
RequestOfferOnceMore(sid) ==
  \/ /\ retries[sid] <= MaxRetries
     /\ retries' = [retries EXCEPT ![sid] = @ + 1]
     /\ Goto(Loop, "asking", sid, NoPeer)
  \/ retries[sid] > 0 /\ Done(Loop) /\ UNCHANGED retries

\* _request_offer by the loop, after an event, up to its sleep: given up after
\* MAX_OFFER_RETRIES, and not done while the backoff lasts.
RequestOffer(sid) ==
  \/ /\ retries[sid] < MaxRetries
     /\ retries' = [retries EXCEPT ![sid] = @ + 1]
     /\ Goto(Loop, "asking", sid, NoPeer)
  \/ retries[sid] > 0 /\ Done(Loop) /\ UNCHANGED retries

\* Mutant of Afresh: the backoff is not cleared, its give-up is final.
AfreshNot(sid) ==
  IF retries[sid] < MaxRetries
  THEN retries' = [retries EXCEPT ![sid] = @ + 1] /\ Ask(sid)
  ELSE UNCHANGED <<retries, asked>>

\* _reset_offer_retries and _request_offer, by a task.
Afresh(sid) == retries' = [retries EXCEPT ![sid] = 1] /\ Ask(sid)

\* _maybe_resubscribe, which also does nothing if it did less than
\* RESUBSCRIBE_MIN_INTERVAL ago.
Resubscribe(sid) ==
  \/ phase = "in" /\ sid \in wanted /\ conns[sid] = NoPeer /\ Afresh(sid)
  \/ UNCHANGED <<retries, asked>>

-----------------------------------------------------------------------------
(* The signalling loop.                                                     *)

\* The loop takes the next message.
Takes(kind, sid) ==
  /\ At(Loop, "idle") /\ inbox # <<>> /\ Head(inbox) = Message(kind, sid)
  /\ inbox' = Tail(inbox)
  /\ UNCHANGED <<where, asked, phase>>

\* Asks for an offer unless there is a peer.
RequestIfNone(sid) ==
  IF conns[sid] = NoPeer THEN RequestOffer(sid)
                         ELSE Done(Loop) /\ UNCHANGED retries

\* room join: somebody opened the room.
RoomJoin(sid) ==
  /\ Takes("join", sid) /\ RequestIfNone(sid)
  /\ UNCHANGED <<conns, wanted, peers>>

\* participants update or join, in the call with audio.
InCallWithAudio(sid) ==
  /\ Takes("audio", sid)
  /\ wanted' = wanted \cup {sid}
  /\ RequestIfNone(sid)
  /\ UNCHANGED <<conns, peers>>

\* participants update, in the call without audio.
InCallWithoutAudio(sid) ==
  /\ Takes("silent", sid)
  /\ wanted' = wanted \ {sid}
  /\ UNCHANGED <<conns, retries, peers, co>>

\* Mutant of LeftCall: the participant stays wanted.
LeftCallWanted(sid) ==
  /\ Takes("left", sid)
  /\ IF conns[sid] = NoPeer THEN UNCHANGED <<conns, peers, co>>
                            ELSE ClosePeer(Loop, sid, "dropping")
  /\ UNCHANGED roster

\* participants update out of the call, or a leave.
LeftCall(sid) ==
  /\ Takes("left", sid)
  /\ wanted' = wanted \ {sid}
  /\ IF conns[sid] = NoPeer THEN UNCHANGED <<conns, peers, co>>
                            ELSE ClosePeer(Loop, sid, "dropping")
  /\ UNCHANGED retries

\* Whether nothing refers to a peer any more, whose number is used again.
Unused(i) ==
  /\ peers[i].st = "closed" /\ i \notin Range(conns)
  /\ \A c \in Coroutines : co[c].peer # i
  /\ \A c \in {Dog(i), OnFailed(i), OnClosed(i)} : co[c].at \in {"idle", "over"}

\* The new peer of an offer, with its watchdog; setRemoteDescription begins.
NewPeer(sid) ==
  \E i \in Peers :
    /\ Unused(i) /\ \A j \in Peers : j < i => ~Unused(j)
    /\ peers' = [peers EXCEPT ![i] = Peer(sid, "new")]
    /\ conns' = [conns EXCEPT ![sid] = i]
    /\ co' = [co EXCEPT ![Loop] = Place("negotiating", sid, i), ![Dog(i)] = Due,
                        ![OnClosed(i)] = Nothing]

\* Mutant of Offer: the old peer is not closed.
OfferKeeping(sid) ==
  /\ Takes("offer", sid)
  /\ NewPeer(sid)
  /\ UNCHANGED roster

\* _handle_offer: the old peer is closed first.  An offer without an SDP is
\* dropped.
Offer(sid) ==
  /\ Takes("offer", sid)
  /\ \/ conns[sid] # NoPeer /\ ClosePeer(Loop, sid, "replacing")
     \/ conns[sid] = NoPeer /\ NewPeer(sid)
     \/ UNCHANGED <<conns, peers, co>>
  /\ UNCHANGED roster

Replaced ==
  /\ CloseOver(Loop, "replacing")
  /\ NewPeer(co[Loop].sid)
  /\ UNCHANGED <<server, roster, phase>>

\* createAnswer and setLocalDescription: the peer starts connecting.
Negotiated ==
  /\ At(Loop, "negotiating") /\ peers[co[Loop].peer].st = "new"
  /\ peers' = [peers EXCEPT ![co[Loop].peer].st = "connecting"]
  /\ Goto(Loop, "answering", co[Loop].sid, co[Loop].peer)
  /\ UNCHANGED <<server, conns, roster, phase>>

\* They raise, on a peer somebody closed or an SDP they cannot read, and
\* connect_and_join takes that for fatal: nobody reads the websocket any more.
NegotiationRaises ==
  /\ At(Loop, "negotiating")
  /\ Goto(Loop, "dead", NoSid, NoPeer)
  /\ UNCHANGED <<server, conns, roster, peers, phase>>

\* The answer is sent, whatever became of the peer meanwhile.
Answered ==
  /\ At(Loop, "answering")
  /\ Done(Loop)
  /\ UNCHANGED <<server, conns, roster, peers, phase>>

\* The close of one who left is over.
Dropped ==
  /\ CloseOver(Loop, "dropping")
  /\ Done(Loop)
  /\ UNCHANGED <<server, conns, roster, peers, phase>>

\* The sleep before a request is over.
Requested ==
  /\ At(Loop, "asking") /\ Ask(co[Loop].sid)
  /\ Done(Loop)
  /\ UNCHANGED <<where, inbox, conns, roster, peers, phase>>

-----------------------------------------------------------------------------
(* The tasks.                                                               *)

\* The reconcile sweep reaches a participant.
Reconcile(sid) ==
  /\ phase = "in" /\ sid \in wanted
  /\ Resubscribe(sid)
  /\ UNCHANGED <<where, inbox, conns, wanted, peers, co, phase>>

\* Mutant of WatchdogWakes: the watchdog gives a peer up for connected too soon.
WatchdogLenient(i) ==
  /\ At(Dog(i), "due")
  /\ LET sid == peers[i].of IN
       IF phase # "in" \/ conns[sid] # i \/ peers[i].st # "new"
       THEN Done(Dog(i)) /\ UNCHANGED <<conns, peers>>
       ELSE ClosePeer(Dog(i), sid, "closing")
  /\ UNCHANGED <<server, roster, phase>>

\* A watchdog wakes: nothing to do for a peer that was replaced or is not on its
\* way to being connected any more.
WatchdogWakes(i) ==
  /\ At(Dog(i), "due")
  /\ LET sid == peers[i].of IN
       IF phase # "in" \/ conns[sid] # i \/ peers[i].st \notin {"new", "connecting"}
       THEN Done(Dog(i)) /\ UNCHANGED <<conns, peers>>
       ELSE ClosePeer(Dog(i), sid, "closing")
  /\ UNCHANGED <<server, roster, phase>>

\* It closed the peer: ask for the next if the participant is to be heard.
WatchdogClosed(i) ==
  /\ CloseOver(Dog(i), "closing") /\ Done(Dog(i))
  /\ IF peers[i].of \in wanted THEN Afresh(peers[i].of) ELSE UNCHANGED <<retries, asked>>
  /\ UNCHANGED <<where, inbox, conns, wanted, peers, phase>>

\* _close_peer of the participant's peer, whichever it is now, and no more.
CloseNow(c, sid) ==
  /\ Done(c)
  /\ IF conns[sid] = NoPeer THEN UNCHANGED <<conns, peers>> ELSE DropPeer(sid)
  /\ UNCHANGED <<asked, roster>>

\* The handler of "failed" runs; it looks at the peer's state only now, which a
\* close may have changed.
FailedRuns(i) ==
  /\ At(OnFailed(i), "due")
  /\ LET sid == peers[i].of IN
       \/ /\ peers[i].st \in {"failed", "closing"}
          /\ IF conns[sid] = NoPeer
             THEN Resubscribe(sid) /\ Done(OnFailed(i)) /\ UNCHANGED <<conns, wanted, peers>>
             ELSE ClosePeer(OnFailed(i), sid, "closing") /\ UNCHANGED <<asked, roster>>
       \/ peers[i].st \in {"closing", "closed"} /\ CloseNow(OnFailed(i), sid)
  /\ UNCHANGED <<where, inbox, phase>>

FailedClosed(i) ==
  /\ CloseOver(OnFailed(i), "closing") /\ Done(OnFailed(i))
  /\ Resubscribe(peers[i].of)
  /\ UNCHANGED <<where, inbox, conns, wanted, peers, phase>>

\* The handler of "closed" runs.
ClosedRuns(i) ==
  /\ At(OnClosed(i), "due")
  /\ CloseNow(OnClosed(i), peers[i].of)
  /\ UNCHANGED <<where, inbox, phase>>

-----------------------------------------------------------------------------
(* disconnect.                                                              *)

\* Mutant of Disconnect: the client's task goes on.
DisconnectAlone ==
  /\ phase = "in" /\ phase' = "leaving"
  /\ UNCHANGED <<server, conns, roster, peers, co>>

\* The call is left: the client's task is cancelled wherever it is, the sweep
\* too.  Nothing the server does is received any more, and it is left out.
Disconnect ==
  /\ phase = "in" /\ phase' = "leaving"
  /\ Abandons(Loop)
  /\ co' = [co EXCEPT ![Loop] = Over]
  /\ where' = [s \in Sids |-> "out"] /\ asked' = [s \in Sids |-> 0] /\ inbox' = <<>>
  /\ UNCHANGED <<conns, roster>>

\* disconnect closes a peer of the table, one at a time.
DisconnectCloses(i) ==
  /\ phase = "leaving" /\ At(Leaver, "idle") /\ i \in Range(conns) /\ Open(i)
  /\ peers' = [peers EXCEPT ![i].st = "closing"]
  /\ Goto(Leaver, "closing", NoSid, i)
  /\ UNCHANGED <<server, conns, roster, phase>>

DisconnectClosed ==
  /\ CloseOver(Leaver, "closing")
  /\ Done(Leaver)
  /\ UNCHANGED <<server, conns, roster, peers, phase>>

\* All are closed: the table is cleared, the websocket dropped.
Disconnected ==
  /\ phase = "leaving" /\ At(Leaver, "idle")
  /\ \A i \in Range(conns) \ {NoPeer} : ~Open(i)
  /\ phase' = "left"
  /\ conns' = [s \in Sids |-> NoPeer]
  /\ UNCHANGED <<server, roster, peers, co>>

\* DISCONNECT_TIMEOUT_S is over first: stop goes on without it.  The close it
\* awaits is given up, the peers after it stay open and in the table.
DisconnectTimesOut ==
  /\ phase = "leaving" /\ At(Leaver, "closing")
  /\ phase' = "left"
  /\ Abandons(Leaver)
  /\ co' = [co EXCEPT ![Leaver] = Over]
  /\ UNCHANGED <<server, conns, roster>>

-----------------------------------------------------------------------------
(* The WebRTC library and the signalling server (external).                 *)

\* A peer whose answer is out connects; its handler forgets the retries.
Connects(i) ==
  /\ peers[i].st = "connecting" /\ co[Loop].peer # i
  /\ peers' = [peers EXCEPT ![i].st = "connected"]
  /\ retries' = [retries EXCEPT ![peers[i].of] = 0]
  /\ UNCHANGED <<server, conns, wanted, co, phase>>

\* ICE fails, or the far end closes the peer: a handler is scheduled.
Fails(i) ==
  /\ peers[i].st \in {"connecting", "connected"}
  /\ \/ peers' = [peers EXCEPT ![i].st = "failed"] /\ co' = [co EXCEPT ![OnFailed(i)].at = "due"]
     \/ peers' = [peers EXCEPT ![i].st = "ended"] /\ co' = [co EXCEPT ![OnClosed(i)].at = "due"]
  /\ UNCHANGED <<server, conns, roster, phase>>

\* pc.close() has stopped the peer; "closed" is reported once.
Stops(i) ==
  /\ peers[i].st = "closing"
  /\ peers' = [peers EXCEPT ![i].st = "closed"]
  /\ co' = [co EXCEPT ![OnClosed(i)].at = IF @ = "idle" THEN "due" ELSE @]
  /\ UNCHANGED <<server, conns, roster, phase>>

\* A participant comes, goes, or switches audio; the server says so while the
\* client is there to be told.
Says(kind, sid) == Len(inbox) < MaxInbox /\ inbox' = Append(inbox, Message(kind, sid))
Moves(sid) ==
  /\ phase = "in"
  /\ \/ where[sid] = "out" /\ where' = [where EXCEPT ![sid] = "room"] /\ Says("join", sid)
     \/ where[sid] \in {"room", "silent"} /\ where' = [where EXCEPT ![sid] = "audio"] /\ Says("audio", sid)
     \/ where[sid] = "audio" /\ where' = [where EXCEPT ![sid] = "silent"] /\ Says("silent", sid)
     \/ where[sid] # "out" /\ where' = [where EXCEPT ![sid] = "out"] /\ Says("left", sid)
  /\ UNCHANGED <<asked, conns, roster, peers, co, phase>>

\* A request is answered with an offer if the participant sends audio.
Offers(sid) ==
  /\ asked[sid] > 0 /\ asked' = [asked EXCEPT ![sid] = @ - 1]
  /\ IF where[sid] = "audio" THEN Says("offer", sid) ELSE UNCHANGED inbox
  /\ UNCHANGED <<where, conns, roster, peers, co, phase>>

-----------------------------------------------------------------------------
Signalling ==
  \/ \E s \in Sids : RoomJoin(s) \/ InCallWithAudio(s) \/ InCallWithoutAudio(s)
                     \/ LeftCall(s) \/ Offer(s)
  \/ Replaced \/ Negotiated \/ NegotiationRaises \/ Answered
  \/ Dropped \/ Requested

Task(i) ==
  WatchdogWakes(i) \/ WatchdogClosed(i) \/ FailedRuns(i) \/ FailedClosed(i) \/ ClosedRuns(i)

Next ==
  \/ Signalling
  \/ \E s \in Sids : Reconcile(s) \/ Moves(s) \/ Offers(s)
  \/ \E i \in Peers : Task(i) \/ DisconnectCloses(i)
                      \/ Connects(i) \/ Fails(i) \/ Stops(i)
  \/ Disconnect \/ DisconnectClosed \/ Disconnected \/ DisconnectTimesOut

Spec == Init /\ [][Next]_vars

\* asyncio runs what is ready, sleeps end, closes end, the server answers.
Fairness ==
  /\ WF_vars(Signalling)
  /\ \A s \in Sids : SF_vars(Reconcile(s) /\ Afresh(s)) /\ WF_vars(Offers(s))
  /\ \A i \in Peers : WF_vars(Task(i)) /\ WF_vars(Stops(i))

FairSpec == Spec /\ Fairness

-----------------------------------------------------------------------------
(* Properties.                                                              *)

\* Every variable and field keeps its type; the table names peers of the right
\* participant.
TypeOK ==
  /\ where \in [Sids -> {"out", "room", "audio", "silent"}]
  /\ asked \in [Sids -> 0..MaxAsked]
  /\ inbox \in Seq([kind : Kinds, sid : Sids])
  /\ conns \in [Sids -> Peers \cup {NoPeer}]
  /\ wanted \in SUBSET Sids
  /\ retries \in [Sids -> 0..MaxRetries]
  /\ peers \in [Peers -> [of : Sids \cup {NoSid}, st : PeerStates]]
  /\ co \in [Coroutines -> [at : Places, sid : Sids \cup {NoSid}, peer : Peers \cup {NoPeer}]]
  /\ phase \in {"in", "leaving", "left"}
  /\ \A s \in Sids : conns[s] # NoPeer => peers[conns[s]].of = s

\* Every open peer is the one in the table, so that it can be found and closed
\* and nobody is captured by two peers at once, however offers, failures,
\* watchdogs and leaves interleave.
PeersTracked == \A i \in Peers : Open(i) => conns[peers[i].of] = i

\* Once disconnect has run to its end no peer is open, and none opens again; one
\* that was cut off by the timeout leaves open what its table holds, no more.
\* Half closed is the peer whose close the client's task awaited when it was
\* cancelled, which no table holds and nobody closes, and after the timeout the
\* one that disconnect was at: never a third.
LeavingClosesPeers ==
  LET cut == At(Leaver, "over")
      Abandoned == {i \in Peers : peers[i].st = "abandoned"}
  IN  phase = "left" =>
        /\ cut \/ \A i \in Peers : ~Open(i)
        /\ \A i, j, k \in Abandoned : i = j \/ (cut /\ (i = k \/ j = k))

\* A peer does not stay on its way to a connection: it connects, or is closed,
\* also when its participant is long gone.
NegotiationsEnd ==
  \A i \in Peers : peers[i].st \in {"new", "connecting"} /\ phase = "in"
                     ~> peers[i].st \notin {"new", "connecting"} \/ phase # "in"

\* _maybe_resubscribe's comment: the backoff's "permanent give-up never strands
\* a participant who is still present": whoever is to be heard and has no peer
\* is asked for again, and again.
RecoveryGoesOn ==
  \A s \in Sids : s \in wanted /\ conns[s] = NoPeer /\ phase = "in"
                    ~> asked[s] > 0 \/ conns[s] # NoPeer \/ s \notin wanted \/ phase # "in"

\* Offers are not requested for ever from someone who is gone (stop's docstring:
\* "re-requesting offers from people who had long left"), as long as the loop
\* lives to hear of it.
TheGoneAreLeftAlone ==
  \A s \in Sids : <>[](where[s] = "out") /\ []~At(Loop, "dead") => <>[](asked[s] = 0)

=============================================================================
