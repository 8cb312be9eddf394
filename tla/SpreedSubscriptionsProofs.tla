---------------------- MODULE SpreedSubscriptionsProofs ----------------------
(***************************************************************************)
(* Proofs about SpreedSubscriptions: whatever order offers, failures,      *)
(* watchdogs, leaves and the disconnect come in, every open peer is the    *)
(* one in the table; a disconnect that runs to its end leaves none open,   *)
(* and a cancellation leaves no more than one each half closed.            *)
(***************************************************************************)
EXTENDS SpreedSubscriptions, TLAPS

\* A peer that never was in use has no participant, and nothing runs for it.
Named ==
  \A i \in Peers : peers[i].of = NoSid =>
    /\ peers[i].st = "closed"
    /\ \A c \in {Dog(i), OnFailed(i), OnClosed(i)} : co[c].at \in {"idle", "over"}

\* What the loop has in hand: a participant where it waits for one, who has no
\* peer while the old one closes.
InHand ==
  /\ co[Loop].at \in {"asking", "replacing"} => co[Loop].sid \in Sids
  /\ At(Loop, "replacing") => conns[co[Loop].sid] = NoPeer

\* The disconnect ended the loop.
LoopEnds == phase # "in" => At(Loop, "over")

\* disconnect closes peers only while it runs, and is over only when cut off.
LeaverGoes ==
  /\ co[Leaver].at \in {"idle", "closing", "over"}
  /\ At(Leaver, "closing") => phase = "leaving"
  /\ At(Leaver, "over") => phase = "left"

\* The cancelled loop abandons at most one close, and disconnect none before the
\* timeout.
FewAbandoned ==
  LET Abandoned == {i \in Peers : peers[i].st = "abandoned"}
  IN  /\ phase = "in" => Abandoned = {}
      /\ phase # "left" => \A i, j \in Abandoned : i = j

Leaving == LeaverGoes /\ FewAbandoned /\ LeavingClosesPeers

PInv == TypeOK /\ Named /\ InHand /\ LoopEnds /\ PeersTracked /\ Leaving

\* A peer no step opens, and no step abandons.
Shutting(j) ==
  (Open(j)' => Open(j)) /\ (peers'[j].st = "abandoned" => peers[j].st = "abandoned")

-----------------------------------------------------------------------------
(* The coroutines.                                                          *)

\* The names of the coroutines are apart.
LEMMA Names ==
  /\ Loop \in Coroutines /\ Loop \notin Tasks
  /\ Leaver \in Coroutines /\ Leaver \notin Tasks /\ Leaver # Loop
  /\ \A i \in Peers : {Dog(i), OnFailed(i), OnClosed(i)} \subseteq Tasks
  /\ \A i, j \in Peers :
       /\ Dog(i) # OnFailed(j) /\ Dog(i) # OnClosed(j) /\ OnFailed(i) # OnClosed(j)
       /\ i # j => Dog(i) # Dog(j) /\ OnFailed(i) # OnFailed(j) /\ OnClosed(i) # OnClosed(j)
  /\ NoPeer \notin Peers /\ Tasks \subseteq Coroutines
BY DEF Loop, Leaver, Dog, OnFailed, OnClosed, Tasks, Coroutines, NoPeer, Peers

\* Nothing in the table is in use, or forgets its participant, unless it is the
\* participant's: the half of PInv that only the table and the peers make up.
Table ==
  /\ conns \in [Sids -> Peers \cup {NoPeer}]
  /\ peers \in [Peers -> [of : Sids \cup {NoSid}, st : PeerStates]]
  /\ \A s \in Sids : conns[s] # NoPeer => peers[conns[s]].of = s
  /\ PeersTracked

\* The other half: the coroutines, and what is theirs.
Control ==
  /\ co \in [Coroutines -> [at : Places, sid : Sids \cup {NoSid}, peer : Peers \cup {NoPeer}]]
  /\ phase \in {"in", "leaving", "left"}
  /\ Named /\ LoopEnds /\ Leaving

\* Leaving is not disturbed by what neither is disconnect nor opens or abandons.
LEMMA LeavingKept ==
  ASSUME Leaving, co'[Leaver] = co[Leaver], UNCHANGED phase, \A j \in Peers : Shutting(j)
  PROVE  Leaving'
<1>1. LeaverGoes'
  BY DEF Leaving, LeaverGoes, At
<1>2. FewAbandoned'
  BY DEF Leaving, FewAbandoned, Shutting
<1>3. LeavingClosesPeers'
  BY DEF Leaving, LeavingClosesPeers, Shutting, At
<1>. QED  BY <1>1, <1>2, <1>3 DEF Leaving

\* _close_peer leaves the table in order, and no peer open that was not.
LEMMA DropKeeps ==
  ASSUME Table, NEW s \in Sids, conns[s] # NoPeer, DropPeer(s)
  PROVE  /\ Table'
         /\ \A i \in Peers : peers'[i].of = peers[i].of
         /\ \A i \in Peers : peers'[i].st = IF i = conns[s] /\ Open(i) THEN "closing" ELSE peers[i].st
         /\ conns[s] \in Peers /\ peers[conns[s]].of = s
         /\ conns' = [conns EXCEPT ![s] = NoPeer]
<1>1. /\ conns[s] \in Peers /\ peers[conns[s]].of = s
      /\ conns' = [conns EXCEPT ![s] = NoPeer]
      /\ peers' = [peers EXCEPT ![conns[s]].st = IF Open(conns[s]) THEN "closing" ELSE @]
  BY DEF Table, DropPeer
<1>2. /\ peers' \in [Peers -> [of : Sids \cup {NoSid}, st : PeerStates]]
      /\ conns' \in [Sids -> Peers \cup {NoPeer}]
      /\ \A i \in Peers : peers'[i].of = peers[i].of
      /\ \A i \in Peers : peers'[i].st = IF i = conns[s] /\ Open(i) THEN "closing" ELSE peers[i].st
  BY <1>1 DEF Table, PeerStates
<1>3. \A r \in Sids : conns'[r] # NoPeer => peers'[conns'[r]].of = r
  BY <1>1, <1>2 DEF Table
<1>4. PeersTracked'
  <2>. SUFFICES ASSUME NEW i \in Peers, Open(i)'
                PROVE  conns'[peers'[i].of] = i
    BY DEF PeersTracked
  <2>1. i # conns[s] /\ Open(i)
    BY <1>2 DEF Open, Shutting
  <2>2. conns[peers[i].of] = i
    BY <2>1 DEF Table, PeersTracked
  <2>3. peers[i].of # s
    BY <2>1, <2>2
  <2>. QED  BY <1>1, <1>2, <2>2, <2>3 DEF Table
<1>. QED  BY <1>1, <1>2, <1>3, <1>4 DEF Table

-----------------------------------------------------------------------------
(* The conjuncts that a step leaves alone.                                  *)

\* The types of what neither the table nor the coroutines are.
Counts ==
  /\ where \in [Sids -> {"out", "room", "audio", "silent"}]
  /\ asked \in [Sids -> 0..MaxAsked]
  /\ inbox \in Seq([kind : Kinds, sid : Sids])
  /\ wanted \in SUBSET Sids
  /\ retries \in [Sids -> 0..MaxRetries]

LEMMA Halves == PInv <=> Table /\ Control /\ InHand /\ Counts
BY DEF PInv, TypeOK, Table, Control, Counts

\* A request for an offer, and a retry begun afresh, stay within their bounds.
LEMMA RequestCounts ==
  ASSUME Counts, NEW s \in Sids
  PROVE  /\ Ask(s) => asked' \in [Sids -> 0..MaxAsked]
         /\ RequestIfNone(s) => retries' \in [Sids -> 0..MaxRetries]
         /\ Resubscribe(s) \/ Afresh(s) =>
              asked' \in [Sids -> 0..MaxAsked] /\ retries' \in [Sids -> 0..MaxRetries]
<1>1. Ask(s) => asked' \in [Sids -> 0..MaxAsked]
  BY BoundsAssumption DEF Counts, Ask
<1>2. Afresh(s) => retries' \in [Sids -> 0..MaxRetries]
  BY BoundsAssumption DEF Counts, Afresh
<1>3. RequestIfNone(s) => retries' \in [Sids -> 0..MaxRetries]
  BY BoundsAssumption DEF Counts, RequestIfNone, RequestOffer
<1>4. Resubscribe(s) => Afresh(s) \/ UNCHANGED <<retries, asked>>
  BY DEF Resubscribe
<1>. QED  BY <1>1, <1>2, <1>3, <1>4 DEF Afresh, Counts

\* A message taken or sent leaves messages on their way.
LEMMA InboxTyped ==
  ASSUME Counts, NEW s \in Sids, NEW k \in Kinds
  PROVE  /\ Takes(k, s) => inbox' \in Seq([kind : Kinds, sid : Sids])
         /\ Says(k, s) => inbox' \in Seq([kind : Kinds, sid : Sids])
<1>. DEFINE Messages == [kind : Kinds, sid : Sids]
<1>1. inbox \in Seq(Messages) /\ Message(k, s) \in Messages
  BY DEF Counts, Message
<1>. HIDE DEF Messages
<1>2. Takes(k, s) => inbox' \in Seq(Messages)
  BY <1>1 DEF Takes
<1>3. Says(k, s) => inbox' \in Seq(Messages)
  BY <1>1 DEF Says
<1>. QED  BY <1>2, <1>3 DEF Messages

\* Tables and coroutines, unless something is done to them.
LEMMA TableKept ==
  ASSUME Table, UNCHANGED <<conns, peers>>
  PROVE  Table'
BY DEF Table, PeersTracked, Open

\* A coroutine that goes on, in a call or after it, keeps Control: a task of a
\* peer that has a participant, or the loop while in the call.
LEMMA GotoKeeps ==
  ASSUME Control, Table, NEW c \in Coroutines, NEW at \in Places,
         NEW s \in Sids \cup {NoSid}, NEW i \in Peers \cup {NoPeer},
         Goto(c, at, s, i), UNCHANGED phase,
         \A j \in Peers : peers'[j].of = peers[j].of,
         \A j \in Peers : Shutting(j),
         \A j \in Peers : peers[j].of = NoSid => peers'[j].st = "closed",
         \/ at \in {"idle", "over"} \/ c = Loop
         \/ \E j \in Peers : peers[j].of # NoSid /\ c \in {Dog(j), OnFailed(j), OnClosed(j)},
         c = Loop => ~At(Loop, "over"), c # Leaver
  PROVE  /\ Control'
         /\ co'[c] = Place(at, s, i)
         /\ \A d \in Coroutines : d # c => co'[d] = co[d]
<1>1. /\ co' \in [Coroutines -> [at : Places, sid : Sids \cup {NoSid}, peer : Peers \cup {NoPeer}]]
      /\ co'[c] = Place(at, s, i)
      /\ \A d \in Coroutines : d # c => co'[d] = co[d]
  BY DEF Control, Goto, Place
<1>2. Named'
  <2>. SUFFICES ASSUME NEW j \in Peers, peers[j].of = NoSid,
                       NEW d \in {Dog(j), OnFailed(j), OnClosed(j)}
                PROVE  peers'[j].st = "closed" /\ co'[d].at \in {"idle", "over"}
    BY DEF Named
  <2>1. d \in Coroutines /\ d # Loop /\ co[d].at \in {"idle", "over"}
    BY Names DEF Control, Named
  <2>2. d = c => at \in {"idle", "over"}
    BY <2>1, Names
  <2>. QED  BY <1>1, <2>1, <2>2 DEF Place
<1>3. LoopEnds'
  BY <1>1, Names DEF Control, LoopEnds, At
<1>4. Leaving'
  BY <1>1, Names, LeavingKept DEF Control
<1>. QED  BY <1>1, <1>2, <1>3, <1>4 DEF Control

\* The loop in hand is not touched by the other coroutines, unless they give the
\* participant a peer.
LEMMA InHandKept ==
  ASSUME InHand, co'[Loop] = co[Loop],
         \A s \in Sids : conns[s] = NoPeer => conns'[s] = NoPeer
  PROVE  InHand'
BY DEF InHand, At

-----------------------------------------------------------------------------
(* The loop.                                                                *)

\* What the loop does that neither opens nor closes a peer.
LEMMA LoopGoes ==
  ASSUME PInv, NEW at \in Places, NEW s \in Sids \cup {NoSid}, NEW i \in Peers \cup {NoPeer},
         ~At(Loop, "over"), Goto(Loop, at, s, i), UNCHANGED <<conns, peers, phase>>,
         at = "asking" => s \in Sids, at # "replacing"
  PROVE  Table' /\ Control' /\ InHand'
<1>1. Table /\ Control /\ InHand
  BY Halves
<1>2. Table'
  BY <1>1, TableKept
<1>3. Control' /\ co'[Loop] = Place(at, s, i)
  <2>1. \A j \in Peers : peers[j].of = NoSid => peers'[j].st = "closed"
    BY <1>1 DEF Control, Named
  <2>2. \A j \in Peers : peers'[j].of = peers[j].of /\ Shutting(j)
    BY DEF Open, Shutting
  <2>. QED  BY <1>1, <2>1, <2>2, Names, GotoKeeps
<1>4. InHand'
  BY <1>3 DEF InHand, At, Place
<1>. QED  BY <1>2, <1>3, <1>4

LEMMA Requests ==
  ASSUME PInv, NEW s \in Sids, ~At(Loop, "over"), RequestIfNone(s), UNCHANGED <<conns, peers, phase>>
  PROVE  Table' /\ Control' /\ InHand'
<1>1. \/ Goto(Loop, "asking", s, NoPeer)
      \/ Done(Loop)
  BY DEF RequestIfNone, RequestOffer
<1>2. CASE Goto(Loop, "asking", s, NoPeer)
  BY <1>2, LoopGoes DEF Places
<1>3. CASE Done(Loop)
  BY <1>3, LoopGoes, Names DEF Places, Done
<1>. QED  BY <1>1, <1>2, <1>3

\* Closing the peer of somebody, or replacing it.
LEMMA LoopCloses ==
  ASSUME PInv, NEW s \in Sids, conns[s] # NoPeer, ~At(Loop, "over"), UNCHANGED phase,
         NEW at \in {"dropping", "replacing"}, ClosePeer(Loop, s, at)
  PROVE  Table' /\ Control' /\ InHand'
<1>1. Table /\ Control /\ InHand
  BY Halves
<1>2. /\ Table' /\ conns[s] \in Peers /\ peers[conns[s]].of = s
      /\ conns' = [conns EXCEPT ![s] = NoPeer]
      /\ \A j \in Peers : peers'[j].of = peers[j].of
      /\ \A j \in Peers : peers'[j].st = IF j = conns[s] /\ Open(j) THEN "closing" ELSE peers[j].st
  BY <1>1, DropKeeps DEF ClosePeer
<1>3. Control' /\ co'[Loop] = Place(at, s, conns[s])
  <2>1. \A j \in Peers : peers[j].of = NoSid => peers'[j].st = "closed"
    BY <1>1, <1>2, SidsAssumption DEF Control, Named
  <2>2. \A j \in Peers : Shutting(j)
    BY <1>2 DEF Open, Shutting
  <2>3. Goto(Loop, at, s, conns[s]) /\ at \in Places
    BY DEF ClosePeer, Places
  <2>. QED  BY <1>1, <1>2, <2>1, <2>2, <2>3, Names, GotoKeeps
<1>4. InHand'
  BY <1>1, <1>2, <1>3 DEF InHand, At, Place, Table
<1>. QED  BY <1>2, <1>3, <1>4

\* A new peer takes a number nothing refers to.
LEMMA NewPeerKeeps ==
  ASSUME PInv, NEW s \in Sids, conns[s] = NoPeer, ~At(Loop, "over"), UNCHANGED phase, NewPeer(s)
  PROVE  Table' /\ Control' /\ InHand'
<1>1. Table /\ Control /\ InHand
  BY Halves
<1>2. phase = "in"
  BY <1>1 DEF Control, LoopEnds
<1>3. PICK i \in Peers :
        /\ Unused(i)
        /\ peers' = [peers EXCEPT ![i] = Peer(s, "new")]
        /\ conns' = [conns EXCEPT ![s] = i]
        /\ co' = [co EXCEPT ![Loop] = Place("negotiating", s, i), ![Dog(i)] = Due,
                            ![OnClosed(i)] = Nothing]
  BY DEF NewPeer
<1>4. \A r \in Sids : conns[r] # i
  <2>1. i \notin Range(conns)
    BY <1>3 DEF Unused
  <2>. QED  BY <1>1, <2>1 DEF Range, Table
<1>5. Table'
  <2>1. /\ conns' \in [Sids -> Peers \cup {NoPeer}]
        /\ peers' \in [Peers -> [of : Sids \cup {NoSid}, st : PeerStates]]
    BY <1>1, <1>3 DEF Table, Peer, PeerStates
  <2>2. \A r \in Sids : conns'[r] # NoPeer => peers'[conns'[r]].of = r
    BY <1>1, <1>3, <1>4 DEF Table, Peer
  <2>3. PeersTracked'
    <3>. SUFFICES ASSUME NEW j \in Peers, Open(j)'
                  PROVE  conns'[peers'[j].of] = j
      BY DEF PeersTracked
    <3>1. CASE j = i
      BY <1>1, <1>3, <3>1 DEF Table, Peer
    <3>2. CASE j # i
      <4>1. peers'[j] = peers[j] /\ Open(j)
        BY <1>1, <1>3, <3>2 DEF Table, Open
      <4>2. conns[peers[j].of] = j
        BY <1>1, <4>1 DEF Table, PeersTracked
      <4>3. peers[j].of # s
        BY <4>2, Names
      <4>. QED  BY <1>1, <1>3, <4>1, <4>2, <4>3 DEF Table
    <3>. QED  BY <3>1, <3>2
  <2>. QED  BY <2>1, <2>2, <2>3 DEF Table
<1>6. /\ co' \in [Coroutines -> [at : Places, sid : Sids \cup {NoSid}, peer : Peers \cup {NoPeer}]]
      /\ co'[Loop] = Place("negotiating", s, i)
      /\ \A d \in Coroutines : d \notin {Loop, Dog(i), OnClosed(i)} => co'[d] = co[d]
  BY <1>1, <1>3, Names DEF Control, Place, Due, Nothing, Places
<1>7. Named'
  <2>. SUFFICES ASSUME NEW j \in Peers, peers'[j].of = NoSid,
                       NEW d \in {Dog(j), OnFailed(j), OnClosed(j)}
                PROVE  peers'[j].st = "closed" /\ co'[d].at \in {"idle", "over"}
    BY DEF Named
  <2>1. j # i
    BY <1>1, <1>3, SidsAssumption DEF Table, Peer
  <2>2. peers'[j] = peers[j]
    BY <1>1, <1>3, <2>1 DEF Table
  <2>3. d \notin {Loop, Dog(i), OnClosed(i)} /\ d \in Coroutines
    BY <2>1, Names
  <2>. QED  BY <1>1, <1>6, <2>2, <2>3 DEF Control, Named
<1>8. LoopEnds' /\ InHand'
  BY <1>2, <1>6 DEF LoopEnds, InHand, At, Place
<1>9. Leaving'
  <2>1. co'[Leaver] = co[Leaver]
    BY <1>6, Names
  <2>2. \A j \in Peers : peers'[j].st = "abandoned" => peers[j].st = "abandoned"
    BY <1>1, <1>3 DEF Table, Peer
  <2>. QED  BY <1>1, <1>2, <2>1, <2>2
         DEF Control, Leaving, LeaverGoes, FewAbandoned, LeavingClosesPeers, At
<1>. QED  BY <1>1, <1>5, <1>6, <1>7, <1>8, <1>9 DEF Control

\* The whole of the signalling loop.
LEMMA SignallingStep == PInv /\ Signalling => PInv'
<1>. SUFFICES ASSUME PInv, Signalling PROVE PInv'
  OBVIOUS
<1>1. Table /\ Control /\ InHand /\ Counts
  BY Halves
<1>2. ASSUME NEW s \in Sids, NEW kind \in Kinds, Takes(kind, s)
      PROVE  /\ ~At(Loop, "over") /\ UNCHANGED <<where, asked, phase>>
             /\ inbox' \in Seq([kind : Kinds, sid : Sids])
  BY <1>1, <1>2, InboxTyped DEF Takes, At
<1>3. ASSUME NEW s \in Sids, RoomJoin(s) PROVE PInv'
  <2>1. Takes("join", s) /\ RequestIfNone(s) /\ UNCHANGED <<conns, wanted, peers>>
    BY <1>3 DEF RoomJoin
  <2>2. /\ ~At(Loop, "over") /\ UNCHANGED <<where, asked, phase>>
        /\ inbox' \in Seq([kind : Kinds, sid : Sids])
    BY <1>2, <2>1 DEF Kinds
  <2>3. Table' /\ Control' /\ InHand'
    BY <2>1, <2>2, Requests
  <2>4. Counts'
    BY <1>1, <2>1, <2>2, RequestCounts DEF Counts
  <2>. QED  BY <2>3, <2>4, Halves DEF PInv, TypeOK, Table, Control, Counts
<1>4. ASSUME NEW s \in Sids, InCallWithAudio(s) PROVE PInv'
  <2>1. /\ Takes("audio", s) /\ RequestIfNone(s)
        /\ wanted' = wanted \cup {s} /\ UNCHANGED <<conns, peers>>
    BY <1>4 DEF InCallWithAudio
  <2>2. /\ ~At(Loop, "over") /\ UNCHANGED <<where, asked, phase>>
        /\ inbox' \in Seq([kind : Kinds, sid : Sids])
    BY <1>2, <2>1 DEF Kinds
  <2>3. Table' /\ Control' /\ InHand'
    BY <2>1, <2>2, Requests
  <2>4. Counts'
    BY <1>1, <2>1, <2>2, RequestCounts DEF Counts
  <2>. QED  BY <2>3, <2>4 DEF PInv, TypeOK, Table, Control, Counts
<1>5. ASSUME NEW s \in Sids, InCallWithoutAudio(s) PROVE PInv'
  <2>1. Takes("silent", s) /\ wanted' = wanted \ {s} /\ UNCHANGED <<conns, retries, peers, co>>
    BY <1>5 DEF InCallWithoutAudio
  <2>2. UNCHANGED <<where, asked, phase>> /\ inbox' \in Seq([kind : Kinds, sid : Sids])
    BY <1>2, <2>1 DEF Kinds
  <2>3. Counts'
    BY <1>1, <2>1, <2>2 DEF Counts
  <2>. QED  BY <1>1, <2>1, <2>2, <2>3
         DEF PInv, TypeOK, Table, Control, Counts, Named, InHand, LoopEnds, At, Open,
             PeersTracked, Leaving, LeaverGoes, FewAbandoned, LeavingClosesPeers
<1>6. ASSUME NEW s \in Sids, LeftCall(s) PROVE PInv'
  <2>1. Takes("left", s) /\ wanted' = wanted \ {s} /\ UNCHANGED retries
    BY <1>6 DEF LeftCall
  <2>2. /\ ~At(Loop, "over") /\ UNCHANGED <<where, asked, phase>>
        /\ inbox' \in Seq([kind : Kinds, sid : Sids])
    BY <1>2, <2>1 DEF Kinds
  <2>3. Counts'
    BY <1>1, <2>1, <2>2 DEF Counts
  <2>4. CASE conns[s] = NoPeer
    <3>1. UNCHANGED <<conns, peers, co>>
      BY <1>6, <2>4 DEF LeftCall
    <3>. QED  BY <1>1, <2>2, <2>3, <3>1
           DEF PInv, TypeOK, Table, Control, Counts, Named, InHand, LoopEnds, At, Open,
               PeersTracked, Leaving, LeaverGoes, FewAbandoned, LeavingClosesPeers
  <2>5. CASE conns[s] # NoPeer
    <3>1. ClosePeer(Loop, s, "dropping")
      BY <1>6, <2>5 DEF LeftCall
    <3>2. Table' /\ Control' /\ InHand'
      BY <2>2, <2>5, <3>1, LoopCloses
    <3>. QED  BY <2>3, <3>2 DEF PInv, TypeOK, Table, Control, Counts
  <2>. QED  BY <2>4, <2>5
<1>7. ASSUME NEW s \in Sids, Offer(s) PROVE PInv'
  <2>1. Takes("offer", s) /\ UNCHANGED <<wanted, retries>>
    BY <1>7 DEF Offer, roster
  <2>2. /\ ~At(Loop, "over") /\ UNCHANGED <<where, asked, phase>>
        /\ inbox' \in Seq([kind : Kinds, sid : Sids])
    BY <1>2, <2>1 DEF Kinds
  <2>3. Counts'
    BY <1>1, <2>1, <2>2 DEF Counts
  <2>4. CASE conns[s] # NoPeer /\ ClosePeer(Loop, s, "replacing")
    <3>1. Table' /\ Control' /\ InHand'
      BY <2>2, <2>4, LoopCloses
    <3>. QED  BY <2>3, <3>1 DEF PInv, TypeOK, Table, Control, Counts
  <2>5. CASE conns[s] = NoPeer /\ NewPeer(s)
    <3>1. Table' /\ Control' /\ InHand'
      BY <2>2, <2>5, NewPeerKeeps
    <3>. QED  BY <2>3, <3>1 DEF PInv, TypeOK, Table, Control, Counts
  <2>6. CASE UNCHANGED <<conns, peers, co>>
    BY <1>1, <2>2, <2>3, <2>6
       DEF PInv, TypeOK, Table, Control, Counts, Named, InHand, LoopEnds, At, Open,
           PeersTracked, Leaving, LeaverGoes, FewAbandoned, LeavingClosesPeers
  <2>. QED  BY <1>7, <2>4, <2>5, <2>6 DEF Offer
<1>8. CASE Replaced
  <2>1. /\ At(Loop, "replacing") /\ NewPeer(co[Loop].sid)
        /\ UNCHANGED <<where, asked, inbox, wanted, retries, phase>>
    BY <1>8 DEF Replaced, CloseOver, server, roster
  <2>2. co[Loop].sid \in Sids /\ conns[co[Loop].sid] = NoPeer /\ ~At(Loop, "over")
    BY <1>1, <2>1 DEF InHand, At
  <2>3. Table' /\ Control' /\ InHand'
    BY <2>1, <2>2, NewPeerKeeps
  <2>4. Counts'
    BY <1>1, <2>1 DEF Counts
  <2>. QED  BY <2>3, <2>4 DEF PInv, TypeOK, Table, Control, Counts
<1>9. CASE Negotiated
  <2>1. /\ At(Loop, "negotiating") /\ peers[co[Loop].peer].st = "new"
        /\ peers' = [peers EXCEPT ![co[Loop].peer].st = "connecting"]
        /\ Goto(Loop, "answering", co[Loop].sid, co[Loop].peer)
        /\ UNCHANGED <<where, asked, inbox, conns, wanted, retries, phase>>
    BY <1>9 DEF Negotiated, server, roster
  <2>2. /\ Table' /\ \A j \in Peers : peers'[j].of = peers[j].of
        /\ \A j \in Peers : Shutting(j)
        /\ \A j \in Peers : peers[j].of = NoSid => peers'[j].st = "closed"
    <3>1. /\ \A j \in Peers : peers'[j].of = peers[j].of
          /\ \A j \in Peers : peers'[j].st = peers[j].st
                              \/ (peers[j].st = "new" /\ peers'[j].st = "connecting")
          /\ peers' \in [Peers -> [of : Sids \cup {NoSid}, st : PeerStates]]
      <4>. DEFINE p == co[Loop].peer
      <4>1. /\ peers \in [Peers -> [of : Sids \cup {NoSid}, st : PeerStates]]
            /\ peers[p].st = "new" /\ peers' = [peers EXCEPT ![p].st = "connecting"]
        BY <1>1, <2>1 DEF Table
      <4>. HIDE DEF p
      <4>. QED  BY <4>1 DEF PeerStates
    <3>2. \A j \in Peers : Open(j)' <=> Open(j)
      BY <3>1 DEF Open
    <3>3. Table'
      BY <1>1, <2>1, <3>1, <3>2 DEF Table, PeersTracked
    <3>. QED  BY <1>1, <3>1, <3>2, <3>3 DEF Control, Named, Shutting
  <2>3. co[Loop].sid \in Sids \cup {NoSid} /\ co[Loop].peer \in Peers \cup {NoPeer}
    BY <1>1, Names DEF Control
  <2>4. Control' /\ co'[Loop].at = "answering"
    <3>1. ~At(Loop, "over") /\ "answering" \in Places
      BY <2>1 DEF At, Places
    <3>2. Control' /\ co'[Loop] = Place("answering", co[Loop].sid, co[Loop].peer)
      BY <1>1, <2>1, <2>2, <2>3, <3>1, Names, GotoKeeps
    <3>. QED  BY <3>2 DEF Place
  <2>5. InHand' /\ Counts'
    BY <1>1, <2>1, <2>4 DEF InHand, At, Counts
  <2>. QED  BY <2>2, <2>4, <2>5 DEF PInv, TypeOK, Table, Control, Counts
<1>10. CASE NegotiationRaises
  <2>1. /\ At(Loop, "negotiating") /\ Goto(Loop, "dead", NoSid, NoPeer)
        /\ UNCHANGED <<where, asked, inbox, conns, wanted, retries, peers, phase>>
    BY <1>10 DEF NegotiationRaises, server, roster
  <2>2. Table' /\ Control' /\ InHand'
    BY <2>1, LoopGoes DEF Places, At
  <2>3. Counts'
    BY <1>1, <2>1 DEF Counts
  <2>. QED  BY <2>2, <2>3 DEF PInv, TypeOK, Table, Control, Counts
<1>11. ASSUME Done(Loop), ~At(Loop, "over"), UNCHANGED <<conns, wanted, retries, peers, phase>>,
              Counts'
       PROVE  PInv'
  <2>1. Goto(Loop, "idle", NoSid, NoPeer)
    BY <1>11, Names DEF Done
  <2>2. Table' /\ Control' /\ InHand'
    BY <1>11, <2>1, LoopGoes DEF Places
  <2>. QED  BY <1>11, <2>2 DEF PInv, TypeOK, Table, Control, Counts
<1>12. CASE Answered \/ Dropped
  <2>1. /\ Done(Loop) /\ ~At(Loop, "over")
        /\ UNCHANGED <<where, asked, inbox, conns, wanted, retries, peers, phase>>
    BY <1>12 DEF Answered, Dropped, CloseOver, At, server, roster
  <2>2. Counts'
    BY <1>1, <2>1 DEF Counts
  <2>. QED  BY <1>11, <2>1, <2>2
<1>13. CASE Requested
  <2>1. /\ Done(Loop) /\ At(Loop, "asking") /\ Ask(co[Loop].sid)
        /\ UNCHANGED <<where, inbox, conns, wanted, retries, peers, phase>>
    BY <1>13 DEF Requested, roster
  <2>2. co[Loop].sid \in Sids /\ ~At(Loop, "over")
    BY <1>1, <2>1 DEF InHand, At
  <2>3. Counts'
    BY <1>1, <2>1, <2>2, RequestCounts DEF Counts
  <2>. QED  BY <1>11, <2>1, <2>2, <2>3
<1>. QED  BY <1>3, <1>4, <1>5, <1>6, <1>7, <1>8, <1>9, <1>10, <1>12, <1>13 DEF Signalling

-----------------------------------------------------------------------------
(* The tasks.                                                               *)

\* A task of a peer in use.
Runs(c) == \E i \in Peers : peers[i].of # NoSid /\ c \in {Dog(i), OnFailed(i), OnClosed(i)}

\* A task is over, and nothing else happens to peers.
LEMMA TaskEnds ==
  ASSUME PInv, NEW c \in Tasks, Runs(c), Done(c), UNCHANGED <<conns, peers, phase>>
  PROVE  Table' /\ Control' /\ InHand'
<1>1. Table /\ Control /\ InHand
  BY Halves
<1>2. Goto(c, "over", NoSid, NoPeer) /\ c \in Coroutines /\ c # Loop
  BY Names DEF Done
<1>3. /\ \A j \in Peers : peers[j].of = NoSid => peers'[j].st = "closed"
      /\ \A j \in Peers : peers'[j].of = peers[j].of /\ Shutting(j)
  BY <1>1 DEF Control, Named, Open, Shutting
<1>4. Control' /\ co'[Loop] = co[Loop]
  BY <1>1, <1>2, <1>3, Names, GotoKeeps DEF Places
<1>. QED  BY <1>1, <1>4, TableKept, InHandKept

\* A task closes a participant's peer and goes wherever it goes.
LEMMA TaskDrops ==
  ASSUME PInv, NEW c \in Tasks, Runs(c), UNCHANGED phase,
         NEW s \in Sids, conns[s] # NoPeer, DropPeer(s),
         NEW at \in Places, NEW t \in Sids \cup {NoSid}, NEW i \in Peers \cup {NoPeer}, Goto(c, at, t, i)
  PROVE  Table' /\ Control' /\ InHand'
<1>1. Table /\ Control /\ InHand
  BY Halves
<1>2. /\ Table' /\ conns[s] \in Peers /\ peers[conns[s]].of = s
      /\ conns' = [conns EXCEPT ![s] = NoPeer]
      /\ \A j \in Peers : peers'[j].of = peers[j].of
      /\ \A j \in Peers : peers'[j].st = IF j = conns[s] /\ Open(j) THEN "closing" ELSE peers[j].st
  BY <1>1, DropKeeps
<1>3. /\ \A j \in Peers : peers[j].of = NoSid => peers'[j].st = "closed"
      /\ \A j \in Peers : Shutting(j)
  BY <1>1, <1>2, SidsAssumption DEF Control, Named, Open, Shutting
<1>4. c \in Coroutines /\ c # Loop
  BY Names
<1>5. Control' /\ co'[Loop] = co[Loop]
  BY <1>1, <1>2, <1>3, <1>4, Names, GotoKeeps DEF Runs
<1>6. \A r \in Sids : conns[r] = NoPeer => conns'[r] = NoPeer
  BY <1>1, <1>2 DEF Table
<1>. QED  BY <1>1, <1>2, <1>5, <1>6, InHandKept

\* What a task does to the peer of a participant: nothing, closing it and being
\* over, or closing it and awaiting that.
LEMMA TaskKeeps ==
  ASSUME PInv, NEW c \in Tasks, Runs(c), UNCHANGED phase, NEW s \in Sids,
         \/ Done(c) /\ UNCHANGED <<conns, peers>>
         \/ conns[s] # NoPeer /\ Done(c) /\ DropPeer(s)
         \/ conns[s] # NoPeer /\ ClosePeer(c, s, "closing")
  PROVE  Table' /\ Control' /\ InHand'
<1>1. CASE Done(c) /\ UNCHANGED <<conns, peers>>
  BY <1>1, TaskEnds
<1>2. CASE conns[s] # NoPeer /\ Done(c) /\ DropPeer(s)
  <2>1. Goto(c, "over", NoSid, NoPeer)
    BY <1>2 DEF Done
  <2>. QED  BY <1>2, <2>1, TaskDrops DEF Places
<1>3. CASE conns[s] # NoPeer /\ ClosePeer(c, s, "closing")
  <2>1. DropPeer(s) /\ Goto(c, "closing", s, conns[s])
    BY <1>3 DEF ClosePeer
  <2>2. conns[s] \in Peers \cup {NoPeer}
    BY Halves DEF Table
  <2>. QED  BY <1>3, <2>1, <2>2, TaskDrops DEF Places
<1>. QED  BY <1>1, <1>2, <1>3

\* A watchdog, or a handler, of a peer.
LEMMA TaskStep == \A i \in Peers : PInv /\ Task(i) => PInv'
<1>. SUFFICES ASSUME PInv, NEW i \in Peers, Task(i) PROVE PInv'
  OBVIOUS
<1>. DEFINE sid == peers[i].of
<1>1. Table /\ Control /\ InHand /\ Counts
  BY Halves
<1>2. {Dog(i), OnFailed(i), OnClosed(i)} \subseteq Tasks
  BY Names
<1>3. sid \in Sids
  <2>1. \E c \in {Dog(i), OnFailed(i), OnClosed(i)} : co[c].at \notin {"idle", "over"}
    BY DEF Task, WatchdogWakes, WatchdogClosed, FailedRuns, FailedClosed, ClosedRuns, CloseOver, At
  <2>2. sid # NoSid
    BY <1>1, <2>1 DEF Control, Named
  <2>. QED  BY <1>1, <2>2 DEF Table
<1>4. Runs(Dog(i)) /\ Runs(OnFailed(i)) /\ Runs(OnClosed(i))
  BY <1>3, SidsAssumption DEF Runs
<1>. HIDE DEF sid
<1>5. ASSUME NEW c \in {Dog(i), OnFailed(i), OnClosed(i)}, UNCHANGED phase, Counts',
             \/ Done(c) /\ UNCHANGED <<conns, peers>>
             \/ conns[sid] # NoPeer /\ Done(c) /\ DropPeer(sid)
             \/ conns[sid] # NoPeer /\ ClosePeer(c, sid, "closing")
      PROVE  PInv'
  <2>1. Table' /\ Control' /\ InHand'
    BY <1>2, <1>3, <1>4, <1>5, TaskKeeps
  <2>. QED  BY <1>5, <2>1 DEF PInv, TypeOK, Table, Control, Counts
<1>6. CASE WatchdogWakes(i)
  <2>1. UNCHANGED <<where, asked, inbox, wanted, retries, phase>>
    BY <1>6 DEF WatchdogWakes, server, roster
  <2>2. \/ Done(Dog(i)) /\ UNCHANGED <<conns, peers>>
        \/ conns[sid] # NoPeer /\ ClosePeer(Dog(i), sid, "closing")
    BY <1>6, Names DEF WatchdogWakes, sid
  <2>3. Counts'
    BY <1>1, <2>1 DEF Counts
  <2>. QED  BY <1>5, <2>1, <2>2, <2>3
<1>7. CASE WatchdogClosed(i)
  <2>1. /\ Done(Dog(i)) /\ UNCHANGED <<where, inbox, conns, wanted, peers, phase>>
        /\ Afresh(sid) \/ UNCHANGED <<retries, asked>>
    BY <1>7 DEF WatchdogClosed, sid
  <2>2. Counts'
    BY <1>1, <1>3, <2>1, RequestCounts DEF Counts
  <2>. QED  BY <1>5, <2>1, <2>2
<1>8. ASSUME NEW c \in {Dog(i), OnFailed(i), OnClosed(i)}, CloseNow(c, sid),
             UNCHANGED <<where, inbox, phase>>
      PROVE  PInv'
  <2>1. /\ UNCHANGED <<asked, wanted, retries>>
        /\ \/ Done(c) /\ UNCHANGED <<conns, peers>>
           \/ conns[sid] # NoPeer /\ Done(c) /\ DropPeer(sid)
    BY <1>8 DEF CloseNow, roster
  <2>2. Counts'
    BY <1>1, <1>8, <2>1 DEF Counts
  <2>. QED  BY <1>5, <1>8, <2>1, <2>2
<1>9. CASE FailedRuns(i)
  <2>1. UNCHANGED <<where, inbox, phase>>
    BY <1>9 DEF FailedRuns
  <2>2. CASE Resubscribe(sid) /\ Done(OnFailed(i)) /\ UNCHANGED <<conns, wanted, peers>>
    <3>1. Counts'
      BY <1>1, <1>3, <2>1, <2>2, RequestCounts DEF Counts, Resubscribe
    <3>. QED  BY <1>5, <2>1, <2>2, <3>1
  <2>3. CASE /\ conns[sid] # NoPeer /\ ClosePeer(OnFailed(i), sid, "closing")
             /\ UNCHANGED <<asked, wanted, retries>>
    <3>1. Counts'
      BY <1>1, <2>1, <2>3 DEF Counts
    <3>. QED  BY <1>5, <2>1, <2>3, <3>1
  <2>4. CASE CloseNow(OnFailed(i), sid)
    BY <1>8, <2>1, <2>4
  <2>. QED  BY <1>9, <2>2, <2>3, <2>4 DEF FailedRuns, sid, roster
<1>10. CASE FailedClosed(i)
  <2>1. /\ Done(OnFailed(i)) /\ Resubscribe(sid)
        /\ UNCHANGED <<where, inbox, conns, wanted, peers, phase>>
    BY <1>10 DEF FailedClosed, sid
  <2>2. Counts'
    BY <1>1, <1>3, <2>1, RequestCounts DEF Counts, Resubscribe
  <2>. QED  BY <1>5, <2>1, <2>2
<1>11. CASE ClosedRuns(i)
  BY <1>8, <1>11 DEF ClosedRuns, sid
<1>. QED  BY <1>6, <1>7, <1>9, <1>10, <1>11 DEF Task

-----------------------------------------------------------------------------
(* The rest of the system, and the theorems.                                *)

\* What leaves the coroutines where they are.
LEMMA Outside ==
  ASSUME PInv, UNCHANGED <<co, conns, phase>>, Table', Counts',
         \A j \in Peers : peers'[j].of = peers[j].of,
         \A j \in Peers : Shutting(j),
         \A j \in Peers : peers[j].of = NoSid => peers'[j].st = "closed"
  PROVE  PInv'
<1>1. Control /\ InHand
  BY Halves
<1>2. Named' /\ LoopEnds' /\ Leaving'
  BY <1>1, LeavingKept DEF Control, Named, LoopEnds, At
<1>3. InHand'
  BY <1>1 DEF InHand, At
<1>. QED  BY <1>1, <1>2, <1>3 DEF PInv, TypeOK, Table, Control, Counts

\* A peer in use goes from one state to another that is not more open.
LEMMA PeerGoes ==
  ASSUME Table, Named, NEW i \in Peers, NEW st \in PeerStates \ {"abandoned"}, peers[i].st # "closed",
         st \notin {"closing", "closed"} => Open(i),
         peers' = [peers EXCEPT ![i].st = st], UNCHANGED conns
  PROVE  /\ Table'
         /\ \A j \in Peers : peers'[j].of = peers[j].of
         /\ \A j \in Peers : Shutting(j)
         /\ \A j \in Peers : peers[j].of = NoSid => peers'[j].st = "closed"
         /\ peers[i].of # NoSid
BY DEF Table, PeersTracked, Open, Named, Shutting

\* A handler that is scheduled belongs to a peer in use.
LEMMA Scheduled ==
  ASSUME PInv, NEW i \in Peers, peers[i].of # NoSid,
         NEW c \in {OnFailed(i), OnClosed(i)},
         \/ co' = [co EXCEPT ![c].at = "due"]
         \/ co' = [co EXCEPT ![c].at = IF @ = "idle" THEN "due" ELSE @],
         UNCHANGED <<conns, phase>>, Table', Counts',
         \A j \in Peers : peers'[j].of = peers[j].of,
         \A j \in Peers : Shutting(j),
         \A j \in Peers : peers[j].of = NoSid => peers'[j].st = "closed"
  PROVE  PInv'
<1>1. Control /\ InHand
  BY Halves
<1>2. c \in Coroutines /\ c # Loop /\ Loop \in Coroutines
  BY Names
<1>3. /\ co' \in [Coroutines -> [at : Places, sid : Sids \cup {NoSid}, peer : Peers \cup {NoPeer}]]
      /\ \A d \in Coroutines : d # c => co'[d] = co[d]
  BY <1>1, <1>2 DEF Control, Places
<1>4. Named'
  <2>. SUFFICES ASSUME NEW j \in Peers, peers[j].of = NoSid,
                       NEW d \in {Dog(j), OnFailed(j), OnClosed(j)}
                PROVE  peers'[j].st = "closed" /\ co'[d].at \in {"idle", "over"}
    BY DEF Named
  <2>1. d # c /\ d \in Coroutines
    BY Names
  <2>. QED  BY <1>1, <1>3, <2>1 DEF Control, Named
<1>5. LoopEnds' /\ Leaving'
  BY <1>1, <1>2, <1>3, Names, LeavingKept DEF Control, LoopEnds, At
<1>6. InHand'
  BY <1>1, <1>2, <1>3, InHandKept
<1>. QED  BY <1>1, <1>3, <1>4, <1>5, <1>6 DEF PInv, TypeOK, Table, Control, Counts

\* A cancellation abandons the one close its coroutine awaits.
LEMMA AbandonsOne ==
  ASSUME NEW c, Abandons(c)
  PROVE  \A j \in Peers : peers'[j].st = "abandoned" => peers[j].st = "abandoned" \/ j = co[c].peer
BY DEF Abandons, Awaits

\* It opens nothing, and starts no task.
LEMMA AbandonsKeeps ==
  ASSUME Table, Named, NEW c \in {Loop, Leaver}, Abandons(c), UNCHANGED conns,
         \A d \in Coroutines : d # c => co'[d] = co[d]
  PROVE  Table' /\ Named' /\ \A j \in Peers : Open(j)' => Open(j)
<1>1. /\ peers' \in [Peers -> [of : Sids \cup {NoSid}, st : PeerStates]]
      /\ \A j \in Peers : peers'[j].of = peers[j].of
      /\ \A j \in Peers : peers'[j] = peers[j] \/ (peers[j].st = "closing" /\ peers'[j].st = "abandoned")
  BY DEF Table, Abandons, Awaits, Peer, PeerStates
<1>2. \A j \in Peers : Open(j)' => Open(j)
  BY <1>1 DEF Open
<1>3. Named'
  <2>. SUFFICES ASSUME NEW j \in Peers, peers'[j].of = NoSid,
                       NEW d \in {Dog(j), OnFailed(j), OnClosed(j)}
                PROVE  peers'[j].st = "closed" /\ co'[d].at \in {"idle", "over"}
    BY DEF Named
  <2>1. d # c /\ d \in Coroutines
    BY Names
  <2>. QED  BY <1>1, <2>1 DEF Named
<1>4. PeersTracked'
  BY <1>1, <1>2 DEF Table, PeersTracked
<1>. QED  BY <1>1, <1>2, <1>3, <1>4 DEF Table

\* disconnect begins a close, or goes on after one.
LEMMA LeaverSteps ==
  ASSUME PInv, UNCHANGED <<conns, phase>>, Table', Counts',
         NEW at \in {"idle", "closing"}, NEW i \in Peers \cup {NoPeer}, Goto(Leaver, at, NoSid, i),
         phase = "leaving", at \in Places,
         \A j \in Peers : peers'[j].of = peers[j].of,
         \A j \in Peers : Shutting(j),
         \A j \in Peers : peers[j].of = NoSid => peers'[j].st = "closed"
  PROVE  PInv'
<1>1. Control /\ InHand
  BY Halves
<1>2. /\ co' \in [Coroutines -> [at : Places, sid : Sids \cup {NoSid}, peer : Peers \cup {NoPeer}]]
      /\ co'[Leaver].at = at /\ \A d \in Coroutines : d # Leaver => co'[d] = co[d]
  BY <1>1, Names DEF Control, Goto, Place
<1>3. Named'
  <2>. SUFFICES ASSUME NEW j \in Peers, peers[j].of = NoSid,
                       NEW d \in {Dog(j), OnFailed(j), OnClosed(j)}
                PROVE  peers'[j].st = "closed" /\ co'[d].at \in {"idle", "over"}
    BY DEF Named
  <2>1. d # Leaver /\ d \in Coroutines
    BY Names
  <2>. QED  BY <1>1, <1>2, <2>1 DEF Control, Named
<1>4. co'[Loop] = co[Loop]
  BY <1>2, Names
<1>5. LoopEnds' /\ InHand'
  BY <1>1, <1>4 DEF Control, LoopEnds, InHand, At
<1>6. Leaving'
  <2>1. LeaverGoes'
    BY <1>2 DEF LeaverGoes, At
  <2>2. FewAbandoned'
    BY <1>1 DEF Control, Leaving, FewAbandoned, Shutting
  <2>3. LeavingClosesPeers'
    BY DEF LeavingClosesPeers
  <2>. QED  BY <2>1, <2>2, <2>3 DEF Leaving
<1>. QED  BY <1>1, <1>2, <1>3, <1>5, <1>6 DEF PInv, TypeOK, Table, Control, Counts

\* Every other step.
LEMMA OtherStep ==
  ASSUME PInv,
         \/ \E s \in Sids : Reconcile(s) \/ Moves(s) \/ Offers(s)
         \/ \E i \in Peers : DisconnectCloses(i) \/ Connects(i) \/ Fails(i) \/ Stops(i)
         \/ Disconnect \/ DisconnectClosed \/ Disconnected \/ DisconnectTimesOut
  PROVE  PInv'
<1>1. Table /\ Control /\ InHand /\ Counts /\ Named /\ LoopEnds
  BY Halves DEF Control
<1>2. /\ \A j \in Peers : peers[j].of = NoSid => peers[j].st = "closed"
      /\ UNCHANGED peers => \A j \in Peers : peers'[j].of = peers[j].of /\ Shutting(j)
      /\ UNCHANGED <<conns, peers>> => Table'
  BY <1>1, TableKept DEF Named, Open, Shutting
<1>3. ASSUME NEW s \in Sids, Reconcile(s) PROVE PInv'
  <2>1. UNCHANGED <<where, inbox, conns, wanted, peers, co, phase>> /\ Resubscribe(s)
    BY <1>3 DEF Reconcile
  <2>2. Counts'
    BY <1>1, <2>1, RequestCounts DEF Counts, Resubscribe
  <2>. QED  BY <1>2, <2>1, <2>2, Outside
<1>4. ASSUME NEW s \in Sids, Moves(s) PROVE PInv'
  <2>1. /\ UNCHANGED <<asked, conns, wanted, retries, peers, co, phase>>
        /\ \E k \in Kinds : Says(k, s)
        /\ \E w \in {"out", "room", "audio", "silent"} : where' = [where EXCEPT ![s] = w]
    BY <1>4 DEF Moves, roster, Kinds
  <2>2. inbox' \in Seq([kind : Kinds, sid : Sids])
    BY <1>1, <2>1, InboxTyped
  <2>3. Counts'
    BY <1>1, <2>1, <2>2 DEF Counts
  <2>. QED  BY <1>2, <2>1, <2>3, Outside
<1>5. ASSUME NEW s \in Sids, Offers(s) PROVE PInv'
  <2>1. /\ UNCHANGED <<where, conns, wanted, retries, peers, co, phase>>
        /\ asked[s] > 0 /\ asked' = [asked EXCEPT ![s] = @ - 1]
        /\ Says("offer", s) \/ UNCHANGED inbox
    BY <1>5 DEF Offers, roster
  <2>2. inbox' \in Seq([kind : Kinds, sid : Sids])
    BY <1>1, <2>1, InboxTyped DEF Kinds, Counts
  <2>3. asked' \in [Sids -> 0..MaxAsked]
    BY <1>1, <2>1, BoundsAssumption DEF Counts
  <2>4. Counts'
    BY <1>1, <2>1, <2>2, <2>3 DEF Counts
  <2>. QED  BY <1>2, <2>1, <2>4, Outside
<1>6. ASSUME NEW i \in Peers, DisconnectCloses(i) PROVE PInv'
  <2>1. /\ Open(i) /\ peers' = [peers EXCEPT ![i].st = "closing"]
        /\ phase = "leaving" /\ Goto(Leaver, "closing", NoSid, i)
        /\ UNCHANGED <<where, asked, inbox, conns, wanted, retries, phase>>
    BY <1>6 DEF DisconnectCloses, server, roster
  <2>2. Counts'
    BY <1>1, <2>1 DEF Counts
  <2>3. "closing" \in PeerStates \ {"abandoned"} /\ peers[i].st # "closed"
    BY <2>1 DEF PeerStates, Open
  <2>4. /\ Table'
        /\ \A j \in Peers : peers'[j].of = peers[j].of
        /\ \A j \in Peers : Shutting(j)
        /\ \A j \in Peers : peers[j].of = NoSid => peers'[j].st = "closed"
    BY <1>1, <2>1, <2>3, PeerGoes
  <2>5. "closing" \in Places
    BY DEF Places
  <2>. QED  BY <1>1, <2>1, <2>2, <2>4, <2>5, LeaverSteps
<1>7. ASSUME NEW i \in Peers, Connects(i) PROVE PInv'
  <2>1. /\ peers[i].st = "connecting" /\ peers' = [peers EXCEPT ![i].st = "connected"]
        /\ retries' = [retries EXCEPT ![peers[i].of] = 0]
        /\ UNCHANGED <<where, asked, inbox, conns, wanted, co, phase>>
    BY <1>7 DEF Connects, server
  <2>2. Counts'
    <3>1. 0 \in 0..MaxRetries
      BY BoundsAssumption
    <3>2. retries' \in [Sids -> 0..MaxRetries]
      <4>. DEFINE Tries == 0..MaxRetries
      <4>1. retries \in [Sids -> Tries] /\ 0 \in Tries
        BY <1>1, <3>1 DEF Counts
      <4>. HIDE DEF Tries
      <4>2. retries' \in [Sids -> Tries]
        BY <2>1, <4>1
      <4>. QED  BY <4>2 DEF Tries
    <3>. QED  BY <1>1, <2>1, <3>2 DEF Counts
  <2>3. "connected" \in PeerStates \ {"abandoned"} /\ peers[i].st # "closed" /\ Open(i)
    BY <2>1 DEF PeerStates, Open
  <2>4. /\ Table'
        /\ \A j \in Peers : peers'[j].of = peers[j].of
        /\ \A j \in Peers : Shutting(j)
        /\ \A j \in Peers : peers[j].of = NoSid => peers'[j].st = "closed"
    BY <1>1, <2>1, <2>3, PeerGoes
  <2>. QED  BY <2>1, <2>2, <2>4, Outside
<1>8. ASSUME NEW i \in Peers, Fails(i) PROVE PInv'
  <2>1. /\ peers[i].st \in {"connecting", "connected"}
        /\ UNCHANGED <<where, asked, inbox, conns, wanted, retries, phase>>
        /\ \E st \in {"failed", "ended"}, c \in {OnFailed(i), OnClosed(i)} :
             peers' = [peers EXCEPT ![i].st = st] /\ co' = [co EXCEPT ![c].at = "due"]
    BY <1>8 DEF Fails, server, roster
  <2>2. Counts'
    BY <1>1, <2>1 DEF Counts
  <2>3. {"failed", "ended"} \subseteq PeerStates /\ peers[i].st # "closed" /\ Open(i)
    BY <2>1 DEF PeerStates, Open
  <2>. QED  BY <1>1, <2>1, <2>2, <2>3, PeerGoes, Scheduled
<1>9. ASSUME NEW i \in Peers, Stops(i) PROVE PInv'
  <2>1. /\ peers[i].st = "closing" /\ peers' = [peers EXCEPT ![i].st = "closed"]
        /\ co' = [co EXCEPT ![OnClosed(i)].at = IF @ = "idle" THEN "due" ELSE @]
        /\ UNCHANGED <<where, asked, inbox, conns, wanted, retries, phase>>
    BY <1>9 DEF Stops, server, roster
  <2>2. Counts'
    BY <1>1, <2>1 DEF Counts
  <2>3. "closed" \in PeerStates /\ peers[i].st # "closed"
    BY <2>1 DEF PeerStates
  <2>. QED  BY <1>1, <2>1, <2>2, <2>3, PeerGoes, Scheduled
<1>10. CASE Disconnect
  <2>1. /\ phase = "in" /\ phase' = "leaving" /\ co' = [co EXCEPT ![Loop] = Over]
        /\ Abandons(Loop) /\ UNCHANGED <<conns, wanted, retries>>
    BY <1>10 DEF Disconnect, roster
  <2>2. inbox' \in Seq([kind : Kinds, sid : Sids])
    BY <1>10 DEF Disconnect
  <2>3. Counts'
    BY <1>1, <1>10, <2>1, <2>2, BoundsAssumption DEF Counts, Disconnect
  <2>4. /\ co' \in [Coroutines -> [at : Places, sid : Sids \cup {NoSid}, peer : Peers \cup {NoPeer}]]
        /\ co'[Loop].at = "over" /\ \A d \in Coroutines : d # Loop => co'[d] = co[d]
    BY <1>1, <2>1, Names DEF Control, Over, Place, Places
  <2>5. Table' /\ Named' /\ (\A j \in Peers : Open(j)' => Open(j))
    BY <1>1, <2>1, <2>4, Names, AbandonsKeeps
  <2>6. LoopEnds' /\ InHand'
    BY <2>4 DEF LoopEnds, InHand, At
  <2>7. Leaving'
    <3>1. co'[Leaver] = co[Leaver] /\ co[Leaver].at = "idle"
      BY <1>1, <2>1, <2>4, Names DEF Control, Leaving, LeaverGoes, At
    <3>2. \A j \in Peers : peers[j].st # "abandoned"
      BY <1>1, <2>1 DEF Control, Leaving, FewAbandoned
    <3>3. \A j \in Peers : peers'[j].st = "abandoned" => j = co[Loop].peer
      BY <2>1, <3>2, AbandonsOne
    <3>. QED  BY <2>1, <3>1, <3>3 DEF Leaving, LeaverGoes, FewAbandoned, LeavingClosesPeers, At
  <2>. QED  BY <2>1, <2>3, <2>4, <2>5, <2>6, <2>7 DEF PInv, TypeOK, Table, Counts
<1>11. CASE Disconnected
  <2>1. /\ phase = "leaving" /\ phase' = "left" /\ conns' = [s \in Sids |-> NoPeer]
        /\ At(Leaver, "idle")
        /\ \A i \in Range(conns) \ {NoPeer} : ~Open(i)
        /\ UNCHANGED <<where, asked, inbox, wanted, retries, peers, co>>
    BY <1>11 DEF Disconnected, server, roster
  <2>2. \A i \in Peers : ~Open(i)
    <3>. SUFFICES ASSUME NEW i \in Peers, Open(i) PROVE FALSE
      OBVIOUS
    <3>1. peers[i].of \in Sids /\ conns[peers[i].of] = i
      BY <1>1 DEF Table, PeersTracked, Named, Open
    <3>2. i \in Range(conns) \ {NoPeer}
      BY <1>1, <3>1, Names DEF Range, Table
    <3>. QED  BY <2>1, <3>2
  <2>3. Table'
    BY <1>1, <2>1, <2>2 DEF Table, PeersTracked, Open
  <2>4. Leaving'
    BY <1>1, <2>1, <2>2 DEF Control, Leaving, LeaverGoes, FewAbandoned, LeavingClosesPeers, At, Open
  <2>5. LoopEnds' /\ InHand' /\ Named'
    BY <1>1, <2>1 DEF LoopEnds, InHand, At, Named
  <2>6. Counts'
    BY <1>1, <2>1 DEF Counts
  <2>. QED  BY <1>1, <2>1, <2>3, <2>4, <2>5, <2>6 DEF PInv, TypeOK, Table, Control, Counts
<1>12. CASE DisconnectClosed
  <2>1. /\ Goto(Leaver, "idle", NoSid, NoPeer) /\ "idle" \in Places
        /\ UNCHANGED <<where, asked, inbox, conns, wanted, retries, peers, phase>>
    BY <1>12, Names DEF DisconnectClosed, Done, server, roster, Places
  <2>2. Counts'
    BY <1>1, <2>1 DEF Counts
  <2>3. At(Leaver, "closing") /\ phase = "leaving"
    BY <1>1, <1>12 DEF DisconnectClosed, CloseOver, Control, Leaving, LeaverGoes, At
  <2>. QED  BY <1>1, <1>2, <2>1, <2>2, <2>3, LeaverSteps
<1>13. CASE DisconnectTimesOut
  <2>1. /\ phase = "leaving" /\ phase' = "left" /\ Abandons(Leaver)
        /\ co' = [co EXCEPT ![Leaver] = Over]
        /\ UNCHANGED <<where, asked, inbox, conns, wanted, retries>>
    BY <1>13 DEF DisconnectTimesOut, server, roster
  <2>2. Counts'
    BY <1>1, <2>1 DEF Counts
  <2>3. /\ co' \in [Coroutines -> [at : Places, sid : Sids \cup {NoSid}, peer : Peers \cup {NoPeer}]]
        /\ co'[Leaver].at = "over" /\ \A d \in Coroutines : d # Leaver => co'[d] = co[d]
    BY <1>1, <2>1, Names DEF Control, Over, Place, Places
  <2>4. Table' /\ Named'
    BY <1>1, <2>1, <2>3, Names, AbandonsKeeps
  <2>5. LoopEnds' /\ InHand'
    BY <1>1, <2>1, <2>3, Names DEF LoopEnds, InHand, At
  <2>6. Leaving'
    <3>1. \A j, k \in Peers : peers[j].st = "abandoned" /\ peers[k].st = "abandoned" => j = k
      BY <1>1, <2>1 DEF Control, Leaving, FewAbandoned
    <3>2. \A j \in Peers : peers'[j].st = "abandoned" => peers[j].st = "abandoned" \/ j = co[Leaver].peer
      BY <2>1, AbandonsOne
    <3>. QED  BY <2>1, <2>3, <3>1, <3>2 DEF Leaving, LeaverGoes, FewAbandoned, LeavingClosesPeers, At
  <2>. QED  BY <2>1, <2>2, <2>3, <2>4, <2>5, <2>6 DEF PInv, TypeOK, Table, Counts
<1>. QED  BY <1>3, <1>4, <1>5, <1>6, <1>7, <1>8, <1>9, <1>10, <1>11, <1>12, <1>13

LEMMA PeersInit == Init => PInv
<1>. SUFFICES ASSUME Init PROVE PInv
  OBVIOUS
<1>1. Counts
  BY BoundsAssumption DEF Init, Counts
<1>2. Table
  BY DEF Init, Table, Peer, PeerStates, PeersTracked, Open
<1>3. co \in [Coroutines -> [at : Places, sid : Sids \cup {NoSid}, peer : Peers \cup {NoPeer}]]
  BY DEF Init, Over, Nothing, Place, Places
<1>4. Named
  BY Names DEF Init, Named, Over, Place, Peer
<1>5. LoopEnds /\ Leaving /\ InHand
  BY Names DEF Init, LoopEnds, Leaving, LeaverGoes, FewAbandoned, LeavingClosesPeers, InHand, At, Nothing, Place, Peer
<1>. QED  BY <1>1, <1>2, <1>3, <1>4, <1>5 DEF PInv, TypeOK, Table, Counts, Init

\* The invariant, of which the others are parts: it says besides that a number
\* not in use has nothing running for it, and that the loop ends with the call.
THEOREM PeersInvariant == Spec => []PInv
<1>1. PInv /\ [Next]_vars => PInv'
  <2>. SUFFICES ASSUME PInv, [Next]_vars PROVE PInv'
    OBVIOUS
  <2>1. CASE Next
    BY <2>1, SignallingStep, TaskStep, OtherStep DEF Next
  <2>2. CASE UNCHANGED vars
    BY <2>2 DEF vars, server, roster, PInv, TypeOK, Named, InHand, LoopEnds, PeersTracked,
                Leaving, LeaverGoes, FewAbandoned, LeavingClosesPeers, At, Open
  <2>. QED  BY <2>1, <2>2
<1>. QED  BY <1>1, PeersInit, PTL DEF Spec

\* Every variable keeps its type, and the table names each participant's own
\* peer, for any number of participants, peers, retries and messages on the way.
THEOREM SubscriptionsTypeCorrect == Spec => []TypeOK
BY PeersInvariant, PTL DEF PInv

\* _peer_connections holds every open peer: no offer, watchdog, handler or leave
\* opens a second one for a participant, or loses one without closing it.
THEOREM PeersAreTracked == Spec => []PeersTracked
BY PeersInvariant, PTL DEF PInv

\* A disconnect that runs to its end leaves no peer open, and no task that is late
\* opens one; it leaves at most one half closed, that of the cancelled loop, and
\* two when the timeout cut it off.
THEOREM LeavingCloses == Spec => []LeavingClosesPeers
<1>1. PInv => LeavingClosesPeers
  BY DEF PInv, Leaving
<1>. QED  BY <1>1, PeersInvariant, PTL
=============================================================================
