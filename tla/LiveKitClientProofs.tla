------------------------- MODULE LiveKitClientProofs -------------------------
(***************************************************************************)
(* Proofs about LiveKitClient: for any number of people, rooms and         *)
(* refusals, the readers it keeps are of the room it is in, nobody in that *)
(* room is missed, and it is in no room once it has left.                  *)
(***************************************************************************)
EXTENDS LiveKitClient, TLAPS

\* A Room is connecting exactly while connect_and_join connects, and only one.
Connecting ==
  /\ \A r \in Rooms : rooms[r] = "connecting" => task = "connecting"
  /\ task = "connecting" => \E r \in Rooms : rooms[r] = "connecting"
  /\ \A r, s \in Rooms : rooms[r] = "connecting" /\ rooms[s] = "connecting" => r = s

\* No room is joined between two connections: not before the task has joined,
\* nor after it heard that the connection is gone; what was heard of an earlier
\* one does not count for the next.
Between == task \in {"sleeping", "readers", "room", "connecting"} \/ (task = "waiting" /\ gone)
Outside ==
  /\ Between => \A r \in Rooms : ~Joined(r)
  /\ task = "connecting" => ~gone

\* An attempt has given up the readers, and then the room, of the last one.
Cleared ==
  /\ task \in {"readers", "room", "connecting"} => \A i \in People : streams[i] = NoRoom
  /\ task \in {"room", "connecting"} => room = NoRoom

\* While the task waits for the connection to go, it is in the room it holds,
\* and in no other.
InRoom ==
  task = "waiting" /\ ~gone =>
    /\ room \in Rooms /\ rooms[room] = "in"
    /\ \A r \in Rooms : Joined(r) => r = room

\* A task that is over is in a room only while disconnect still awaits readers,
\* which it does only after the task was cancelled for good.
Leaving ==
  /\ leave = "readers" => task = "over"
  /\ task = "over" => \A r \in Rooms : rooms[r] = "in" => r = room /\ leave = "readers"

KInv ==
  /\ TypeOK
  /\ Connecting /\ Outside /\ Cleared /\ InRoom /\ Leaving
  /\ StreamsOfTheRoom /\ LeftMeansOut /\ NobodyMissed

-----------------------------------------------------------------------------
(* The pieces of a step.                                                    *)

\* Nobody's reader is cancelled but in the room it was started in.
LEMMA CancelledTyped ==
  ASSUME TypeOK, NEW who
  PROVE  Cancelled(who) \subseteq Rooms \X People
BY DEF TypeOK, Cancelled

\* _close_room's first part, for the task or for disconnect.
LEMMA TakeTyped ==
  ASSUME TypeOK, NEW c \in Closers, TakeReaders(c)
  PROVE  /\ awaited' \in [Closers -> SUBSET (Rooms \X People)]
         /\ unwinding' \in SUBSET (Rooms \X People)
         /\ streams' \in [People -> Rooms \cup {NoRoom}]
         /\ \A i \in People : streams'[i] = NoRoom
         /\ running' = {}
<1>1. Cancelled(People) \in SUBSET (Rooms \X People)
  BY CancelledTyped
<1>. QED  BY <1>1 DEF TypeOK, TakeReaders

\* Its second part: the room held, if joined, is on its way out.
LEMMA PartTyped ==
  ASSUME TypeOK, NEW c \in Closers, PartWith(c)
  PROVE  /\ room' = NoRoom
         /\ parting' \in [Closers -> Rooms \cup {NoRoom}]
         /\ rooms' \in [Rooms -> RoomStates]
         /\ \A r \in Rooms : rooms'[r] = IF r = room /\ rooms[r] = "in" THEN "leaving" ELSE rooms[r]
BY DEF TypeOK, PartWith, RoomStates, Rooms, NoRoom

\* The Room that is connecting.
LEMMA NewestConnecting ==
  ASSUME TypeOK, Connecting, task = "connecting"
  PROVE  /\ Newest \in Rooms /\ rooms[Newest] = "connecting"
         /\ \A r \in Rooms : r # Newest => rooms[r] # "connecting"
BY DEF Connecting, Newest

-----------------------------------------------------------------------------
(* The task.                                                                *)

LEMMA AttemptKeeps == ASSUME KInv, Attempt PROVE KInv'
<1>1. /\ TypeOK /\ Connecting /\ Outside /\ Cleared /\ InRoom /\ Leaving
      /\ task = "sleeping" /\ \A r \in Rooms : ~Joined(r)
  BY DEF KInv, Attempt, Outside, Between
<1>2. /\ awaited' \in [Closers -> SUBSET (Rooms \X People)]
      /\ unwinding' \in SUBSET (Rooms \X People)
      /\ streams' \in [People -> Rooms \cup {NoRoom}]
      /\ \A i \in People : streams'[i] = NoRoom
      /\ running' = {}
  <2>. QED  BY <1>1, TakeTyped DEF Attempt, Closers
<1>3. UNCHANGED <<leave, stopping, gone, present, attempted, captured, speakers, listed, refusals,
                  inroom, published>>
  BY DEF Attempt, roster, offer, server
<1>4. /\ task' \in {"readers", "room"} /\ (task' = "room" => room' = NoRoom)
      /\ parting' \in [Closers -> Rooms \cup {NoRoom}]
      /\ rooms' = rooms /\ room' \in Rooms \cup {NoRoom}
  <2>1. CASE running # {}
    BY <1>1, <2>1 DEF Attempt, StartsWithReaders, TypeOK
  <2>2. CASE running = {}
    <3>1. PartWith("task") /\ task' = "room"
      BY <2>2 DEF Attempt, StartsWithReaders
    <3>2. rooms' = rooms
      BY <1>1, <3>1 DEF PartWith, Joined, Rooms, NoRoom, TypeOK
    <3>. QED  BY <1>1, <3>1, <3>2, PartTyped DEF Closers
  <2>. QED  BY <2>1, <2>2
<1>5. TypeOK'
  BY <1>1, <1>2, <1>3, <1>4 DEF TypeOK, TaskPcs, Steps
<1>6. Connecting' /\ Outside' /\ Cleared' /\ InRoom' /\ Leaving'
  BY <1>1, <1>2, <1>3, <1>4 DEF Connecting, Outside, Between, Cleared, InRoom, Leaving, Joined
<1>7. StreamsOfTheRoom' /\ LeftMeansOut' /\ NobodyMissed'
  BY <1>4 DEF StreamsOfTheRoom, LeftMeansOut, NobodyMissed
<1>. QED  BY <1>5, <1>6, <1>7 DEF KInv

LEMMA ReadersDoneKeeps == ASSUME KInv, ReadersDone PROVE KInv'
<1>1. /\ TypeOK /\ Connecting /\ Outside /\ Cleared /\ InRoom /\ Leaving
      /\ task = "readers" /\ task' = "room" /\ PartWith("task")
      /\ UNCHANGED <<leave, stopping, gone, streams, running, unwinding, awaited, present, attempted,
                     captured, speakers, listed, refusals, inroom, published>>
  BY DEF KInv, ReadersDone, readers, roster, offer, server
<1>2. \A r \in Rooms : ~Joined(r)
  BY <1>1 DEF Outside, Between
<1>3. rooms' = rooms /\ room' = NoRoom /\ parting' \in [Closers -> Rooms \cup {NoRoom}]
  <2>1. rooms' = rooms
    BY <1>1, <1>2 DEF PartWith, Joined, Rooms, NoRoom, TypeOK
  <2>. QED  BY <1>1, <2>1, PartTyped DEF Closers
<1>4. TypeOK'
  BY <1>1, <1>3 DEF TypeOK, TaskPcs, Steps
<1>5. Connecting' /\ Outside' /\ Cleared' /\ InRoom' /\ Leaving'
  BY <1>1, <1>2, <1>3 DEF Connecting, Outside, Between, Cleared, InRoom, Leaving, Joined
<1>6. StreamsOfTheRoom' /\ LeftMeansOut' /\ NobodyMissed'
  BY <1>1 DEF StreamsOfTheRoom, LeftMeansOut, NobodyMissed
<1>. QED  BY <1>4, <1>5, <1>6 DEF KInv

LEMMA ConnectKeeps == ASSUME KInv, Connect PROVE KInv'
<1>1. /\ TypeOK /\ Connecting /\ Outside /\ Cleared /\ InRoom /\ Leaving
      /\ task = "room" /\ task' = "connecting" /\ gone' = FALSE
      /\ UNCHANGED <<leave, stopping, room, streams, running, unwinding, awaited, parting, present,
                     attempted, captured, speakers, listed, refusals, inroom, published>>
  BY DEF KInv, Connect, readers, closing, roster, offer, server
<1>2. PICK r \in Rooms : rooms[r] = "none" /\ rooms' = [rooms EXCEPT ![r] = "connecting"]
  BY DEF Connect, Unmade
<1>3. /\ rooms' \in [Rooms -> RoomStates]
      /\ \A s \in Rooms : rooms'[s] = IF s = r THEN "connecting" ELSE rooms[s]
  BY <1>1, <1>2 DEF TypeOK, RoomStates
<1>4. TypeOK'
  BY <1>1, <1>3 DEF TypeOK, TaskPcs
<1>5. Connecting'
  BY <1>1, <1>3 DEF Connecting
<1>6. Outside' /\ Cleared' /\ InRoom' /\ Leaving'
  BY <1>1, <1>3 DEF Outside, Between, Cleared, InRoom, Leaving, Joined
<1>7. StreamsOfTheRoom' /\ LeftMeansOut' /\ NobodyMissed'
  BY <1>1 DEF StreamsOfTheRoom, LeftMeansOut, NobodyMissed
<1>. QED  BY <1>4, <1>5, <1>6, <1>7 DEF KInv

LEMMA JoinsKeeps == ASSUME KInv, Joins PROVE KInv'
<1>1. /\ TypeOK /\ Connecting /\ Outside /\ Cleared /\ InRoom /\ Leaving
      /\ task = "connecting" /\ task' = "waiting"
      /\ room' = Newest /\ rooms' = [rooms EXCEPT ![Newest] = "in"]
      /\ present' = present \cup inroom /\ attempted' = attempted \cup published
      /\ UNCHANGED <<leave, stopping, gone, streams, running, unwinding, awaited, parting,
                     captured, speakers, listed, refusals, inroom, published>>
  BY DEF KInv, Joins, readers, closing, offer, server
<1>2. /\ Newest \in Rooms /\ rooms[Newest] = "connecting"
      /\ \A r \in Rooms : r # Newest => rooms[r] # "connecting"
  BY <1>1, NewestConnecting
<1>. DEFINE new == Newest
<1>. HIDE DEF new
<1>3. /\ new \in Rooms /\ room' = new /\ rooms' \in [Rooms -> RoomStates]
      /\ \A r \in Rooms : rooms'[r] = IF r = new THEN "in" ELSE rooms[r]
  BY <1>1, <1>2 DEF TypeOK, RoomStates, new
<1>4. \A r \in Rooms : ~Joined(r)
  BY <1>1 DEF Outside, Between
<1>5. TypeOK'
  BY <1>1, <1>3 DEF TypeOK, TaskPcs
<1>6. Connecting'
  <2>1. \A r \in Rooms : rooms'[r] # "connecting"
    BY <1>2, <1>3 DEF new
  <2>. QED  BY <1>1, <2>1 DEF Connecting
<1>7. InRoom' /\ Leaving' /\ Cleared'
  BY <1>1, <1>3, <1>4 DEF InRoom, Leaving, Cleared, Joined
<1>8. Outside'
  BY <1>1 DEF Outside, Between
<1>9. StreamsOfTheRoom' /\ LeftMeansOut'
  BY <1>1 DEF StreamsOfTheRoom, LeftMeansOut, Cleared
<1>10. NobodyMissed'
  BY <1>1 DEF NobodyMissed
<1>. QED  BY <1>5, <1>6, <1>7, <1>8, <1>9, <1>10 DEF KInv

LEMMA JoinFailsKeeps == ASSUME KInv, JoinFails PROVE KInv'
<1>1. /\ TypeOK /\ Connecting /\ Outside /\ Cleared /\ InRoom /\ Leaving
      /\ task = "connecting" /\ task' \in {"over", "sleeping"}
      /\ refusals < MaxRefusals /\ refusals' = refusals + 1
      /\ rooms' = [rooms EXCEPT ![Newest] = "none"]
      /\ UNCHANGED <<leave, stopping, gone, room, streams, running, unwinding, awaited, parting, present,
                     attempted, captured, speakers, listed, inroom, published>>
  BY DEF KInv, JoinFails, readers, closing, roster, server
<1>2. /\ Newest \in Rooms /\ \A r \in Rooms : r # Newest => rooms[r] # "connecting"
  BY <1>1, NewestConnecting
<1>. DEFINE new == Newest
<1>. HIDE DEF new
<1>3. /\ new \in Rooms /\ rooms' \in [Rooms -> RoomStates]
      /\ \A r \in Rooms : rooms'[r] = IF r = new THEN "none" ELSE rooms[r]
  BY <1>1, <1>2 DEF TypeOK, RoomStates, new
<1>4. \A r \in Rooms : ~Joined(r) /\ ~Joined(r)'
  BY <1>1, <1>3 DEF Outside, Between, Joined
<1>5. TypeOK'
  BY <1>1, <1>3, RefusalsAssumption DEF TypeOK, TaskPcs
<1>6. Connecting'
  BY <1>1, <1>2, <1>3 DEF Connecting, new
<1>7. Outside' /\ Cleared' /\ InRoom' /\ Leaving'
  BY <1>1, <1>3, <1>4 DEF Outside, Between, Cleared, InRoom, Leaving, Joined
<1>8. StreamsOfTheRoom' /\ LeftMeansOut' /\ NobodyMissed'
  BY <1>1, <1>4 DEF StreamsOfTheRoom, LeftMeansOut, NobodyMissed, Joined
<1>. QED  BY <1>5, <1>6, <1>7, <1>8 DEF KInv

LEMMA WokenKeeps == ASSUME KInv, Woken PROVE KInv'
<1>1. /\ TypeOK /\ Connecting /\ Outside /\ Cleared /\ InRoom /\ Leaving
      /\ task = "waiting" /\ gone /\ task' \in {"over", "sleeping"}
      /\ UNCHANGED <<leave, stopping, gone, room, streams, running, unwinding, awaited, parting, present,
                     attempted, captured, speakers, listed, refusals, rooms, inroom, published>>
  BY DEF KInv, Woken, readers, closing, roster, offer, server
<1>2. \A r \in Rooms : ~Joined(r)
  BY <1>1 DEF Outside, Between
<1>3. TypeOK'
  BY <1>1 DEF TypeOK, TaskPcs
<1>4. Connecting' /\ Outside' /\ Cleared' /\ InRoom' /\ Leaving'
  BY <1>1, <1>2 DEF Connecting, Outside, Between, Cleared, InRoom, Leaving, Joined
<1>5. StreamsOfTheRoom' /\ LeftMeansOut' /\ NobodyMissed'
  BY <1>1, <1>2 DEF StreamsOfTheRoom, LeftMeansOut, NobodyMissed, Joined
<1>. QED  BY <1>3, <1>4, <1>5 DEF KInv

-----------------------------------------------------------------------------
(* stop and disconnect.                                                     *)

\* A task cancelled while it connects leaves its Room out; any other task that
\* does not await readers just ends.
LEMMA StopKeeps == ASSUME KInv, Stop PROVE KInv'
<1>1. /\ TypeOK /\ Connecting /\ Outside /\ Cleared /\ InRoom /\ Leaving
      /\ leave = "no" /\ stopping' = TRUE /\ gone' = TRUE /\ TakeReaders("leave")
      /\ UNCHANGED <<present, attempted, captured, speakers, listed, refusals, inroom, published>>
  BY DEF KInv, Stop, roster, offer, server
<1>2. /\ awaited' \in [Closers -> SUBSET (Rooms \X People)]
      /\ unwinding' \in SUBSET (Rooms \X People)
      /\ streams' \in [People -> Rooms \cup {NoRoom}]
      /\ \A i \in People : streams'[i] = NoRoom
      /\ running' = {}
  BY <1>1, TakeTyped DEF Closers
<1>3. /\ task' \in {"readers", "over"} /\ (task' = "readers" => task = "readers")
      /\ leave' \in {"readers", "room"}
      /\ leave' = "readers" => running # {}
  BY DEF Stop, CancelTask, StartsWithReaders
<1>4. task = "readers" => running = {}
  BY <1>1 DEF Cleared, TypeOK
<1>5. /\ rooms' \in [Rooms -> RoomStates]
      /\ room' \in Rooms \cup {NoRoom} /\ parting' \in [Closers -> Rooms \cup {NoRoom}]
      /\ \A r \in Rooms : rooms'[r] # "connecting"
      /\ \A r \in Rooms : rooms'[r] \in {"in", "leaving"} => Joined(r)
      /\ \A r \in Rooms : rooms'[r] = "in" => r = room' /\ leave' = "readers"
  <2>1. \A r \in Rooms : rooms[r] = "in" => r = room
    <3>1. CASE task = "waiting" /\ ~gone
      BY <1>1, <3>1 DEF InRoom, Joined
    <3>2. CASE task = "over"
      BY <1>1, <3>2 DEF Leaving
    <3>3. CASE Between
      BY <1>1, <3>3 DEF Outside, Joined
    <3>. QED  BY <1>1, <3>1, <3>2, <3>3 DEF Between, TypeOK, TaskPcs, Steps
  <2>2. CASE task = "connecting"
    <3>. DEFINE new == Newest
    <3>1. /\ new \in Rooms /\ \A r \in Rooms : r # new => rooms[r] # "connecting"
      BY <1>1, <2>2, NewestConnecting
    <3>2. /\ rooms' = [rooms EXCEPT ![new] = "out"]
          /\ room' \in Rooms \cup {NoRoom} /\ parting' \in [Closers -> Rooms \cup {NoRoom}]
      BY <1>1, <2>2 DEF Stop, CancelTask, TypeOK
    <3>. HIDE DEF new
    <3>3. /\ rooms' \in [Rooms -> RoomStates]
          /\ \A r \in Rooms : rooms'[r] = IF r = new THEN "out" ELSE rooms[r]
      BY <1>1, <3>1, <3>2 DEF TypeOK, RoomStates
    <3>4. \A r \in Rooms : ~Joined(r)
      BY <1>1, <2>2 DEF Outside, Between
    <3>. QED  BY <3>1, <3>2, <3>3, <3>4 DEF Joined
  <2>3. CASE task # "connecting" /\ running # {}
    <3>1. UNCHANGED <<rooms, room, parting>> /\ leave' = "readers"
      BY <2>3 DEF Stop, CancelTask, StartsWithReaders
    <3>. QED  BY <1>1, <2>1, <2>3, <3>1 DEF TypeOK, Joined, Connecting
  <2>4. CASE task # "connecting" /\ running = {}
    <3>1. PartWith("leave")
      BY <2>4 DEF Stop, StartsWithReaders
    <3>2. /\ room' = NoRoom
          /\ parting' \in [Closers -> Rooms \cup {NoRoom}]
          /\ rooms' \in [Rooms -> RoomStates]
          /\ \A r \in Rooms : rooms'[r] = IF r = room /\ rooms[r] = "in" THEN "leaving" ELSE rooms[r]
      BY <1>1, <3>1, PartTyped DEF Closers
    <3>. QED  BY <1>1, <2>1, <2>4, <3>2 DEF Joined, Connecting
  <2>. QED  BY <2>2, <2>3, <2>4
<1>6. TypeOK'
  BY <1>1, <1>2, <1>3, <1>5 DEF TypeOK, TaskPcs, LeavePcs, Steps
<1>7. Outside'
  BY <1>1, <1>3, <1>5 DEF Outside, Between, Joined
<1>8. Connecting' /\ Cleared' /\ InRoom' /\ Leaving'
  BY <1>2, <1>3, <1>4, <1>5 DEF Connecting, Cleared, InRoom, Leaving
<1>9. StreamsOfTheRoom' /\ LeftMeansOut' /\ NobodyMissed'
  BY <1>3 DEF StreamsOfTheRoom, LeftMeansOut, NobodyMissed
<1>. QED  BY <1>6, <1>7, <1>8, <1>9 DEF KInv

LEMMA LeaveKeeps == ASSUME KInv, LeaveReadersDone \/ Left PROVE KInv'
<1>1. /\ TypeOK /\ Connecting /\ Outside /\ Cleared /\ InRoom /\ Leaving
      /\ UNCHANGED <<task, stopping, gone, streams, running, unwinding, awaited, present, attempted,
                     captured, speakers, listed, refusals, inroom, published>>
      /\ StreamsOfTheRoom /\ LeftMeansOut /\ NobodyMissed
  BY DEF KInv, LeaveReadersDone, Left, readers, closing, roster, offer, server
<1>2. CASE LeaveReadersDone
  <2>1. leave = "readers" /\ leave' = "room" /\ PartWith("leave") /\ task = "over"
    BY <1>1, <1>2 DEF LeaveReadersDone, Leaving
  <2>2. /\ room' = NoRoom
        /\ parting' \in [Closers -> Rooms \cup {NoRoom}]
        /\ rooms' \in [Rooms -> RoomStates]
        /\ \A r \in Rooms : rooms'[r] = IF r = room /\ rooms[r] = "in" THEN "leaving" ELSE rooms[r]
    BY <1>1, <2>1, PartTyped DEF Closers
  <2>3. \A r \in Rooms : rooms'[r] # "in"
    BY <1>1, <2>1, <2>2 DEF Leaving
  <2>4. TypeOK'
    BY <1>1, <2>1, <2>2 DEF TypeOK, LeavePcs, Steps
  <2>5. Connecting' /\ Outside' /\ Cleared' /\ InRoom' /\ Leaving'
    BY <1>1, <2>1, <2>2, <2>3 DEF Connecting, Outside, Between, Cleared, InRoom, Leaving
  <2>6. StreamsOfTheRoom' /\ LeftMeansOut' /\ NobodyMissed'
    BY <1>1, <2>1 DEF StreamsOfTheRoom, LeftMeansOut, NobodyMissed
  <2>. QED  BY <2>4, <2>5, <2>6 DEF KInv
<1>3. CASE Left
  <2>1. leave = "room" /\ leave' = "left" /\ UNCHANGED <<room, parting, rooms>>
    BY <1>3 DEF Left, closing
  <2>2. TypeOK'
    BY <1>1, <2>1 DEF TypeOK, LeavePcs
  <2>3. Connecting' /\ Outside' /\ Cleared' /\ InRoom' /\ Leaving'
    BY <1>1, <2>1 DEF Connecting, Outside, Between, Cleared, InRoom, Leaving, Joined
  <2>4. StreamsOfTheRoom' /\ NobodyMissed'
    BY <1>1, <2>1 DEF StreamsOfTheRoom, NobodyMissed
  <2>5. LeftMeansOut'
    BY <1>1, <2>1 DEF LeftMeansOut, Leaving
  <2>. QED  BY <2>2, <2>3, <2>4, <2>5 DEF KInv
<1>. QED  BY <1>2, <1>3

-----------------------------------------------------------------------------
(* Readers, and what the SDK, the room and the integration do.              *)

\* A reader that a step starts is of a room the client is in.
ReadersOnlyJoin ==
  \A i \in People :
    streams'[i] \notin {NoRoom, streams[i]} => streams'[i] \in Rooms /\ Joined(streams'[i])

\* Steps that move neither task nor rooms: what they do to readers and roster
\* is for StreamsOfTheRoom and NobodyMissed.
LEMMA StillKeeps ==
  ASSUME KInv, TypeOK', UNCHANGED <<task, leave, gone, room, rooms>>,
         ReadersOnlyJoin, NobodyMissed'
  PROVE  KInv'
<1>1. /\ Connecting /\ Outside /\ Cleared /\ InRoom /\ Leaving
      /\ StreamsOfTheRoom /\ LeftMeansOut /\ NobodyMissed
  BY DEF KInv
<1>2. Cleared'
  <2>1. ASSUME task \in {"readers", "room", "connecting"}, NEW i \in People PROVE streams'[i] = NoRoom
    BY <1>1, <2>1 DEF Cleared, Outside, Between, ReadersOnlyJoin, Joined
  <2>. QED  BY <1>1, <2>1 DEF Cleared
<1>3. Connecting' /\ Outside' /\ InRoom' /\ Leaving' /\ LeftMeansOut'
  BY <1>1 DEF Connecting, Outside, Between, InRoom, Leaving, LeftMeansOut, Joined
<1>4. StreamsOfTheRoom'
  BY <1>1 DEF StreamsOfTheRoom, InRoom, ReadersOnlyJoin
<1>. QED  BY <1>2, <1>3, <1>4 DEF KInv

LEMMA ReadersKeep ==
  ASSUME KInv,
         \/ \E r \in Rooms, i \in People : Subscribed(r, i)
         \/ \E i \in People : Frame(i) \/ StreamEnds(i)
         \/ \E u \in unwinding : ReaderDone(u)
         \/ Relist
  PROVE  KInv'
<1>1. TypeOK /\ NobodyMissed
  BY DEF KInv
<1>2. ASSUME NEW r \in Rooms, NEW i \in People, Subscribed(r, i) PROVE KInv'
  <2>1. Cancelled({i}) \in SUBSET (Rooms \X People)
    BY <1>1, CancelledTyped
  <2>2. /\ Joined(r) /\ unwinding' = unwinding \cup Cancelled({i})
        /\ streams' = [streams EXCEPT ![i] = r] /\ running' = running \cup {i}
        /\ UNCHANGED <<task, leave, stopping, gone, room, awaited, parting, present, attempted,
                       captured, speakers, listed, refusals, rooms, inroom, published>>
    BY <1>2 DEF Subscribed, driving, closing, roster, offer, server
  <2>3. r # NoRoom
    BY DEF Rooms, NoRoom
  <2>4. TypeOK'
    BY <1>1, <2>1, <2>2, <2>3 DEF TypeOK
  <2>5. NobodyMissed'
    BY <1>1, <2>2 DEF NobodyMissed
  <2>6. ReadersOnlyJoin
    BY <1>1, <2>2 DEF TypeOK, ReadersOnlyJoin
  <2>. QED  BY <2>2, <2>4, <2>5, <2>6, StillKeeps
<1>3. ASSUME NEW i \in People, Frame(i) PROVE KInv'
  <2>1. /\ captured' = captured \cup {i} /\ speakers' \in {speakers, speakers \cup {i}}
        /\ UNCHANGED <<task, leave, stopping, gone, room, streams, running, unwinding, awaited, parting,
                       present, attempted, listed, refusals, rooms, inroom, published>>
    BY <1>3 DEF Frame, driving, readers, closing, offer, server
  <2>2. TypeOK' /\ NobodyMissed'
    BY <1>1, <2>1 DEF TypeOK, NobodyMissed
  <2>. QED  BY <2>1, <2>2, StillKeeps DEF ReadersOnlyJoin
<1>4. ASSUME NEW i \in People, StreamEnds(i) PROVE KInv'
  <2>1. /\ running' = running \ {i}
        /\ UNCHANGED <<task, leave, stopping, gone, room, streams, unwinding, awaited, parting,
                       present, attempted, captured, speakers, listed, refusals, rooms, inroom, published>>
    BY <1>4 DEF StreamEnds, driving, closing, roster, offer, server
  <2>2. TypeOK' /\ NobodyMissed'
    BY <1>1, <2>1 DEF TypeOK, NobodyMissed
  <2>. QED  BY <2>1, <2>2, StillKeeps DEF ReadersOnlyJoin
<1>5. ASSUME NEW u \in unwinding, ReaderDone(u) PROVE KInv'
  <2>1. /\ unwinding' = unwinding \ {u} /\ awaited' = [c \in Closers |-> awaited[c] \ {u}]
        /\ UNCHANGED <<task, leave, stopping, gone, room, streams, running, parting,
                       present, attempted, captured, speakers, listed, refusals, rooms, inroom, published>>
    BY <1>5 DEF ReaderDone, driving, roster, offer, server
  <2>2. TypeOK' /\ NobodyMissed'
    BY <1>1, <2>1 DEF TypeOK, NobodyMissed
  <2>. QED  BY <2>1, <2>2, StillKeeps DEF ReadersOnlyJoin
<1>6. CASE Relist
  <2>1. /\ listed' \in BOOLEAN /\ refusals' \in 0..MaxRefusals
        /\ UNCHANGED <<task, leave, stopping, gone, room, streams, running, unwinding, awaited, parting,
                       present, attempted, captured, speakers, rooms, inroom, published>>
    BY <1>1, <1>6, RefusalsAssumption DEF Relist, TypeOK, driving, readers, closing, roster, server
  <2>2. TypeOK' /\ NobodyMissed'
    BY <1>1, <2>1 DEF TypeOK, NobodyMissed
  <2>. QED  BY <2>1, <2>2, StillKeeps DEF ReadersOnlyJoin
<1>. QED  BY <1>2, <1>3, <1>4, <1>5, <1>6

LEMMA PeopleKeep ==
  ASSUME KInv, NEW i \in People, Arrive(i) \/ Publish(i) \/ Unpublish(i)
  PROVE  KInv'
<1>1. TypeOK /\ NobodyMissed /\ (task = "waiting" /\ ~gone => Connected)
  BY DEF KInv, InRoom, Connected, Joined
<1>2. UNCHANGED <<task, leave, stopping, gone, room, awaited, parting, captured, speakers, listed,
                  refusals, rooms>>
  BY DEF Arrive, Publish, Unpublish, driving, closing, roster, offer
<1>3. CASE Arrive(i)
  <2>1. /\ inroom' = inroom \cup {i} /\ UNCHANGED <<published, attempted, streams, running, unwinding>>
        /\ present' \in {present, present \cup {i}} /\ (Connected => present' = present \cup {i})
    BY <1>3 DEF Arrive, readers
  <2>2. TypeOK' /\ NobodyMissed'
    BY <1>1, <1>2, <2>1 DEF TypeOK, NobodyMissed
  <2>. QED  BY <1>2, <2>1, <2>2, StillKeeps DEF ReadersOnlyJoin
<1>4. CASE Publish(i)
  <2>1. /\ i \in inroom /\ published' = published \cup {i}
        /\ UNCHANGED <<inroom, streams, running, unwinding>>
        /\ present' \in {present, present \cup {i}} /\ (Connected => present' = present \cup {i})
        /\ attempted' \in {attempted, attempted \cup {i}} /\ (Connected => attempted' = attempted \cup {i})
    BY <1>4 DEF Publish, readers
  <2>2. TypeOK' /\ NobodyMissed'
    BY <1>1, <1>2, <2>1 DEF TypeOK, NobodyMissed
  <2>. QED  BY <1>2, <2>1, <2>2, StillKeeps DEF ReadersOnlyJoin
<1>5. CASE Unpublish(i)
  <2>1. /\ published' = published \ {i} /\ inroom' \in {inroom, inroom \ {i}}
        /\ UNCHANGED <<present, attempted>>
        /\ Pop({i}) \/ UNCHANGED <<streams, running, unwinding>>
    BY <1>5 DEF Unpublish, readers, roster
  <2>2. /\ streams' \in [People -> Rooms \cup {NoRoom}]
        /\ \A j \in People : streams'[j] \in {NoRoom, streams[j]}
        /\ running' \in SUBSET {j \in People : streams'[j] # NoRoom}
        /\ unwinding' \in SUBSET (Rooms \X People)
    <3>1. CASE Pop({i})
      <4>1. Cancelled({i}) \in SUBSET (Rooms \X People)
        BY <1>1, CancelledTyped
      <4>. QED  BY <1>1, <3>1, <4>1 DEF Pop, TypeOK
    <3>2. CASE UNCHANGED <<streams, running, unwinding>>
      BY <1>1, <3>2 DEF TypeOK
    <3>. QED  BY <2>1, <3>1, <3>2
  <2>3. TypeOK'
    BY <1>1, <1>2, <2>1, <2>2 DEF TypeOK
  <2>4. NobodyMissed'
    BY <1>1, <1>2, <2>1 DEF NobodyMissed, TypeOK
  <2>. QED  BY <1>2, <2>2, <2>3, <2>4, StillKeeps DEF ReadersOnlyJoin
<1>. QED  BY <1>3, <1>4, <1>5

\* The connection goes, as it was asked to or not.
LEMMA GoneKeeps == ASSUME KInv, NEW r \in Rooms, Drop(r) \/ Parted(r) PROVE KInv'
<1>1. /\ TypeOK /\ Connecting /\ Outside /\ Cleared /\ InRoom /\ Leaving
      /\ LeftMeansOut
      /\ Joined(r) /\ rooms' = [rooms EXCEPT ![r] = "out"] /\ gone' = TRUE
      /\ UNCHANGED <<task, leave, stopping, room, streams, running, unwinding, awaited, parting, present,
                     attempted, captured, speakers, listed, refusals, inroom, published>>
  BY DEF KInv, Drop, Parted, Joined, readers, closing, roster, offer, server
<1>2. /\ rooms' \in [Rooms -> RoomStates]
      /\ \A s \in Rooms : rooms'[s] = IF s = r THEN "out" ELSE rooms[s]
  BY <1>1 DEF TypeOK, RoomStates
<1>3. task \notin {"sleeping", "readers", "room", "connecting"} /\ ~(task = "waiting" /\ gone)
  BY <1>1 DEF Outside, Between
<1>4. TypeOK'
  BY <1>1, <1>2 DEF TypeOK
<1>5. Connecting' /\ Outside' /\ Cleared' /\ InRoom' /\ Leaving'
  BY <1>1, <1>2, <1>3 DEF Connecting, Outside, Between, Cleared, InRoom, Leaving, Joined
<1>6. StreamsOfTheRoom' /\ LeftMeansOut' /\ NobodyMissed'
  BY <1>1, <1>2 DEF StreamsOfTheRoom, LeftMeansOut, NobodyMissed
<1>. QED  BY <1>4, <1>5, <1>6 DEF KInv

\* A client that has joined nothing, at its beginning or never made.
LEMMA ClientStarts ==
  ASSUME NEW t, NEW l, (t = "sleeping" /\ l = "no") \/ (t = "over" /\ l = "left"), Client(t, l),
         inroom \in SUBSET People, published \in SUBSET inroom
  PROVE  KInv
<1>1. TypeOK
  <2>1. /\ task \in TaskPcs /\ leave \in LeavePcs /\ stopping \in BOOLEAN /\ gone \in BOOLEAN
        /\ listed \in BOOLEAN /\ room \in Rooms \cup {NoRoom}
    BY DEF Client, TaskPcs, LeavePcs
  <2>2. refusals \in 0..MaxRefusals
    BY RefusalsAssumption DEF Client
  <2>3. /\ streams \in [People -> Rooms \cup {NoRoom}]
        /\ awaited \in [Closers -> SUBSET (Rooms \X People)]
        /\ parting \in [Closers -> Rooms \cup {NoRoom}]
    BY DEF Client
  <2>4. rooms \in [Rooms -> RoomStates]
    BY DEF Client, RoomStates
  <2>5. /\ running \in SUBSET {i \in People : streams[i] # NoRoom}
        /\ unwinding \in SUBSET (Rooms \X People)
    BY DEF Client
  <2>6. /\ present \in SUBSET People /\ attempted \in SUBSET People
        /\ captured \in SUBSET People /\ speakers \in SUBSET People
        /\ inroom \in SUBSET People /\ published \in SUBSET inroom
    BY DEF Client
  <2>. QED  BY <2>1, <2>2, <2>3, <2>4, <2>5, <2>6 DEF TypeOK
<1>2. Connecting /\ Outside /\ Cleared /\ InRoom /\ Leaving
  BY DEF Client, Connecting, Outside, Cleared, InRoom, Leaving, Joined
<1>3. StreamsOfTheRoom /\ LeftMeansOut /\ NobodyMissed
  BY DEF Client, StreamsOfTheRoom, LeftMeansOut, NobodyMissed
<1>. QED  BY <1>1, <1>2, <1>3 DEF KInv

LEMMA ClientStep ==
  ASSUME KInv, [Next]_vars PROVE KInv'
<1>1. CASE Task
  BY <1>1, AttemptKeeps, ReadersDoneKeeps, ConnectKeeps, JoinsKeeps, JoinFailsKeeps, WokenKeeps DEF Task
<1>2. CASE Stop \/ LeaveReadersDone \/ Left
  BY <1>2, StopKeeps, LeaveKeeps
<1>3. CASE \/ \E r \in Rooms, i \in People : Subscribed(r, i)
           \/ \E i \in People : Frame(i) \/ StreamEnds(i)
           \/ \E u \in unwinding : ReaderDone(u)
           \/ Relist
  BY <1>3, ReadersKeep
<1>4. CASE \E i \in People : Arrive(i) \/ Publish(i) \/ Unpublish(i)
  BY <1>4, PeopleKeep
<1>5. CASE \E r \in Rooms : Drop(r) \/ Parted(r)
  BY <1>5, GoneKeeps
<1>6. CASE UNCHANGED vars
  <2>1. UNCHANGED <<task, leave, stopping, gone, room, streams, running, unwinding, awaited, parting,
                    present, attempted, captured, speakers, listed, refusals, rooms, inroom, published>>
    BY <1>6 DEF vars, driving, readers, closing, roster, offer, server
  <2>2. TypeOK' /\ NobodyMissed'
    BY <2>1 DEF KInv, TypeOK, NobodyMissed
  <2>. QED  BY <2>1, <2>2, StillKeeps DEF ReadersOnlyJoin
<1>. QED  BY <1>1, <1>2, <1>3, <1>4, <1>5, <1>6 DEF Next, Rest

-----------------------------------------------------------------------------
(* The theorems.                                                            *)

\* How task, disconnect and rooms go together, for any number of people, rooms
\* and refusals.
THEOREM ClientInvariant == Spec => []KInv
<1>1. Init => KInv
  BY ClientStarts DEF Init
<1>2. KInv /\ [Next]_vars => KInv'
  BY ClientStep
<1>. QED  BY <1>1, <1>2, PTL DEF Spec

\* Every variable keeps its type; a reader that runs is in _streams.
THEOREM ClientTypeCorrect == Spec => []TypeOK
BY ClientInvariant, PTL DEF KInv

\* After any number of rejoins _streams holds no reader of an earlier connection.
THEOREM StreamsFollowTheRoom == Spec => []StreamsOfTheRoom
BY ClientInvariant, PTL DEF KInv

\* Once disconnect and connect_and_join are over, the client is in no room, also
\* when the task outlived its cancellation and joined once more.
THEOREM LeftIsOut == Spec => []LeftMeansOut
BY ClientInvariant, PTL DEF KInv

\* While the client is in a room, everyone there is in _present and every
\* microphone published there has been asked for.
THEOREM NobodyIsMissed == Spec => []NobodyMissed
BY ClientInvariant, PTL DEF KInv
=============================================================================
