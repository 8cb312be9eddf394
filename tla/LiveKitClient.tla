--------------------------- MODULE LiveKitClient ---------------------------
(***************************************************************************)
(* The driver of a LiveKit call (src/src/talk_capture/livekit_client.py):  *)
(* joining and rejoining, the readers of the tracks, leaving.              *)
(*                                                                         *)
(* Coroutines.  The session's task runs connect_and_join; stop cancels it  *)
(* and runs disconnect; every subscribed track has a reader.  A step is    *)
(* the code between two suspensions.  The SDK and the LiveKit server are   *)
(* external: an event is handled in the step it happens in.                *)
(*                                                                         *)
(* Every identity (a device) publishes at most one microphone at a time,   *)
(* so its reader goes by its name.  Other capture services, cameras and    *)
(* screens are what the handlers ignore, and are left out; so are names.   *)
(***************************************************************************)
EXTENDS Integers, FiniteSets

CONSTANTS
  People,      \* the identities that may be in the room
  MaxRooms,    \* bound: rooms joined; the last connection holds
  MaxRefusals  \* bound: joins that fail, and polls without a token

ASSUME RoomsAssumption == MaxRooms \in Nat \ {0}
ASSUME RefusalsAssumption == MaxRefusals \in Nat

Rooms == 1..MaxRooms
NoRoom == 0                        \* Python's None in _room and _streams
Closers == {"task", "leave"}       \* who may be inside _close_room

VARIABLES
  task,       \* where connect_and_join is
  leave,      \* where disconnect is
  stopping,   \* _stopping
  gone,       \* _gone is set; _join replaces it by a fresh event
  room,       \* _room
  streams,    \* _streams: the room each identity's reader was started in
  running,    \* whose reader in _streams is not done
  unwinding,  \* readers cancelled and not done, by room and identity
  awaited,    \* the readers each _close_room waits for
  parting,    \* the room each _close_room waits to be out of
  present,    \* _present
  attempted,  \* _attempted
  captured,   \* _captured
  speakers,   \* speakers
  listed,     \* the call's entry has an address and a token (call_info.details)
  refusals,   \* joins that failed and polls without a token, so far
  rooms,      \* each Room object, as the SDK has it
  inroom,     \* who is in the LiveKit room (external)
  published   \* whose microphone is published there (external)

roster == <<present, attempted, captured, speakers>>
driving == <<task, leave, stopping, gone>>
readers == <<streams, running, unwinding>>
closing == <<awaited, parting>>
server == <<inroom, published>>
offer == <<listed, refusals>>
vars == <<driving, room, readers, closing, roster, offer, rooms, server>>

RoomStates == {"none", "connecting", "in", "leaving", "out"}
Steps == {"readers", "room"}                        \* the awaits of _close_room
TaskPcs == Steps \cup {"sleeping", "connecting", "waiting", "over"}
LeavePcs == Steps \cup {"no", "left"}

OutOf(r) == r # NoRoom => rooms[r] = "out"
Joined(r) == rooms[r] \in {"in", "leaving"}
Unmade == {r \in Rooms : rooms[r] = "none"}
Newest == CHOOSE r \in Rooms : rooms[r] = "connecting"

\* A client that has joined nothing, its task and disconnect where given.
Client(t, l) ==
  /\ task = t /\ leave = l /\ stopping = FALSE /\ gone = FALSE
  /\ room = NoRoom
  /\ streams = [i \in People |-> NoRoom] /\ running = {} /\ unwinding = {}
  /\ awaited = [c \in Closers |-> {}] /\ parting = [c \in Closers |-> NoRoom]
  /\ present = {} /\ attempted = {} /\ captured = {} /\ speakers = {}
  /\ listed = TRUE /\ refusals = 0
  /\ rooms = [r \in Rooms |-> "none"]

Init ==
  /\ Client("sleeping", "no")
  /\ inroom \in SUBSET People /\ published \in SUBSET inroom

-----------------------------------------------------------------------------
(* _close_room, run by c; its pc is the task's or disconnect's.             *)

Cancelled(who) == {<<streams[i], i>> : i \in who \cap running}

\* Mutant of TakeReaders: done readers stay where they are.
TakeReadersRunning(c) ==
  /\ awaited' = [awaited EXCEPT ![c] = Cancelled(People)]
  /\ unwinding' = unwinding \cup Cancelled(People)
  /\ streams' = [i \in People |-> IF i \in running THEN NoRoom ELSE streams[i]]
  /\ running' = {}

\* Every reader is cancelled, and _streams starts anew.
TakeReaders(c) ==
  /\ awaited' = [awaited EXCEPT ![c] = Cancelled(People)]
  /\ unwinding' = unwinding \cup Cancelled(People)
  /\ streams' = [i \in People |-> NoRoom]
  /\ running' = {}

\* Mutant of PartWith: the room is forgotten, not disconnected.
PartWithNothing(c) ==
  /\ room' = NoRoom
  /\ parting' = [parting EXCEPT ![c] = room]
  /\ UNCHANGED rooms

\* room.disconnect() of the room held, if any.
PartWith(c) ==
  /\ room' = NoRoom
  /\ parting' = [parting EXCEPT ![c] = room]
  /\ rooms' = IF room # NoRoom /\ rooms[room] = "in"
              THEN [rooms EXCEPT ![room] = "leaving"] ELSE rooms

\* Where _close_room suspends next: it waits for readers it cancelled, then
\* for the room.
StartsWithReaders == running # {}

-----------------------------------------------------------------------------
(* connect_and_join and _join.                                              *)

\* An attempt begins.  Without an address or a token it fails at once, and the
\* task is back in its sleep (an unbounded series of delays).
Attempt ==
  /\ task = "sleeping" /\ listed
  /\ TakeReaders("task")
  /\ IF StartsWithReaders
     THEN task' = "readers" /\ UNCHANGED <<room, parting, rooms>>
     ELSE task' = "room" /\ PartWith("task")
  /\ UNCHANGED <<leave, stopping, gone, roster, offer, server>>

\* The readers are done: on to the room.
ReadersDone ==
  /\ task = "readers" /\ awaited["task"] = {}
  /\ task' = "room" /\ PartWith("task")
  /\ UNCHANGED <<leave, stopping, gone, readers, awaited, roster, offer, server>>

\* Mutant of Connect: the event is not replaced.
ConnectOldEvent ==
  /\ task = "room" /\ OutOf(parting["task"])
  /\ task' = "connecting"
  /\ \E r \in Unmade :
       /\ \A s \in Unmade : r <= s
       /\ rooms' = [rooms EXCEPT ![r] = "connecting"]
  /\ UNCHANGED <<leave, stopping, gone, room, readers, closing, roster, offer, server>>

\* The old room is left: a fresh event, a new Room, room.connect().
Connect ==
  /\ task = "room" /\ OutOf(parting["task"])
  /\ task' = "connecting" /\ gone' = FALSE
  /\ \E r \in Unmade :
       /\ \A s \in Unmade : r <= s
       /\ rooms' = [rooms EXCEPT ![r] = "connecting"]
  /\ UNCHANGED <<leave, stopping, room, readers, closing, roster, offer, server>>

\* Mutant of Joins: who is there already is not looked at.
JoinsBlind ==
  /\ task = "connecting" /\ task' = "waiting"
  /\ room' = Newest /\ rooms' = [rooms EXCEPT ![Newest] = "in"]
  /\ UNCHANGED <<leave, stopping, gone, readers, closing, roster, offer, server>>

\* Connected: whoever is there is noted, and every microphone asked for.
Joins ==
  /\ task = "connecting" /\ task' = "waiting"
  /\ room' = Newest /\ rooms' = [rooms EXCEPT ![Newest] = "in"]
  /\ present' = present \cup inroom
  /\ attempted' = attempted \cup published
  /\ UNCHANGED <<leave, stopping, gone, readers, closing, captured, speakers, offer, server>>

\* Connecting raises, and its Room is dropped.
JoinFails ==
  /\ task = "connecting" /\ refusals < MaxRefusals
  /\ refusals' = refusals + 1
  /\ rooms' = [rooms EXCEPT ![Newest] = "none"]
  /\ task' = IF stopping THEN "over" ELSE "sleeping"
  /\ UNCHANGED <<leave, stopping, gone, room, readers, closing, roster, listed, server>>

\* _gone.wait() is over.
Woken ==
  /\ task = "waiting" /\ gone
  /\ task' = IF stopping THEN "over" ELSE "sleeping"
  /\ UNCHANGED <<leave, stopping, gone, room, readers, closing, roster, offer, rooms, server>>

-----------------------------------------------------------------------------
(* stop and disconnect.                                                     *)

\* The task is cancelled.  While _close_room awaits a reader, the cancellation
\* goes to the reader and `suppress(CancelledError)` ends it there: the task
\* goes on.  At any other await it is over; a room whose connect is cancelled
\* is taken to be given up by the SDK.
CancelTask ==
  /\ task' = IF task = "readers" THEN "readers" ELSE "over"
  /\ rooms' = IF task = "connecting" THEN [rooms EXCEPT ![Newest] = "out"] ELSE rooms

\* stop: cancel the task, then disconnect up to its first suspension.
Stop ==
  /\ leave = "no"
  /\ stopping' = TRUE /\ gone' = TRUE
  /\ TakeReaders("leave")
  /\ IF StartsWithReaders
     THEN leave' = "readers" /\ CancelTask /\ UNCHANGED <<room, parting>>
     ELSE /\ leave' = "room"
          /\ task' = IF task = "readers" THEN "readers" ELSE "over"
          /\ IF task = "connecting"
             THEN /\ rooms' = [rooms EXCEPT ![Newest] = "out"]
                  /\ room' = NoRoom /\ parting' = [parting EXCEPT !["leave"] = room]
             ELSE PartWith("leave")
  /\ UNCHANGED <<roster, offer, server>>

LeaveReadersDone ==
  /\ leave = "readers" /\ awaited["leave"] = {}
  /\ leave' = "room" /\ PartWith("leave")
  /\ UNCHANGED <<task, stopping, gone, readers, awaited, roster, offer, server>>

\* room.disconnect() returned, raised, or wait_for's time is up.
Left ==
  /\ leave = "room" /\ leave' = "left"
  /\ UNCHANGED <<task, stopping, gone, room, readers, closing, roster, offer, rooms, server>>

-----------------------------------------------------------------------------
(* Readers.                                                                 *)

\* Mutant of Pop: the reader is forgotten, not cancelled.
PopOnly(who) ==
  /\ streams' = [i \in People |-> IF i \in who THEN NoRoom ELSE streams[i]]
  /\ UNCHANGED <<running, unwinding>>

\* _streams.pop and cancel, of the identities in who.
Pop(who) ==
  /\ streams' = [i \in People |-> IF i \in who THEN NoRoom ELSE streams[i]]
  /\ running' = running \ who
  /\ unwinding' = unwinding \cup Cancelled(who)

\* track_subscribed of room r: a reader of its own, any other one cancelled.
Subscribed(r, i) ==
  /\ Joined(r) /\ i \in published /\ i \in attempted
  /\ unwinding' = unwinding \cup Cancelled({i})
  /\ streams' = [streams EXCEPT ![i] = r]
  /\ running' = running \cup {i}
  /\ UNCHANGED <<driving, room, closing, roster, offer, rooms, server>>

\* A frame arrives; exact zeros prove the track alive and go no further.
Frame(i) ==
  /\ i \in running /\ Joined(streams[i]) /\ i \in published
  /\ captured' = captured \cup {i}
  /\ \E silent \in BOOLEAN : speakers' = IF silent THEN speakers ELSE speakers \cup {i}
  /\ UNCHANGED <<driving, room, readers, closing, present, attempted, offer, rooms, server>>

\* A stream ends with its track or its room, or breaks; its task is done and
\* stays in _streams.
StreamEnds(i) ==
  /\ i \in running
  /\ running' = running \ {i}
  /\ UNCHANGED <<driving, room, streams, unwinding, closing, roster, offer, rooms, server>>

\* A cancelled reader has closed its stream.
ReaderDone(u) ==
  /\ u \in unwinding
  /\ unwinding' = unwinding \ {u}
  /\ awaited' = [c \in Closers |-> awaited[c] \ {u}]
  /\ UNCHANGED <<driving, room, streams, running, parting, roster, offer, rooms, server>>

-----------------------------------------------------------------------------
(* The SDK, the LiveKit server and the integration (external).              *)

Connected == \E r \in Rooms : Joined(r)

\* The SDK gives up on the connection.
Drop(r) ==
  /\ rooms[r] = "in" /\ Unmade # {}
  /\ rooms' = [rooms EXCEPT ![r] = "out"]
  /\ gone' = TRUE
  /\ UNCHANGED <<task, leave, stopping, room, readers, closing, roster, offer, server>>

\* A disconnect that was asked for takes effect; the event comes as well.
Parted(r) ==
  /\ rooms[r] = "leaving"
  /\ rooms' = [rooms EXCEPT ![r] = "out"]
  /\ gone' = TRUE
  /\ UNCHANGED <<task, leave, stopping, room, readers, closing, roster, offer, server>>

Arrive(i) ==
  /\ i \notin inroom
  /\ inroom' = inroom \cup {i}
  /\ present' = IF Connected THEN present \cup {i} ELSE present
  /\ UNCHANGED <<driving, room, readers, closing, attempted, captured, speakers, offer, rooms, published>>

Publish(i) ==
  /\ i \in inroom \ published
  /\ published' = published \cup {i}
  /\ present' = IF Connected THEN present \cup {i} ELSE present
  /\ attempted' = IF Connected THEN attempted \cup {i} ELSE attempted
  /\ UNCHANGED <<driving, room, readers, closing, captured, speakers, offer, rooms, inroom>>

\* The track goes, alone or with its owner; track_unsubscribed comes if it was
\* subscribed in the room.
Unpublish(i) ==
  /\ i \in published
  /\ published' = published \ {i}
  /\ inroom' \in {inroom, inroom \ {i}}
  /\ IF Connected THEN Pop({i}) ELSE UNCHANGED <<readers>>
  /\ UNCHANGED <<driving, room, closing, roster, offer, rooms>>

\* A poll finds the entry with, or without, an address and a token.
Relist ==
  /\ listed => refusals < MaxRefusals
  /\ listed' = ~listed
  /\ refusals' = IF listed THEN refusals + 1 ELSE refusals
  /\ UNCHANGED <<driving, room, readers, closing, roster, rooms, server>>

-----------------------------------------------------------------------------
Task == Attempt \/ ReadersDone \/ Connect \/ Joins \/ JoinFails \/ Woken

Rest ==
  /\ task = "over" /\ leave = "left"
  /\ UNCHANGED vars

Next ==
  \/ Task \/ Stop \/ LeaveReadersDone \/ Left \/ Relist
  \/ \E r \in Rooms : Drop(r) \/ Parted(r) \/ \E i \in People : Subscribed(r, i)
  \/ \E i \in People :
       Frame(i) \/ StreamEnds(i) \/ Arrive(i) \/ Publish(i) \/ Unpublish(i)
  \/ \E u \in unwinding : ReaderDone(u)
  \/ Rest

Spec == Init /\ [][Next]_vars

\* asyncio resumes whoever can go on and the delays end; the SDK ends a connect,
\* a disconnect and the cleanup of a stream one way or the other, and delivers
\* a track that was asked for; the integration lists a token again.  LiveKit
\* does not refuse for ever: MaxRefusals.
Fairness ==
  /\ WF_vars(Task) /\ WF_vars(~listed /\ Relist)
  /\ WF_vars(LeaveReadersDone \/ Left)
  /\ \A r \in Rooms, i \in People : WF_vars(ReaderDone(<<r, i>>))
  /\ \A r \in Rooms : WF_vars(Parted(r))
  /\ \A i \in People : WF_vars(streams[i] = NoRoom /\ \E r \in Rooms : Subscribed(r, i))

FairSpec == Spec /\ Fairness

-----------------------------------------------------------------------------
(* Properties.                                                              *)

TypeOK ==
  /\ task \in TaskPcs /\ leave \in LeavePcs
  /\ stopping \in BOOLEAN /\ gone \in BOOLEAN
  /\ listed \in BOOLEAN /\ refusals \in 0..MaxRefusals
  /\ room \in Rooms \cup {NoRoom}
  /\ streams \in [People -> Rooms \cup {NoRoom}]
  /\ running \in SUBSET {i \in People : streams[i] # NoRoom}
  /\ unwinding \in SUBSET (Rooms \X People)
  /\ awaited \in [Closers -> SUBSET (Rooms \X People)]
  /\ parting \in [Closers -> Rooms \cup {NoRoom}]
  /\ present \in SUBSET People /\ attempted \in SUBSET People
  /\ captured \in SUBSET People /\ speakers \in SUBSET People
  /\ rooms \in [Rooms -> RoomStates]
  /\ inroom \in SUBSET People /\ published \in SUBSET inroom

\* A reader that is kept belongs to the room the driver is in: a rejoin leaves
\* no reader of an earlier connection behind in _streams, where it would pass
\* for the track's reader of this one.
StreamsOfTheRoom ==
  task = "waiting" /\ ~gone => \A i \in People : streams[i] \in {NoRoom, room}

\* A hidden listener leaves when it says so: once disconnect is over and the
\* task has ended, whatever they interrupted, the service is in no room.
LeftMeansOut == leave = "left" /\ task = "over" => \A r \in Rooms : rooms[r] # "in"

\* _present is "everyone who was in the room" and _attempted the "microphones
\* asked for": while the driver is connected, whoever is in the room is noted
\* and whoever's microphone is published has been asked for it, those who came
\* while the driver was out of the room or joining included.
NobodyMissed ==
  task = "waiting" /\ ~gone => inroom \subseteq present /\ published \subseteq attempted

\* REJOIN_DELAYS_S "cover a LiveKit restart or a long outage": after the SDK
\* gave up, with failed attempts and polls without a token between, the driver
\* is back in the room unless the call is left.
DropIsRejoined == task = "waiting" /\ gone ~> (task = "waiting" /\ ~gone) \/ stopping

\* A microphone published in the room the driver is in gets a reader, whether
\* it was there first or comes later, in the first room or after a rejoin.
Wants(i) == i \in published /\ task = "waiting" /\ ~gone /\ streams[i] = NoRoom
TracksFollowed == \A i \in People : Wants(i) ~> ~Wants(i)

\* connect_and_join's docstring: "Join, and rejoin after the SDK gives up, until
\* cancelled."
UntilCancelled == stopping => task \notin {"connecting", "waiting"}

=============================================================================
