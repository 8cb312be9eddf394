--------------------------- MODULE CaptureService ---------------------------
(***************************************************************************)
(* The capture service of one installation: AppCallMonitor's polls of the  *)
(* app (src/src/talk_capture/app_monitor.py), the start and end callbacks  *)
(* they schedule, the sessions those open and stop, the settings refresh   *)
(* and the shutdown (src/src/main.py, CaptureService).                     *)
(*                                                                         *)
(* A session's own work is CallSession; here a session is joined, then     *)
(* leaving, until its hand-over is over.  The asyncio ready queue is first *)
(* in, first out, and a callback runs without suspending up to its first   *)
(* await.                                                                  *)
(*                                                                         *)
(* A CallInfo is an object that the monitor and a session may or may not   *)
(* share, so CallInfos are numbered, and a session is named by the         *)
(* CallInfo it was created from.  A number whose CallInfo nothing refers   *)
(* to any more is used again.                                              *)
(***************************************************************************)
EXTENDS Integers, Sequences, FiniteSets, SequencesExt, Functions

CONSTANTS
  Rooms,       \* room tokens
  Excluded,    \* EXCLUDED_ROOMS
  Pinned,      \* INCLUDED_ROOMS, empty when not set
  AllowLists,  \* the room allowlists the administrator may set in the app
  MaxCalls,    \* bound: calls the app ever sees
  MaxInfos     \* bound: CallInfos in use at once

ASSUME RoomsAssumption == IsFiniteSet(Rooms) /\ Excluded \subseteq Rooms /\ Pinned \subseteq Rooms
ASSUME AllowListsAssumption == AllowLists \subseteq SUBSET Rooms /\ AllowLists # {}
ASSUME BoundsAssumption == MaxCalls \in Nat /\ MaxInfos \in Nat

Calls == 1..MaxCalls
Infos == 1..MaxInfos
NoCall == 0
NoInfo == 0

VARIABLES
  app,       \* the app: each room's call, by session_id, and its recording flag
  issued,    \* how many session_ids the app has issued
  appRooms,  \* the app's room allowlist
  answer,    \* the poll under way: not asked, asked, or the answer to it
  active,    \* _active_calls: each room's CallInfo
  infos,     \* the CallInfos, and how far the session of each is
  ready,     \* the callbacks scheduled and not yet run
  sessions,  \* _sessions: each room's session
  scope,     \* config.included_rooms
  service    \* "running", "stopping" once a signal came, "exited"

world == <<app, issued, appRooms>>
monitor == <<answer, active, ready>>
cvars == <<world, monitor, infos, sessions, scope, service>>

\* What a poll is answered with: the listing of the rooms' calls, or a body
\* whose "calls" is not a list.
Listing == [Rooms -> [call : Calls \cup {NoCall}, rec : BOOLEAN]]
NoCalls == [r \in Rooms |-> [call |-> NoCall, rec |-> TRUE]]
Poll(kind, list) == [kind |-> kind, list |-> list]
NoPoll == Poll("none", NoCalls)
Asked == Poll("asked", NoCalls)
Broken == Poll("broken", NoCalls)

\* A CallInfo's session_id and recording flag, and its session's life.
Info(call, rec, life) == [session |-> call, rec |-> rec, life |-> life]
Blank == Info(NoCall, TRUE, "new")
Joined(i) == infos[i].life = "joined"

Task(kind, info, room) == [kind |-> kind, info |-> info, room |-> room]

Nowhere == [r \in Rooms |-> NoInfo]
NoInfos == [i \in Infos |-> Blank]

\* overlay_app_settings, of the room list: an empty one changes nothing.
Overlay(rooms, included) == IF rooms = {} THEN included ELSE rooms

ServiceInit ==
  /\ app = NoCalls /\ issued = 0 /\ appRooms \in AllowLists
  /\ answer = NoPoll /\ active = Nowhere /\ ready = <<>>
  /\ infos = NoInfos /\ sessions = Nowhere
  /\ scope = Overlay(appRooms, Pinned)
  /\ service = "running"

-----------------------------------------------------------------------------
(* The app (external).                                                      *)

\* A call starts in a room, listed with a session_id of its own; /no-record
\* may hold from its first moment.
CallStarts(r) ==
  /\ app[r].call = NoCall /\ issued < MaxCalls
  /\ issued' = issued + 1
  /\ \E rec \in BOOLEAN : app' = [app EXCEPT ![r] = [call |-> issued + 1, rec |-> rec]]
  /\ UNCHANGED <<appRooms, monitor, infos, sessions, scope, service>>

CallEnds(r) ==
  /\ app[r].call # NoCall
  /\ app' = [app EXCEPT ![r] = NoCalls[r]]
  /\ UNCHANGED <<issued, appRooms, monitor, infos, sessions, scope, service>>

\* /no-record or /record in the room's chat.
OptOut(r) ==
  /\ app[r].call # NoCall
  /\ app' = [app EXCEPT ![r].rec = ~@]
  /\ UNCHANGED <<issued, appRooms, monitor, infos, sessions, scope, service>>

\* The administrator edits the allowlist.
EditRooms ==
  /\ appRooms' \in AllowLists \ {appRooms}
  /\ UNCHANGED <<app, issued, monitor, infos, sessions, scope, service>>

-----------------------------------------------------------------------------
(* The monitor.                                                             *)

\* The next poll goes out, at least poll_interval after the last: what that one
\* scheduled has run.
PollAsked ==
  /\ service = "running" /\ answer = NoPoll /\ ready = <<>>
  /\ answer' = Asked
  /\ UNCHANGED <<world, active, ready, infos, sessions, scope, service>>

\* The app answers with the calls as they are now, or with no list of calls, or
\* the poll fails.  An answer is not seen before it has travelled.
PollAnswered ==
  /\ answer = Asked
  /\ answer' \in {Poll("list", app), Broken, NoPoll}
  /\ UNCHANGED <<world, active, ready, infos, sessions, scope, service>>

InScope(r) == (scope = {} \/ r \in scope) /\ r \notin Excluded

\* Mutants: a known call is not refreshed; an empty listing ends nothing.
RefreshedNot(info, said) == info
EndedUnlessEmpty(current) == {r \in Rooms \ current : current # {} /\ active[r] # NoInfo}

\* _process on a call it knows: the recording flag follows the listing.
Refreshed(info, said) == [info EXCEPT !.rec = said.rec]

\* The rooms _process knew a call of and that are not current any more.
Ended(current) == {r \in Rooms \ current : active[r] # NoInfo}

\* _process of the answer's first `count` entries, the oldest calls' ones, and
\* of the calls that are over if `through`.  fetch_calls turns a broken body into
\* no calls.  It refreshes the calls it knows, creates the new ones in the order
\* listed and schedules their start; then it drops those no longer listed and
\* schedules their end, in the order a set yields them.
ProcessEntries(count, through) ==
  /\ LET list == answer.list
         Older(r) == {s \in Rooms : list[s].call \in 1..list[r].call - 1}
         current == {r \in Rooms : list[r].call # NoCall /\ InScope(r)
                                     /\ Cardinality(Older(r)) < count}
         known == {r \in current : active[r] # NoInfo}
         new == current \ known
         ended == IF through THEN Ended(current) ELSE {}
         free == {i \in Infos : infos[i] = Blank}
         \* the CallInfos are created in the order listed
         Created(name) == \A r \in new, i \in free : i < name[r] =>
           \E s \in new : name[s] = i /\ list[s].call < list[r].call
         RoomOf(i) == CHOOSE r \in Rooms : active'[r] = i
     IN \E name \in Injection(new, free), starts \in SetToSeqs(new), ends \in SetToSeqs(ended) :
          /\ Created(name)
          /\ \A k, l \in DOMAIN starts : k < l => list[starts[k]].call < list[starts[l]].call
          /\ active' = [r \in Rooms |->
               IF r \in new THEN name[r] ELSE IF r \in ended THEN NoInfo ELSE active[r]]
          /\ infos' = [i \in Infos |->
               IF i \in Range(name) THEN Info(list[RoomOf(i)].call, list[RoomOf(i)].rec, "new")
               ELSE IF \E r \in known : active[r] = i
                    THEN Refreshed(infos[i], list[RoomOf(i)])
               ELSE IF infos[i].life = "new" /\ i \notin Range(active') THEN Blank
               ELSE infos[i]]
          /\ ready' = ready \o [k \in DOMAIN starts |-> Task("start", name[starts[k]], starts[k])]
                            \o [k \in DOMAIN ends |-> Task("end", NoInfo, ends[k])]
  /\ answer' = NoPoll
  /\ UNCHANGED <<world, sessions, scope, service>>

Process == answer.kind \in {"list", "broken"} /\ ProcessEntries(Cardinality(Rooms), TRUE)

\* An entry is malformed and raises: those before it are done, the ones after it
\* and the calls that are over wait for the next poll.
ProcessRaises ==
  /\ answer.kind = "list"
  /\ \E count \in 0..Cardinality(Rooms) : ProcessEntries(count, FALSE)

\* _heartbeat: tell the app, and overlay its settings, until stopped.
Heartbeat ==
  /\ service = "running"
  /\ scope' = Overlay(appRooms, scope)
  /\ UNCHANGED <<world, monitor, infos, sessions, service>>

-----------------------------------------------------------------------------
(* The callbacks and the sessions.                                          *)

\* _on_call_started: one session per room, unless no driver takes the call.
OnCallStarted ==
  /\ ready # <<>> /\ Head(ready).kind = "start"
  /\ LET t == Head(ready) IN
       \/ /\ sessions[t.room] = NoInfo
          /\ sessions' = [sessions EXCEPT ![t.room] = t.info]
          /\ infos' = [infos EXCEPT ![t.info].life = "joined"]
       \/ UNCHANGED <<sessions, infos>>      \* the room has one, or CannotJoin
  /\ ready' = Tail(ready)
  /\ UNCHANGED <<world, answer, active, scope, service>>

\* Mutants of OnCallEnded: the session is dropped but not stopped; whatever the
\* table had is stopped, None included.
OnCallEndedDropping ==
  /\ ready # <<>> /\ Head(ready).kind = "end"
  /\ sessions' = [sessions EXCEPT ![Head(ready).room] = NoInfo]
  /\ ready' = Tail(ready)
  /\ UNCHANGED <<world, answer, active, infos, scope, service>>
OnCallEndedBlind ==
  /\ ready # <<>> /\ Head(ready).kind = "end"
  /\ LET i == sessions[Head(ready).room] IN
       infos' = [j \in Infos \cup {i} |->
         IF j = i THEN Info(NoCall, TRUE, "leaving") ELSE infos[j]]
  /\ sessions' = [sessions EXCEPT ![Head(ready).room] = NoInfo]
  /\ ready' = Tail(ready)
  /\ UNCHANGED <<world, answer, active, scope, service>>

\* _on_call_ended up to its await: the room's session is popped and stopped,
\* for the second time if shutdown stopped it already.
OnCallEnded ==
  /\ ready # <<>> /\ Head(ready).kind = "end"
  /\ LET room == Head(ready).room IN
       /\ sessions' = [sessions EXCEPT ![room] = NoInfo]
       /\ infos' = [i \in Infos |->
            IF i = sessions[room] THEN [infos[i] EXCEPT !.life = "leaving"] ELSE infos[i]]
  /\ ready' = Tail(ready)
  /\ UNCHANGED <<world, answer, active, scope, service>>

\* CallSession.stop is over: the call is left, its hand-over has ended.  A
\* session that shutdown stopped is still in the table.
Settled(i) ==
  /\ infos[i].life = "leaving"
  /\ infos' = [infos EXCEPT ![i] = IF i \in Range(sessions) THEN [@ EXCEPT !.life = "over"]
                                                            ELSE Blank]
  /\ UNCHANGED <<world, monitor, sessions, scope, service>>

-----------------------------------------------------------------------------
(* Shutdown and restart.                                                    *)

\* A signal runs shutdown: the monitor is told to stop and every session in the
\* table is stopped.
Shutdown ==
  /\ service = "running" /\ service' = "stopping"
  /\ infos' = [i \in Infos |->
       IF i \in Range(sessions) THEN [infos[i] EXCEPT !.life = "leaving"] ELSE infos[i]]
  /\ UNCHANGED <<world, monitor, sessions, scope>>

\* The process is gone, and all it held with it.
Gone ==
  /\ service' = "exited"
  /\ answer' = NoPoll /\ active' = Nowhere /\ ready' = <<>>
  /\ infos' = NoInfos /\ sessions' = Nowhere /\ scope' = Pinned
  /\ UNCHANGED world

\* The monitor's loop is over, run and _main return, and asyncio.run cancels
\* every task there is.
Exit ==
  /\ service = "stopping" /\ answer = NoPoll
  /\ Gone

Crash == service # "exited" /\ Gone

\* A new process loads the app's settings before it watches for calls.
Restart ==
  /\ service = "exited" /\ service' = "running"
  /\ scope' = Overlay(appRooms, Pinned)
  /\ UNCHANGED <<world, monitor, infos, sessions>>

App == EditRooms \/ \E r \in Rooms : CallStarts(r) \/ CallEnds(r) \/ OptOut(r)

Service ==
  \/ PollAsked \/ PollAnswered \/ Process \/ ProcessRaises \/ Heartbeat
  \/ OnCallStarted \/ OnCallEnded \/ \E i \in Infos : Settled(i)

ServiceNext == App \/ Service \/ Shutdown \/ Exit \/ Crash \/ Restart

ServiceSpec == ServiceInit /\ [][ServiceNext]_cvars

\* Polls and heartbeats go on, the app answers with a well-formed listing again
\* and again, what asyncio has scheduled runs, hand-overs end (CallSession's HandOverEnds).
ServiceFairness ==
  /\ WF_cvars(Heartbeat)
  /\ WF_cvars(PollAsked) /\ SF_cvars(PollAnswered /\ answer'.kind = "list")
  /\ SF_cvars(Process) /\ WF_cvars(OnCallStarted) /\ WF_cvars(OnCallEnded)
  /\ WF_cvars(Exit) /\ \A i \in Infos : WF_cvars(Settled(i))

FairServiceSpec == ServiceSpec /\ ServiceFairness

-----------------------------------------------------------------------------
(* Properties.                                                              *)

\* Every variable and every field keeps its type; the tables name CallInfos.
ServiceTypeOK ==
  /\ app \in Listing /\ issued \in 0..MaxCalls /\ appRooms \in AllowLists
  /\ answer \in [kind : {"none", "asked", "list", "broken"}, list : Listing]
  /\ active \in [Rooms -> Infos \cup {NoInfo}] /\ sessions \in [Rooms -> Infos \cup {NoInfo}]
  /\ infos \in [Infos -> [session : Calls \cup {NoCall}, rec : BOOLEAN,
                          life : {"new", "joined", "leaving", "over"}]]
  /\ ready \in Seq([kind : {"start", "end"}, info : Infos \cup {NoInfo}, room : Rooms])
  /\ scope \in SUBSET Rooms
  /\ service \in {"running", "stopping", "exited"}

\* A session in a call is one the service can still stop; and once the
\* callbacks have run it holds the very CallInfo the monitor refreshes, so that
\* no session is stranded in an ended call and none misses an opt-out.
SessionsTracked ==
  /\ \A i \in Infos : Joined(i) => i \in Range(sessions)
  /\ service = "running" /\ ready = <<>> =>
       \A r \in Rooms : sessions[r] # NoInfo => sessions[r] = active[r]

\* The opt-out: what a well-formed poll says of a room's recording is what the room's
\* session does from then on ("flips within one poll of the room's command").
OptOutFollowsPoll ==
  [][Process => \A r \in Rooms :
       LET said == answer.list[r] IN
         sessions[r] # NoInfo /\ said.call # NoCall /\ InScope(r)
           => infos'[sessions[r]].rec = said.rec]_cvars

\* A room whose call is over, or that is taken off the allowlist the service
\* knows, is let go of, unless it is in a call again.
EndedCallIsLetGo ==
  \A r \in Rooms :
    sessions[r] # NoInfo /\ (app[r].call = NoCall \/ ~InScope(r))
      ~> sessions[r] = NoInfo \/ (app[r].call # NoCall /\ InScope(r))

\* shutdown's comment: live calls are closed properly, so that no dropped
\* stream leaves the gateway holding a meeting.
ShutdownClosesCalls ==
  [][Exit => \A i \in Infos : infos[i].life \notin {"joined", "leaving"}]_cvars

\* CallInfo.session_id is the meeting id of the call the app lists, carried to
\* the gateway.
MeetingOfTheCall ==
  [][Process => \A r \in Rooms :
       LET said == answer.list[r] IN
         sessions[r] # NoInfo /\ active'[r] = sessions[r] /\ said.call # NoCall
           => infos'[sessions[r]].session = said.call]_cvars

=============================================================================
