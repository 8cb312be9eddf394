-------------------------- MODULE SpreedSignalling --------------------------
(***************************************************************************)
(* The signalling of a Talk call (src/src/talk_capture/spreed_client.py):  *)
(* connect_and_join with its attempts, _authenticate, _join_room,          *)
(* _signaling_loop, _reconnect, and the roster its events keep: speakers,  *)
(* their presence intervals and the audio wanted.                          *)
(*                                                                         *)
(* One task runs connect_and_join; a step is the code between two of its   *)
(* suspensions.  The signalling server (HPB) is external: it keeps a       *)
(* session for a while after its connection broke, with the events it      *)
(* missed, and lists the room's sessions to a fresh one.  Peers are left   *)
(* out: whether the handling of an entry requests an offer is open.        *)
(***************************************************************************)
EXTENDS Integers, Sequences, FiniteSets, SequencesExt

CONSTANTS
  Sids,         \* the participants' signalling sessions
  UserOf,       \* whose session each is
  MaxTries,     \* MAX_CONNECT_TRIES
  MaxEvents,    \* bound: events on their way to the handlers, while first joining
  MaxLater,     \* bound: and later, in the loop, which takes them as they came
  MaxBreaks     \* bound: connections that break

ASSUME UserAssumption == IsFiniteSet(Sids) /\ DOMAIN UserOf = Sids
ASSUME TriesAssumption == MaxTries \in Nat \ {0}
ASSUME EventsAssumption == MaxEvents \in Nat /\ MaxLater \in Nat /\ MaxBreaks \in Nat

VARIABLES
  pc,        \* where connect_and_join is
  again,     \* inside _reconnect
  tries,     \* attempts that failed
  resume,    \* _resume_id is set
  ws,        \* _ws
  pending,   \* _pending_events
  nth,       \* how many of them the loop over them has taken
  work,      \* what is left of the event in hand
  known,     \* the keys of speakers
  stay,      \* each one's presence intervals: none, the last one open or closed
  wanted,    \* _want_audio
  leaving,   \* where disconnect is
  place,     \* where each session is, at the server (external)
  past,      \* what became of it before, while the connection holds (external)
  kept,      \* the server has our session (external)
  admitted,  \* our session is in the room (external)
  inbox,     \* the events sent to it and not received (external)
  breaks     \* connections broken so far

talkRoster == <<known, stay, wanted>>
queue == <<pending, nth, work>>
callers == <<place, past>>
hpb == <<callers, kept, admitted, inbox, breaks>>
svars == <<pc, again, tries, resume, ws, queue, talkRoster, leaving, hpb>>

Pcs == {"start", "connecting", "hello", "joining", "pending", "loop", "over"}

Places == {"away", "room", "call", "audio"}     \* "audio": in the call, with audio
InCall == {"call", "audio"}

\* A session that never was there yet; one the server told the truth of; one "lost",
\* of which the server did not tell that it left the call; and that one once its
\* user is "back" in another.
Pasts == {"new", "told", "lost", "back"}
Lost(s) == past[s] \in {"lost", "back"}

\* The entries of an event by what the handlers do with them: room.join,
\* participants.update with audio, in the call without, and with inCall 0,
\* participants.join of somebody in the call with audio and without, any leave.
Kinds == {"opened", "audio", "call", "out", "joined", "joinedMute", "closed"}
Entry(k, s) == [kind |-> k, sid |-> s]
Requesting == {"opened", "audio", "joined"}

\* A client that has joined nothing, its task and disconnect where given.
TalkClient(p, l) ==
  /\ pc = p /\ leaving = l /\ again = FALSE /\ tries = 0 /\ resume = FALSE /\ ws = "none"
  /\ pending = <<>> /\ nth = 0 /\ work = <<>>
  /\ known = {} /\ stay = [s \in Sids |-> "never"] /\ wanted = {}
  /\ past = [s \in Sids |-> IF place[s] = "away" THEN "new" ELSE "told"]
  /\ kept = FALSE /\ admitted = FALSE /\ inbox = <<>> /\ breaks = 0

SignallingInit == place \in [Sids -> Places] /\ TalkClient("start", "no")

\* What the server does once the task is over is seen by nobody, and is left out.
Server ==
  IF pc' # "over" THEN UNCHANGED hpb
  ELSE /\ place' = [s \in Sids |-> "away"] /\ past' = [s \in Sids |-> "told"]
       /\ kept' = FALSE /\ admitted' = FALSE /\ inbox' = <<>> /\ UNCHANGED breaks

-----------------------------------------------------------------------------
(* connect_and_join's handlers of exceptions; in _reconnect any exception   *)
(* clears _running, and with it ends the loop and the task.                 *)

\* Mutant of Retry: failed attempts are not counted.
RetryUncounted ==
  /\ work' = <<>> /\ UNCHANGED <<again, tries>>
  /\ pc' = IF again THEN "over" ELSE "connecting"

\* ConnectionClosed or ConnectionError: the next attempt, after a delay.
Retry ==
  /\ work' = <<>> /\ UNCHANGED again
  /\ IF again
     THEN pc' = "over" /\ UNCHANGED tries
     ELSE /\ tries' = tries + 1
          /\ pc' = IF tries + 1 < MaxTries THEN "connecting" ELSE "over"

\* Anything else is fatal: a timeout of _recv among them.
Fatal == pc' = "over" /\ work' = <<>> /\ UNCHANGED <<again, tries>>

-----------------------------------------------------------------------------
(* Joining.                                                                 *)

\* The settings are fetched, or the fetch raises before the first attempt.
FetchSettings ==
  /\ pc = "start" /\ pc' \in {"connecting", "over"} /\ Server
  /\ UNCHANGED <<again, tries, resume, ws, queue, talkRoster, leaving>>

Connects ==
  /\ pc = "connecting" /\ pc' = "hello" /\ ws' = "open"
  /\ UNCHANGED <<again, tries, resume, queue, talkRoster, leaving, hpb>>

\* The session is resumed, and what it missed follows.
HelloResumed ==
  /\ pc = "hello" /\ ws = "open" /\ resume /\ kept
  /\ pc' = "joining"
  /\ UNCHANGED <<again, tries, resume, ws, queue, talkRoster, leaving, hpb>>

\* A new session: there was none to resume, or no_such_session answered it.
HelloFresh ==
  /\ pc = "hello" /\ ws = "open" /\ ~(resume /\ kept)
  /\ pc' = "joining" /\ resume' = TRUE
  /\ kept' = TRUE /\ admitted' = FALSE /\ inbox' = <<>>
  /\ UNCHANGED <<again, tries, ws, queue, talkRoster, leaving, callers, breaks>>

\* Mutant of QueueEvent: what comes while joining is dropped.
QueueNothing ==
  /\ pc = "joining" /\ ws = "open" /\ inbox # <<>>
  /\ inbox' = Tail(inbox)
  /\ UNCHANGED <<pc, again, tries, resume, ws, queue, talkRoster, leaving, callers, kept, admitted, breaks>>

\* An event or a message before the answer to the join is queued.
QueueEvent ==
  /\ pc = "joining" /\ ws = "open" /\ inbox # <<>>
  /\ pending' = Append(pending, Head(inbox)) /\ inbox' = Tail(inbox)
  /\ UNCHANGED <<pc, again, tries, resume, ws, nth, work, talkRoster, leaving, callers, kept, admitted, breaks>>

\* The answer: the first time _signaling_loop begins, with what is queued;
\* in a reconnect it goes on receiving.
RoomJoined ==
  /\ pc = "joining" /\ ws = "open" /\ admitted
  /\ again' = FALSE /\ nth' = 0
  /\ pc' = IF again THEN "loop" ELSE "pending"
  /\ UNCHANGED <<tries, resume, ws, pending, work, talkRoster, leaving, hpb>>

\* Connecting, the hello or the join fails: refused, answered with an error or
\* bye, cut off, or not answered in time.
AttemptFails ==
  /\ pc \in {"connecting", "hello", "joining"}
  /\ Retry \/ Fatal
  /\ Server
  /\ UNCHANGED <<resume, ws, pending, nth, talkRoster, leaving>>

-----------------------------------------------------------------------------
(* Events.                                                                  *)

\* The queued events are taken one after the other, then forgotten.
TakePending ==
  /\ pc = "pending" /\ work = <<>>
  /\ IF nth < Len(pending)
     THEN nth' = nth + 1 /\ work' = pending[nth + 1] /\ UNCHANGED <<pc, pending>>
     ELSE pc' = "loop" /\ nth' = 0 /\ pending' = <<>> /\ UNCHANGED work
  /\ UNCHANGED <<again, tries, resume, ws, talkRoster, leaving, hpb>>

TakeEvent ==
  /\ pc = "loop" /\ work = <<>> /\ ws = "open" /\ inbox # <<>>
  /\ work' = Head(inbox) /\ inbox' = Tail(inbox)
  /\ UNCHANGED <<pc, again, tries, resume, ws, pending, nth, talkRoster, leaving, callers, kept, admitted, breaks>>

\* _open_interval of s, with the others' intervals in st.
Open(st, s) == [st EXCEPT ![s] = "in"]

\* _close_interval.
Close(s) == IF stay[s] = "in" THEN [stay EXCEPT ![s] = "out"] ELSE stay

\* _failsafe_close_previous_sids.
Failsafe(s) ==
  [t \in Sids |-> IF t # s /\ UserOf[t] = UserOf[s] /\ stay[t] = "in" THEN "out" ELSE stay[t]]

\* Mutant of TabOpened: a speaker known already is overwritten.
TabOpenedOverwriting(s) ==
  known' = known \cup {s} /\ stay' = [stay EXCEPT ![s] = "never"] /\ UNCHANGED wanted

\* Mutant of TabOpened: opening the tab counts as being in the call.
TabOpenedPresent(s) == known' = known \cup {s} /\ stay' = Open(stay, s) /\ UNCHANGED wanted

\* room.join: a speaker is registered; opening the tab is not being in the call.
TabOpened(s) == known' = known \cup {s} /\ UNCHANGED <<stay, wanted>>


\* Mutant of Update: a session not known is not registered.
UpdateUnregistered(s) == stay' = Open(stay, s) /\ UNCHANGED known

\* participants.update of somebody in the call; a session not known yet is a
\* reconnect, and ends the stays of the user's other ones.
Update(s) ==
  /\ known' = known \cup {s}
  /\ stay' = Open(IF s \in known THEN stay ELSE Failsafe(s), s)

\* participants.join of somebody in the call.  Without audio nobody is unmarked.
JoinsCall(s, audio) ==
  /\ known' = known \cup {s} /\ stay' = Open(stay, s)
  /\ wanted' = IF audio THEN wanted \cup {s} ELSE wanted

\* Mutant of GoesAway: whoever leaves stays wanted.
GoesAwayWanted(s) == stay' = Close(s) /\ UNCHANGED <<known, wanted>>

\* A leave of the room or the call.
GoesAway(s) == stay' = Close(s) /\ wanted' = wanted \ {s} /\ UNCHANGED known

\* What the handling of an entry does to the roster.
Handle(e) ==
  LET s == e.sid IN
  CASE e.kind = "opened" -> TabOpened(s)
    [] e.kind = "audio" -> Update(s) /\ wanted' = wanted \cup {s}
    [] e.kind = "call" -> Update(s) /\ wanted' = wanted \ {s}
    [] e.kind \in {"joined", "joinedMute"} -> JoinsCall(s, e.kind = "joined")
    [] e.kind = "out" /\ s \notin known -> UNCHANGED talkRoster
    [] OTHER -> GoesAway(s)

HandleEntry ==
  /\ pc \in {"pending", "loop"} /\ work # <<>>
  /\ Handle(Head(work)) /\ work' = Tail(work)
  /\ UNCHANGED <<pc, again, tries, resume, ws, pending, nth, leaving, hpb>>

\* The request for an offer raises on a broken connection: out of the loop,
\* the rest of the event lost, and with a new attempt.
HandleRaises ==
  /\ pc \in {"pending", "loop"} /\ work # <<>> /\ ws = "broken"
  /\ Head(work).kind \in Requesting
  /\ Handle(Head(work)) /\ Retry /\ Server
  /\ UNCHANGED <<resume, ws, pending, nth, leaving>>

\* Anything else that raises in the loop, an offer or an entry it cannot read, is
\* fatal, with the entry handled in part at most.
LoopRaises ==
  /\ pc \in {"pending", "loop"} /\ Fatal /\ Server
  /\ UNCHANGED talkRoster \/ (work # <<>> /\ Handle(Head(work)))
  /\ UNCHANGED <<resume, ws, pending, nth, leaving>>

\* _recv finds the connection closed: one attempt to reconnect.
NoticeBreak ==
  /\ pc = "loop" /\ work = <<>> /\ ws = "broken"
  /\ pc' = "connecting" /\ again' = TRUE
  /\ UNCHANGED <<tries, resume, ws, queue, talkRoster, leaving, hpb>>

\* bye, or an error the loop does not ignore, ends the loop and the task.
Dismissed ==
  /\ pc = "loop" /\ work = <<>> /\ ws = "open"
  /\ pc' = "over" /\ Server
  /\ UNCHANGED <<again, tries, resume, ws, queue, talkRoster, leaving>>

-----------------------------------------------------------------------------
\* Mutant of StopTalk: intervals are left open.
StopTalkOpen ==
  /\ leaving = "no" /\ leaving' = "closing"
  /\ pc' = "over" /\ work' = <<>> /\ Server
  /\ UNCHANGED <<again, tries, resume, ws, pending, nth, talkRoster>>

\* stop cancels the task; disconnect closes what intervals are open and goes on
\* to close peers and connection.
StopTalk ==
  /\ leaving = "no" /\ leaving' = "closing"
  /\ pc' = "over" /\ work' = <<>> /\ Server
  /\ stay' = [s \in Sids |-> IF stay[s] = "in" THEN "out" ELSE stay[s]]
  /\ UNCHANGED <<again, tries, resume, ws, pending, nth, known, wanted>>

\* disconnect ends, or is cut off by the timeout before the connection is closed.
LeftTalk ==
  /\ leaving = "closing" /\ leaving' = "left" /\ ws' \in {"none", ws}
  /\ UNCHANGED <<pc, again, tries, resume, queue, talkRoster, hpb>>

-----------------------------------------------------------------------------
(* The signalling server (external).                                        *)

\* The event that says of everybody in T what kind says; none for nobody.
Told(T, kind) ==
  LET q == SetToSeq(T)
  IN IF T = {} THEN <<>> ELSE <<[i \in DOMAIN q |-> Entry(kind[q[i]], q[i])]>>

\* Everybody in the room, then everybody in the call, as a fresh session is
\* told.
Listing ==
  Told({s \in Sids : place[s] # "away"}, [s \in Sids |-> "opened"])
    \o Told({s \in Sids : place[s] \in InCall}, place)

Admit ==
  /\ pc = "joining" /\ ws = "open" /\ ~admitted
  /\ admitted' = TRUE /\ inbox' = inbox \o Listing
  /\ UNCHANGED <<pc, again, tries, resume, ws, queue, talkRoster, leaving, callers, kept, breaks>>

\* Somebody opens the tab, joins or leaves the call, mutes for good, or is gone.
\* Whoever comes on a reconnect, with a session the server resumed or a new one,
\* may be in the call at once, with no room.join before.
Moves(s) ==
  {m \in {<<"room", "opened">>} : place[s] = "away"}
  \cup {m \in {<<"audio", "audio">>, <<"call", "call">>} : m[1] # place[s]}
  \cup {m \in {<<"audio", "joined">>, <<"call", "joinedMute">>} : place[s] = "room"}
  \cup {m \in {<<"room", "out">>} : place[s] \in InCall}
  \cup {m \in {<<"away", "closed">>} : place[s] # "away"}

\* What a move of s makes of the past of t: the server told of s, unless the event
\* leaves _want_audio alone; and the user of a lost t is back when an update tells
\* of a new session of theirs.
PastAfter(s, m, t) ==
  CASE t = s /\ (past[s] = "new" \/ m[2] \notin {"opened", "joinedMute"}) -> "told"
    [] /\ t # s /\ UserOf[t] = UserOf[s] /\ past[t] = "lost"
       /\ past[s] = "new" /\ m[1] \in InCall -> "back"
    [] OTHER -> past[t]

Move(s) ==
  /\ pc # "over"
  /\ Len(inbox) + Len(pending) < IF pc = "loop" \/ breaks > 0 THEN MaxLater ELSE MaxEvents
  /\ \E m \in Moves(s) :
       /\ place' = [place EXCEPT ![s] = m[1]]
       /\ past' = [t \in Sids |-> PastAfter(s, m, t)]
       /\ inbox' = IF admitted THEN Append(inbox, <<Entry(m[2], s)>>) ELSE inbox
  /\ UNCHANGED <<pc, again, tries, resume, ws, queue, talkRoster, leaving, kept, admitted, breaks>>

\* A participant's connection is lost, and the event that they left the call is
\* dropped.  Once ours broke, where nothing is said of the roster, it is left out.
Vanishes(s) ==
  /\ pc # "over" /\ breaks = 0 /\ place[s] \in InCall
  /\ place' = [place EXCEPT ![s] = "away"] /\ past' = [past EXCEPT ![s] = "lost"]
  /\ UNCHANGED <<pc, again, tries, resume, ws, queue, talkRoster, leaving, kept, admitted, inbox, breaks>>

Breaks ==
  /\ pc # "over" /\ ws = "open" /\ breaks < MaxBreaks
  /\ ws' = "broken" /\ breaks' = breaks + 1
  /\ past' = [s \in Sids |-> "told"]
  /\ UNCHANGED <<pc, again, tries, resume, queue, talkRoster, leaving, place, kept, admitted, inbox>>

\* The session is not kept for ever without its connection.
Expire ==
  /\ pc # "over" /\ ws # "open" /\ kept
  /\ kept' = FALSE /\ admitted' = FALSE /\ inbox' = <<>>
  /\ UNCHANGED <<pc, again, tries, resume, ws, queue, talkRoster, leaving, callers, breaks>>

-----------------------------------------------------------------------------
Joining ==
  FetchSettings \/ Connects \/ HelloResumed \/ HelloFresh \/ RoomJoined \/ AttemptFails

Signalling == TakePending \/ TakeEvent \/ HandleEntry \/ HandleRaises \/ NoticeBreak

TalkRests ==
  /\ pc = "over" /\ leaving = "left"
  /\ UNCHANGED svars

SignallingNext ==
  \/ Joining \/ QueueEvent \/ Signalling \/ Dismissed \/ LoopRaises
  \/ StopTalk \/ LeftTalk
  \/ Admit \/ Breaks \/ Expire \/ \E s \in Sids : Move(s) \/ Vanishes(s)
  \/ TalkRests

SignallingSpec == SignallingInit /\ [][SignallingNext]_svars

\* asyncio resumes the task, or disconnect, and every delay and timeout ends: that
\* of an answer which never comes, too.
SignallingFairness == WF_svars(Joining \/ Signalling \/ LeftTalk)

FairSignallingSpec == SignallingSpec /\ SignallingFairness

-----------------------------------------------------------------------------
(* Properties.                                                              *)

Event == Seq([kind : Kinds, sid : Sids])

SignallingTypeOK ==
  /\ pc \in Pcs /\ again \in BOOLEAN /\ tries \in 0..MaxTries
  /\ resume \in BOOLEAN /\ ws \in {"none", "open", "broken"}
  /\ pending \in Seq(Event) /\ nth \in 0..Len(pending) /\ work \in Event
  /\ known \in SUBSET Sids /\ wanted \in SUBSET known
  /\ stay \in [Sids -> {"never", "in", "out"}]
  /\ leaving \in {"no", "closing", "left"}
  /\ place \in [Sids -> Places] /\ past \in [Sids -> Pasts]
  /\ kept \in BOOLEAN /\ admitted \in BOOLEAN
  /\ inbox \in Seq(Event) /\ breaks \in 0..MaxBreaks

CaughtUp == pc = "loop" /\ work = <<>> /\ pending = <<>> /\ inbox = <<>>

\* _want_audio is "the roster of hpb session IDs that are currently in the call
\* with audio": as long as the connection holds, and once what the server said
\* is handled, it holds them all, and besides them only sessions that were lost
\* without a word, whatever order people came and went in and whatever was
\* queued during the join.
WantedIsTrue ==
  CaughtUp /\ breaks = 0 =>
    LET audible == {s \in Sids : place[s] = "audio"}
    IN  /\ audible \subseteq wanted
        /\ wanted \subseteq audible \cup {s \in Sids : Lost(s)}

\* A presence interval is "start to end of each continuous stay": as long as the
\* connection holds, and once what the server said is handled, it is open for
\* nobody who is known to have gone, and for everybody in the call but those
\* with another session that came to the call as well, whose stay the failsafe
\* may have ended.
PresenceIsTrue ==
  CaughtUp /\ breaks = 0 =>
    \A s \in Sids :
      /\ stay[s] = "in" => place[s] \in InCall \/ Lost(s)
      /\ place[s] \in InCall =>
           \/ stay[s] = "in"
           \/ /\ stay[s] = "out"
              /\ \E t \in Sids \ {s} : UserOf[t] = UserOf[s] /\ stay[t] # "never"


\* Somebody in the call with audio is wanted before long, unless the connection
\* breaks or the capture ends.
NewcomersNoticed ==
  \A s \in Sids : place[s] = "audio" ~> s \in wanted \/ place[s] # "audio" \/ breaks > 0 \/ pc = "over"

\* An attempt to join ends in the signalling loop or in giving up: attempts are
\* counted, over the whole call.
JoinsOrGivesUp == pc \in Pcs \ {"loop", "over"} ~> pc \in {"loop", "over"}

\* "Don't overwrite an existing one, that would wipe accumulated intervals":
\* whoever was present once is on the participant list for good.
StaysAreKept == [][\A s \in Sids : stay[s] # "never" => stay'[s] # "never"]_svars

\* disconnect: no presence interval stays open past the call, wherever in an
\* event the task was cancelled.
StaysEnd == leaving # "no" => \A s \in Sids : stay[s] # "in"

\* _join_room: "Queue events received during room join for later processing":
\* none is still queued when the next one is handled.
QueuedComesFirst == [][TakeEvent => pending = <<>>]_svars

=============================================================================
