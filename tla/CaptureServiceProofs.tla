------------------------- MODULE CaptureServiceProofs -------------------------
(***************************************************************************)
(* Proofs about CaptureService: whatever polls, callbacks, hand-overs,     *)
(* signals and restarts come in between, every session in a call is one    *)
(* the service can stop, it holds the CallInfo the monitor refreshes, and  *)
(* so follows what each poll says of its recording.                        *)
(***************************************************************************)
EXTENDS CaptureService, FiniteSetTheorems, SequenceTheorems, TLAPS

InfoType == [session : Calls \cup {NoCall}, rec : BOOLEAN,
             life : {"new", "joined", "leaving", "over"}]
TaskType == [kind : {"start", "end"}, info : Infos \cup {NoInfo}, room : Rooms]

\* A poll goes out, and its answer is processed, when no callback waits.
Quiet == answer # NoPoll => ready = <<>>

\* A poll schedules at most one callback for a room.
OneTask == \A j, k \in DOMAIN ready : ready[j].room = ready[k].room => j = k

\* A start finds no session in the room, and its CallInfo still active; an end
\* finds the room no longer active.
Expected ==
  \A k \in DOMAIN ready :
    /\ ready[k].kind = "start" =>
         /\ ready[k].info # NoInfo /\ active[ready[k].room] = ready[k].info
         /\ sessions[ready[k].room] = NoInfo
    /\ ready[k].kind = "end" => active[ready[k].room] = NoInfo

\* The room's session has the CallInfo of the room's call, unless its end waits.
Ending(r) == \E k \in DOMAIN ready : ready[k].kind = "end" /\ ready[k].room = r
InStep == \A r \in Rooms : sessions[r] # NoInfo => sessions[r] = active[r] \/ Ending(r)

\* No two rooms share a CallInfo.
Apart ==
  \A r, s \in Rooms : r # s =>
    /\ active[r] # NoInfo => active[r] # active[s] /\ active[r] # sessions[s]
    /\ sessions[r] # NoInfo => sessions[r] # sessions[s]

\* What the tables name is in use, and a session has begun.
InUse ==
  \A r \in Rooms :
    /\ active[r] # NoInfo => infos[active[r]].session # NoCall
    /\ sessions[r] # NoInfo =>
         infos[sessions[r]].session # NoCall /\ infos[sessions[r]].life # "new"

\* A session that has begun is in the table while it is in a call, and while the
\* monitor still knows its call.
Held ==
  \A i \in Infos :
    /\ Joined(i) => \E r \in Rooms : sessions[r] = i
    /\ infos[i].life # "new" /\ (\E r \in Rooms : active[r] = i)
         => \E r \in Rooms : sessions[r] = i

CInv ==
  /\ ServiceTypeOK
  /\ Quiet /\ OneTask /\ Expected /\ InStep
  /\ Apart /\ InUse /\ Held

-----------------------------------------------------------------------------
(* The ready queue.                                                         *)

\* What is known of the head, and of the tasks behind it.
LEMMA Queue ==
  ASSUME CInv, ready # <<>>, ready' = Tail(ready)
  PROVE  /\ Head(ready) = ready[1] /\ 1 \in DOMAIN ready /\ Head(ready) \in TaskType
         /\ ready' \in Seq(TaskType)
         /\ \A k \in DOMAIN ready' : k + 1 \in DOMAIN ready /\ ready'[k] = ready[k + 1]
         /\ \A k \in DOMAIN ready : k # 1 => k - 1 \in DOMAIN ready' /\ ready'[k - 1] = ready[k]
<1>1. ready \in Seq(TaskType)
  BY DEF CInv, ServiceTypeOK, TaskType
<1>2. Len(ready) \in Nat /\ Len(ready) > 0 /\ DOMAIN ready = 1..Len(ready)
  BY <1>1
<1>. HIDE DEF TaskType
<1>3. Head(ready) = ready[1] /\ 1 \in DOMAIN ready /\ Head(ready) \in TaskType
  BY <1>1, <1>2
<1>4. /\ ready' \in Seq(TaskType) /\ Len(ready') = Len(ready) - 1
      /\ \A k \in 1..Len(ready') : ready'[k] = ready[k + 1]
  BY <1>1, <1>2
<1>5. DOMAIN ready' = 1..Len(ready')
  BY <1>4
<1>. QED  BY <1>2, <1>3, <1>4, <1>5

\* The tasks behind the head are of other rooms.
LEMMA Behind ==
  ASSUME CInv, ready # <<>>, ready' = Tail(ready)
  PROVE  /\ \A k \in DOMAIN ready' : ready'[k].room # Head(ready).room
         /\ OneTask'
         /\ answer = NoPoll
<1>1. CInv /\ OneTask /\ Quiet
  BY DEF CInv
<1>2. ASSUME NEW k \in DOMAIN ready' PROVE ready'[k].room # Head(ready).room
  <2>1. k + 1 \in DOMAIN ready /\ ready'[k] = ready[k + 1] /\ 1 \in DOMAIN ready /\ Head(ready) = ready[1]
    BY <1>1, Queue
  <2>2. k \in Nat \ {0}
    BY <1>1, Queue, LenProperties
  <2>. QED  BY <1>1, <2>1, <2>2 DEF OneTask
<1>3. OneTask'
  <2>. SUFFICES ASSUME NEW j \in DOMAIN ready', NEW k \in DOMAIN ready', ready'[j].room = ready'[k].room
                PROVE  j = k
    BY DEF OneTask
  <2>1. /\ j + 1 \in DOMAIN ready /\ ready'[j] = ready[j + 1]
        /\ k + 1 \in DOMAIN ready /\ ready'[k] = ready[k + 1]
    BY <1>1, Queue
  <2>2. j \in Nat /\ k \in Nat
    BY <1>1, Queue, LenProperties
  <2>. QED  BY <1>1, <2>1, <2>2 DEF OneTask
<1>. QED  BY <1>1, <1>2, <1>3 DEF Quiet

LEMMA FunctionIsSeq ==
  ASSUME NEW S, NEW n \in Nat, NEW f \in [1..n -> S]
  PROVE  f \in Seq(S) /\ Len(f) = n
OBVIOUS

\* A listing of a set, as SetToSeqs makes it: each element, once.
LEMMA Listed ==
  ASSUME NEW S, IsFiniteSet(S), NEW f \in SetToSeqs(S)
  PROVE  /\ f \in Seq(S) /\ DOMAIN f = 1..Len(f) /\ Len(f) \in Nat
         /\ \A j, k \in DOMAIN f : f[j] = f[k] => j = k
         /\ \A x \in S : \E k \in DOMAIN f : f[k] = x
<1>1. Cardinality(S) \in Nat
  BY FS_CardinalityType
<1>. DEFINE D == 1..Cardinality(S)
<1>2. f \in [D -> S] /\ \A j, k \in D : j # k => f[j] # f[k]
  BY DEF SetToSeqs
<1>3. f \in Seq(S) /\ DOMAIN f = 1..Len(f) /\ Len(f) \in Nat
  BY <1>1, <1>2
<1>4. f \in Injection(D, S)
  BY <1>2 DEF Injection, IsInjective
<1>5. IsFiniteSet(D) /\ Cardinality(D) = Cardinality(S)
  BY <1>1, FS_Interval
<1>6. f \in Surjection(D, S)
  BY <1>4, <1>5, FS_Injection
<1>7. \A x \in S : \E k \in D : f[k] = x
  BY <1>6 DEF Surjection
<1>. QED  BY <1>2, <1>3, <1>7

-----------------------------------------------------------------------------
(* The answer to a poll is processed.                                       *)

\* What ProcessEntries does, in terms of the rooms whose call is new, those it
\* knows, and those whose call is over; room r is told apart by its CallInfo.
Diff(new, known, ended, name) ==
  /\ new \subseteq Rooms /\ known \subseteq Rooms /\ ended \subseteq Rooms
  /\ \A r \in new : active[r] = NoInfo /\ r \notin ended /\ answer.list[r].call # NoCall
  /\ \A r \in known : active[r] # NoInfo /\ r \notin ended
  /\ name \in [new -> {i \in Infos : infos[i] = Blank}]
  /\ \A r, s \in new : name[r] = name[s] => r = s
  /\ active' = [r \in Rooms |->
       IF r \in new THEN name[r] ELSE IF r \in ended THEN NoInfo ELSE active[r]]
  /\ \A i \in Infos :
       LET room == CHOOSE r \in Rooms : active'[r] = i IN
         infos'[i] =
           IF \E r \in new : name[r] = i
           THEN Info(answer.list[room].call, answer.list[room].rec, "new")
           ELSE IF \E r \in known : active[r] = i THEN Refreshed(infos[i], answer.list[room])
           ELSE IF infos[i].life = "new" /\ ~\E r \in Rooms : active'[r] = i THEN Blank
           ELSE infos[i]
  /\ infos' \in [Infos -> InfoType]

\* And what it schedules: a start for each new room, an end for each room ended.
Plan(new, ended, name) ==
  /\ ready' \in Seq(TaskType) /\ OneTask'
  /\ \A k \in DOMAIN ready' :
       /\ ready'[k].kind = "start" => ready'[k].room \in new /\ ready'[k].info = name[ready'[k].room]
       /\ ready'[k].kind = "end" => ready'[k].room \in ended
  /\ \A r \in ended : Ending(r)'

\* No callback waits, so that sessions and active calls agree.
LEMMA Agreed ==
  ASSUME CInv, answer # NoPoll
  PROVE  /\ ready = <<>>
         /\ \A r \in Rooms : sessions[r] # NoInfo => sessions[r] = active[r]
<1>1. ready = <<>>
  BY DEF CInv, Quiet
<1>2. DOMAIN ready = {}
  BY <1>1
<1>. QED  BY <1>1, <1>2 DEF CInv, InStep, Ending

\* The room of a CallInfo in use is the only one.
LEMMA RoomOfInfo ==
  ASSUME CInv, NEW new, NEW known, NEW ended, NEW name, Diff(new, known, ended, name)
  PROVE  /\ active' \in [Rooms -> Infos \cup {NoInfo}]
         /\ \A r, s \in Rooms : r # s /\ active'[r] # NoInfo => active'[r] # active'[s]
         /\ \A r \in Rooms : active'[r] # NoInfo => (CHOOSE s \in Rooms : active'[s] = active'[r]) = r
         /\ \A r \in Rooms : active'[r] # NoInfo /\ r \notin new => active'[r] = active[r]
         /\ \A r \in new, s \in Rooms : name[r] # active[s] /\ name[r] # sessions[s] /\ name[r] # NoInfo
<1>1. active \in [Rooms -> Infos \cup {NoInfo}] /\ infos \in [Infos -> InfoType] /\ Apart /\ InUse
  BY DEF CInv, ServiceTypeOK, InfoType
<1>2. active' \in [Rooms -> Infos \cup {NoInfo}]
  BY <1>1 DEF Diff
<1>3. \A r \in new : name[r] \in Infos /\ infos[name[r]] = Blank /\ name[r] # NoInfo
  BY DEF Diff, Infos, NoInfo
<1>4. \A r \in new, s \in Rooms : name[r] # active[s] /\ name[r] # sessions[s] /\ name[r] # NoInfo
  <2>. SUFFICES ASSUME NEW r \in new, NEW s \in Rooms
                PROVE  name[r] # active[s] /\ name[r] # sessions[s]
    BY <1>3
  <2>1. infos[name[r]].session = NoCall
    BY <1>3 DEF Blank, Info
  <2>. QED  BY <1>1, <1>3, <2>1 DEF InUse
<1>5. \A r \in Rooms : active'[r] # NoInfo /\ r \notin new => active'[r] = active[r]
  BY DEF Diff
<1>6. \A r, s \in Rooms : r # s /\ active'[r] # NoInfo => active'[r] # active'[s]
  <2>. SUFFICES ASSUME NEW r \in Rooms, NEW s \in Rooms, r # s, active'[r] # NoInfo, active'[r] = active'[s]
                PROVE  FALSE
    OBVIOUS
  <2>1. CASE r \in new /\ s \in new
    BY <2>1 DEF Diff
  <2>2. CASE r \in new /\ s \notin new
    BY <1>4, <1>5, <2>2 DEF Diff
  <2>3. CASE r \notin new /\ s \in new
    BY <1>4, <1>5, <2>3 DEF Diff
  <2>4. CASE r \notin new /\ s \notin new
    BY <1>1, <1>5, <2>4 DEF Apart
  <2>. QED  BY <2>1, <2>2, <2>3, <2>4
<1>. QED  BY <1>2, <1>4, <1>5, <1>6

\* The invariant is kept.
LEMMA DiffKeeps ==
  ASSUME CInv, answer # NoPoll, answer' = NoPoll, UNCHANGED <<world, sessions, scope, service>>,
         NEW new, NEW known, NEW ended, NEW name,
         Diff(new, known, ended, name), Plan(new, ended, name)
  PROVE  CInv'
<1>1. /\ active \in [Rooms -> Infos \cup {NoInfo}] /\ sessions \in [Rooms -> Infos \cup {NoInfo}]
      /\ infos \in [Infos -> InfoType] /\ Apart /\ InUse /\ Held
  BY DEF CInv, ServiceTypeOK, InfoType
<1>2. \A r \in Rooms : sessions[r] # NoInfo => sessions[r] = active[r]
  BY Agreed
<1>3. /\ active' \in [Rooms -> Infos \cup {NoInfo}]
      /\ \A r, s \in Rooms : r # s /\ active'[r] # NoInfo => active'[r] # active'[s]
      /\ \A r \in Rooms : active'[r] # NoInfo => (CHOOSE s \in Rooms : active'[s] = active'[r]) = r
      /\ \A r \in Rooms : active'[r] # NoInfo /\ r \notin new => active'[r] = active[r]
      /\ \A r \in new, s \in Rooms : name[r] # active[s] /\ name[r] # sessions[s] /\ name[r] # NoInfo
  BY RoomOfInfo
<1>4. ServiceTypeOK'
  BY <1>3 DEF CInv, ServiceTypeOK, Diff, Plan, InfoType, TaskType, NoPoll, Poll, NoCalls, Listing, world, NoCall, Calls
<1>5. OneTask' /\ Quiet'
  BY DEF Plan, Quiet
<1>6. Expected'
  <2>. SUFFICES ASSUME NEW k \in DOMAIN ready'
                PROVE  /\ ready'[k].kind = "start" =>
                            /\ ready'[k].info # NoInfo /\ active'[ready'[k].room] = ready'[k].info
                            /\ sessions'[ready'[k].room] = NoInfo
                       /\ ready'[k].kind = "end" => active'[ready'[k].room] = NoInfo
    BY DEF Expected
  <2>1. CASE ready'[k].kind = "start"
    <3>1. ready'[k].room \in new /\ ready'[k].info = name[ready'[k].room]
      BY <2>1 DEF Plan
    <3>. QED  BY <1>2, <1>3, <2>1, <3>1 DEF Diff
  <2>2. CASE ready'[k].kind = "end"
    <3>1. ready'[k].room \in ended
      BY <2>2 DEF Plan
    <3>. QED  BY <2>2, <3>1 DEF Diff
  <2>. QED  BY <2>1, <2>2
<1>7. InStep'
  <2>. SUFFICES ASSUME NEW r \in Rooms, sessions[r] # NoInfo
                PROVE  sessions[r] = active'[r] \/ Ending(r)'
    BY DEF InStep
  <2>1. r \notin new /\ sessions[r] = active[r]
    BY <1>2 DEF Diff
  <2>2. CASE r \in ended
    BY <2>2 DEF Plan
  <2>3. CASE r \notin ended
    BY <2>1, <2>3 DEF Diff
  <2>. QED  BY <2>2, <2>3
<1>8. Apart'
  <2>. SUFFICES ASSUME NEW r \in Rooms, NEW s \in Rooms, r # s
                PROVE  /\ active'[r] # NoInfo => active'[r] # active'[s] /\ active'[r] # sessions[s]
                       /\ sessions[r] # NoInfo => sessions[r] # sessions[s]
    BY DEF Apart
  <2>1. active'[r] # NoInfo => active'[r] # sessions[s]
    <3>1. CASE r \in new
      BY <1>3, <3>1 DEF Diff
    <3>2. CASE r \notin new
      BY <1>1, <1>3, <3>2 DEF Apart
    <3>. QED  BY <3>1, <3>2
  <2>. QED  BY <1>1, <1>3, <2>1 DEF Apart
<1>9. /\ \A i \in Infos : (\E r \in Rooms : sessions[r] = i) =>
           infos'[i].session = infos[i].session /\ infos'[i].life = infos[i].life
      /\ \A i \in Infos : infos'[i].life # "new" => infos[i].life = infos'[i].life /\ ~\E r \in new : name[r] = i
      /\ \A r \in Rooms : active'[r] # NoInfo /\ r \notin new =>
           infos'[active[r]].session = infos[active[r]].session
  <2>1. ASSUME NEW i \in Infos, ~\E r \in new : name[r] = i
        PROVE  \/ \E said : infos'[i] = Refreshed(infos[i], said)
               \/ infos[i].life = "new" /\ infos'[i] = Blank /\ ~\E r \in Rooms : active'[r] = i
               \/ infos'[i] = infos[i]
    BY <2>1 DEF Diff
  <2>2. ASSUME NEW i \in Infos, NEW said
        PROVE  Refreshed(infos[i], said).session = infos[i].session /\ Refreshed(infos[i], said).life = infos[i].life
    BY <1>1 DEF Refreshed, InfoType
  <2>3. ASSUME NEW i \in Infos, \E r \in new : name[r] = i PROVE infos'[i].life = "new"
    BY <2>3 DEF Diff, Info
  <2>4. Blank.life = "new"
    BY DEF Blank, Info
  <2>5. ASSUME NEW i \in Infos, NEW r \in Rooms, sessions[r] = i
        PROVE  infos'[i].session = infos[i].session /\ infos'[i].life = infos[i].life
    <3>1. infos[i].life # "new" /\ ~\E s \in new : name[s] = i
      BY <1>1, <1>3, <2>5 DEF InUse, Infos, NoInfo
    <3>. QED  BY <2>1, <2>2, <3>1
  <2>6. ASSUME NEW i \in Infos, infos'[i].life # "new"
        PROVE  infos[i].life = infos'[i].life /\ ~\E r \in new : name[r] = i
    <3>1. ~\E r \in new : name[r] = i
      BY <2>3, <2>6
    <3>. QED  BY <2>1, <2>2, <2>4, <2>6, <3>1
  <2>7. ASSUME NEW r \in Rooms, active'[r] # NoInfo, r \notin new
        PROVE  infos'[active[r]].session = infos[active[r]].session
    <3>1. active'[r] = active[r] /\ active[r] \in Infos /\ ~\E s \in new : name[s] = active[r]
      BY <1>1, <1>3, <2>7
    <3>. QED  BY <2>1, <2>2, <3>1
  <2>. QED  BY <2>5, <2>6, <2>7
<1>10. InUse'
  <2>. SUFFICES ASSUME NEW r \in Rooms
                PROVE  /\ active'[r] # NoInfo => infos'[active'[r]].session # NoCall
                       /\ sessions[r] # NoInfo =>
                            infos'[sessions[r]].session # NoCall /\ infos'[sessions[r]].life # "new"
    BY DEF InUse
  <2>1. CASE r \in new
    <3>1. active'[r] = name[r] /\ name[r] \in Infos /\ (CHOOSE s \in Rooms : active'[s] = name[r]) = r
      BY <1>3, <2>1 DEF Diff
    <3>2. infos'[name[r]].session = answer.list[r].call
      <4>. DEFINE i == name[r]
                  room == CHOOSE s \in Rooms : active'[s] = i
      <4>1. i \in Infos /\ (\E s \in new : name[s] = i) /\ room = r
        BY <2>1, <3>1
      <4>2. infos'[i] = Info(answer.list[room].call, answer.list[room].rec, "new")
        BY <4>1 DEF Diff
      <4>. HIDE DEF room
      <4>. QED  BY <4>1, <4>2 DEF Info
    <3>3. sessions[r] = NoInfo
      BY <1>2, <2>1 DEF Diff
    <3>. QED  BY <2>1, <3>1, <3>2, <3>3 DEF Diff
  <2>2. CASE r \notin new
    <3>1. active'[r] # NoInfo => infos'[active'[r]].session # NoCall
      BY <1>1, <1>3, <1>9, <2>2 DEF InUse
    <3>2. sessions[r] # NoInfo => sessions[r] \in Infos
      BY <1>1
    <3>. QED  BY <1>1, <1>9, <3>1, <3>2 DEF InUse
  <2>. QED  BY <2>1, <2>2
<1>11. Held'
  <2>. SUFFICES ASSUME NEW i \in Infos
                PROVE  /\ infos'[i].life = "joined" => \E r \in Rooms : sessions[r] = i
                       /\ infos'[i].life # "new" /\ (\E r \in Rooms : active'[r] = i)
                            => \E r \in Rooms : sessions[r] = i
    BY DEF Held, Joined
  <2>1. infos'[i].life = "joined" => \E r \in Rooms : sessions[r] = i
    BY <1>1, <1>9 DEF Held, Joined
  <2>2. ASSUME NEW r \in Rooms, active'[r] = i, infos'[i].life # "new"
        PROVE  \E s \in Rooms : sessions[s] = i
    <3>1. r \notin new /\ infos[i].life # "new"
      BY <1>9, <2>2 DEF Diff
    <3>2. active[r] = i
      BY <1>3, <2>2, <3>1 DEF Infos, NoInfo
    <3>. QED  BY <1>1, <3>1, <3>2 DEF Held
  <2>. QED  BY <2>1, <2>2
<1>. QED  BY <1>4, <1>5, <1>6, <1>7, <1>8, <1>10, <1>11 DEF CInv

\* ProcessEntries is such a step; what it does to a room with an active call that
\* it finds listed and in scope is to refresh its CallInfo.
LEMMA EntriesDiff ==
  ASSUME CInv, answer # NoPoll, NEW count \in Nat, NEW through \in BOOLEAN, ProcessEntries(count, through)
  PROVE  \E new, known, ended, name :
           /\ Diff(new, known, ended, name) /\ Plan(new, ended, name)
           /\ \A r \in Rooms :
                /\ active[r] # NoInfo /\ answer.list[r].call # NoCall /\ InScope(r)
                /\ count = Cardinality(Rooms)
                => r \in known
<1>. DEFINE list == answer.list
            Older(r) == {s \in Rooms : list[s].call \in 1..list[r].call - 1}
            current == {r \in Rooms : list[r].call # NoCall /\ InScope(r)
                                        /\ Cardinality(Older(r)) < count}
            known == {r \in current : active[r] # NoInfo}
            new == current \ known
            ended == IF through THEN Ended(current) ELSE {}
            free == {i \in Infos : infos[i] = Blank}
            Created(name) == \A r \in new, i \in free : i < name[r] =>
              \E s \in new : name[s] = i /\ list[s].call < list[r].call
            RoomOf(i) == CHOOSE r \in Rooms : active'[r] = i
<1>1. PICK name \in Injection(new, free), starts \in SetToSeqs(new), ends \in SetToSeqs(ended) :
        /\ Created(name)
        /\ \A k, l \in DOMAIN starts : k < l => list[starts[k]].call < list[starts[l]].call
        /\ active' = [r \in Rooms |->
             IF r \in new THEN name[r] ELSE IF r \in ended THEN NoInfo ELSE active[r]]
        /\ infos' = [i \in Infos |->
             IF i \in Range(name) THEN Info(list[RoomOf(i)].call, list[RoomOf(i)].rec, "new")
             ELSE IF \E r \in known : active[r] = i
                  THEN Refreshed(infos[i], list[RoomOf(i)])
             ELSE IF infos[i].life = "new" /\ i \notin Range(active') THEN Blank
             ELSE infos[i]]
        /\ ready' = ready \o [k \in DOMAIN starts |-> Task("start", name[starts[k]], starts[k])]
                          \o [k \in DOMAIN ends |-> Task("end", NoInfo, ends[k])]
  BY DEF ProcessEntries
<1>2. /\ active \in [Rooms -> Infos \cup {NoInfo}] /\ infos \in [Infos -> InfoType]
      /\ list \in Listing /\ ready = <<>>
  BY Agreed DEF CInv, ServiceTypeOK, InfoType
<1>3. /\ new \subseteq Rooms /\ known \subseteq Rooms /\ ended \subseteq Rooms
      /\ \A r \in new : active[r] = NoInfo /\ r \notin ended /\ list[r].call # NoCall
      /\ \A r \in known : active[r] # NoInfo /\ r \notin ended
  BY DEF Ended
<1>4. /\ name \in [new -> free] /\ \A r, s \in new : name[r] = name[s] => r = s
      /\ \A i : i \in Range(name) <=> \E r \in new : name[r] = i
      /\ \A i : i \in Range(active') <=> \E r \in Rooms : active'[r] = i
  BY <1>1 DEF Injection, IsInjective, Range
<1>5. /\ starts \in Seq(new) /\ DOMAIN starts = 1..Len(starts) /\ Len(starts) \in Nat
      /\ \A j, k \in DOMAIN starts : starts[j] = starts[k] => j = k
      /\ ends \in Seq(ended) /\ DOMAIN ends = 1..Len(ends) /\ Len(ends) \in Nat
      /\ \A j, k \in DOMAIN ends : ends[j] = ends[k] => j = k
      /\ \A r \in ended : \E k \in DOMAIN ends : ends[k] = r
  <2>1. IsFiniteSet(new) /\ IsFiniteSet(ended)
    BY <1>3, RoomsAssumption, FS_Subset
  <2>. HIDE DEF new, ended
  <2>. QED  BY <2>1, Listed
<1>. HIDE DEF new, known, ended
<1>6. Diff(new, known, ended, name)
  <2>1. ASSUME NEW i \in Infos PROVE infos'[i] \in InfoType
    <3>1. \A r \in Rooms : list[r].call \in Calls \cup {NoCall} /\ list[r].rec \in BOOLEAN
      BY <1>2 DEF Listing
    <3>2. CASE \E r \in new : name[r] = i
      <4>1. RoomOf(i) \in Rooms
        BY <1>1, <1>3, <3>2
      <4>2. infos'[i] = Info(list[RoomOf(i)].call, list[RoomOf(i)].rec, "new")
        BY <1>1, <1>4, <3>2
      <4>. HIDE DEF RoomOf, list
      <4>. QED  BY <3>1, <4>1, <4>2 DEF Info, InfoType
    <3>3. CASE (~\E r \in new : name[r] = i) /\ \E r \in known : active[r] = i
      <4>1. RoomOf(i) \in Rooms
        <5>1. PICK r \in known : active[r] = i
          BY <3>3
        <5>2. r \in Rooms /\ (r \in new => name[r] # i) /\ r \notin ended
          BY <1>3, <3>3
        <5>3. active'[r] = i
          BY <1>1, <1>3, <5>1, <5>2
        <5>. QED  BY <5>2, <5>3
      <4>2. infos'[i] = Refreshed(infos[i], list[RoomOf(i)])
        BY <1>1, <1>4, <3>3
      <4>. HIDE DEF RoomOf, list
      <4>. QED  BY <1>2, <3>1, <4>1, <4>2 DEF Refreshed, InfoType
    <3>4. CASE (~\E r \in new : name[r] = i) /\ ~\E r \in known : active[r] = i
      <4>1. infos'[i] = Blank \/ infos'[i] = infos[i]
        BY <1>1, <1>4, <3>4
      <4>2. Blank \in InfoType
        BY DEF Blank, Info, InfoType
      <4>3. infos[i] \in InfoType
        BY <1>2
      <4>. QED  BY <4>1, <4>2, <4>3
    <3>. QED  BY <3>2, <3>3, <3>4
  <2>2. infos' \in [Infos -> InfoType]
    BY <1>1, <2>1
  <2>3. \A i \in Infos :
          LET room == CHOOSE r \in Rooms : active'[r] = i IN
            infos'[i] =
              IF \E r \in new : name[r] = i
              THEN Info(answer.list[room].call, answer.list[room].rec, "new")
              ELSE IF \E r \in known : active[r] = i THEN Refreshed(infos[i], answer.list[room])
              ELSE IF infos[i].life = "new" /\ ~\E r \in Rooms : active'[r] = i THEN Blank
              ELSE infos[i]
    <3>. SUFFICES ASSUME NEW i \in Infos
                  PROVE  infos'[i] =
                    IF \E r \in new : name[r] = i
                    THEN Info(list[RoomOf(i)].call, list[RoomOf(i)].rec, "new")
                    ELSE IF \E r \in known : active[r] = i THEN Refreshed(infos[i], list[RoomOf(i)])
                    ELSE IF infos[i].life = "new" /\ ~\E r \in Rooms : active'[r] = i THEN Blank
                    ELSE infos[i]
      OBVIOUS
    <3>1. infos'[i] =
            IF i \in Range(name) THEN Info(list[RoomOf(i)].call, list[RoomOf(i)].rec, "new")
            ELSE IF \E r \in known : active[r] = i THEN Refreshed(infos[i], list[RoomOf(i)])
            ELSE IF infos[i].life = "new" /\ i \notin Range(active') THEN Blank
            ELSE infos[i]
      BY <1>1
    <3>. HIDE DEF RoomOf, list
    <3>. QED  BY <1>4, <3>1
  <2>. QED  BY <1>1, <1>3, <1>4, <2>2, <2>3 DEF Diff
<1>7. Plan(new, ended, name)
  <2>. DEFINE A == [k \in DOMAIN starts |-> Task("start", name[starts[k]], starts[k])]
              B == [k \in DOMAIN ends |-> Task("end", NoInfo, ends[k])]
  <2>1. /\ A \in Seq(TaskType) /\ Len(A) = Len(starts)
        /\ B \in Seq(TaskType) /\ Len(B) = Len(ends)
    <3>1. \A k \in 1..Len(starts) : starts[k] \in new /\ Task("start", name[starts[k]], starts[k]) \in TaskType
      BY <1>3, <1>4, <1>5 DEF Task, TaskType
    <3>2. \A k \in 1..Len(ends) : ends[k] \in ended /\ Task("end", NoInfo, ends[k]) \in TaskType
      BY <1>3, <1>5 DEF Task, TaskType
    <3>3. A \in [1..Len(starts) -> TaskType] /\ B \in [1..Len(ends) -> TaskType]
      BY <1>5, <3>1, <3>2
    <3>. HIDE DEF A, B
    <3>. QED  BY <1>5, <3>3, FunctionIsSeq
  <2>2. /\ \A k \in 1..Len(starts) : A[k].kind = "start" /\ A[k].room = starts[k]
                                     /\ A[k].room \in new /\ A[k].info = name[A[k].room]
        /\ \A k \in 1..Len(ends) : B[k].kind = "end" /\ B[k].room = ends[k] /\ B[k].room \in ended
    BY <1>5 DEF Task
  <2>3. ready' = A \o B
    <3>1. ready' = (ready \o A) \o B
      BY <1>1
    <3>. HIDE DEF A, B
    <3>2. ready \o A = A
      BY <1>2, <2>1, ConcatEmptySeq
    <3>. QED  BY <3>1, <3>2
  <2>. HIDE DEF A, B
  <2>4. /\ ready' \in Seq(TaskType) /\ Len(ready') = Len(starts) + Len(ends)
        /\ DOMAIN ready' = 1..Len(starts) + Len(ends)
        /\ \A k \in 1..Len(starts) + Len(ends) :
             ready'[k] = IF k <= Len(starts) THEN A[k] ELSE B[k - Len(starts)]
    <3>1. /\ A \o B \in Seq(TaskType) /\ Len(A \o B) = Len(A) + Len(B)
          /\ \A k \in 1..Len(A) + Len(B) :
               (A \o B)[k] = IF k <= Len(A) THEN A[k] ELSE B[k - Len(A)]
      BY <2>1, ConcatProperties
    <3>2. DOMAIN (A \o B) = 1..Len(A \o B)
      BY <3>1, LenProperties
    <3>. QED  BY <2>1, <2>3, <3>1, <3>2
  <2>5. \A k \in DOMAIN ready' :
          /\ k <= Len(starts) => k \in 1..Len(starts) /\ ready'[k] = A[k]
          /\ ~(k <= Len(starts)) => k - Len(starts) \in 1..Len(ends) /\ ready'[k] = B[k - Len(starts)]
    BY <1>5, <2>4
  <2>6. \A k \in DOMAIN ready' :
          /\ ready'[k].kind = "start" => ready'[k].room \in new /\ ready'[k].info = name[ready'[k].room]
          /\ ready'[k].kind = "end" => ready'[k].room \in ended
    BY <2>2, <2>5
  <2>7. OneTask'
    <3>. SUFFICES ASSUME NEW j \in DOMAIN ready', NEW k \in DOMAIN ready', ready'[j].room = ready'[k].room
                  PROVE  j = k
      BY DEF OneTask
    <3>1. j \in Nat /\ k \in Nat /\ Len(starts) \in Nat
      BY <1>5, <2>4
    <3>2. CASE j <= Len(starts) /\ k <= Len(starts)
      BY <1>5, <2>2, <2>5, <3>2
    <3>3. CASE ~(j <= Len(starts)) /\ ~(k <= Len(starts))
      <4>1. ends[j - Len(starts)] = ends[k - Len(starts)]
        BY <2>2, <2>5, <3>3
      <4>2. j - Len(starts) = k - Len(starts)
        BY <1>5, <2>5, <3>3, <4>1
      <4>. QED  BY <3>1, <4>2
    <3>4. CASE ~(j <= Len(starts) <=> k <= Len(starts))
      BY <1>3, <2>2, <2>5, <3>4
    <3>. QED  BY <3>2, <3>3, <3>4
  <2>8. \A r \in ended : Ending(r)'
    <3>. SUFFICES ASSUME NEW r \in ended PROVE \E k \in DOMAIN ready' : ready'[k].kind = "end" /\ ready'[k].room = r
      BY DEF Ending
    <3>1. PICK k \in 1..Len(ends) : ends[k] = r
      BY <1>5
    <3>2. /\ k + Len(starts) \in DOMAIN ready' /\ ~(k + Len(starts) <= Len(starts))
          /\ (k + Len(starts)) - Len(starts) = k
      BY <1>5, <2>4
    <3>. QED  BY <2>2, <2>5, <3>1, <3>2
  <2>. QED  BY <2>4, <2>6, <2>7, <2>8 DEF Plan
<1>8. ASSUME NEW r \in Rooms, active[r] # NoInfo, list[r].call # NoCall, InScope(r),
             count = Cardinality(Rooms)
      PROVE  r \in known
  <2>1. r \notin Older(r) /\ Older(r) \subseteq Rooms
    <3>1. list[r].call \in Int
      BY <1>2 DEF Listing, Calls, NoCall
    <3>. QED  BY <3>1
  <2>2. Cardinality(Older(r)) < count
    <3>1. IsFiniteSet(Rooms) /\ Older(r) \subseteq Rooms \ {r}
      BY <2>1, RoomsAssumption
    <3>. HIDE DEF Older
    <3>2. /\ IsFiniteSet(Rooms \ {r}) /\ Cardinality(Rooms \ {r}) = Cardinality(Rooms) - 1
      BY <3>1, FS_RemoveElement
    <3>3. Cardinality(Older(r)) <= Cardinality(Rooms \ {r}) /\ IsFiniteSet(Older(r))
      BY <3>1, <3>2, FS_Subset
    <3>4. Cardinality(Older(r)) \in Nat /\ Cardinality(Rooms) \in Nat
      BY <3>1, <3>3, FS_CardinalityType
    <3>. QED  BY <1>8, <3>2, <3>3, <3>4
  <2>. QED  BY <1>8, <2>2 DEF known
<1>. QED  BY <1>6, <1>7, <1>8

-----------------------------------------------------------------------------
(* The other steps.                                                         *)

LEMMA Polled == Process \/ ProcessRaises => answer # NoPoll
<1>1. NoPoll.kind = "none"
  BY DEF NoPoll, Poll
<1>. QED  BY <1>1 DEF Process, ProcessRaises

\* A poll's answer, cut short or not, keeps the invariant.
LEMMA EntriesKeep ==
  ASSUME CInv, Process \/ ProcessRaises
  PROVE  CInv'
<1>1. /\ answer # NoPoll
      /\ \E count \in Nat, through \in BOOLEAN : ProcessEntries(count, through)
  <2>1. Cardinality(Rooms) \in Nat
    BY RoomsAssumption, FS_CardinalityType
  <2>2. answer # NoPoll
    BY Polled
  <2>3. 0..Cardinality(Rooms) \subseteq Nat
    BY <2>1
  <2>4. CASE Process
    BY <2>1, <2>2, <2>4 DEF Process
  <2>5. CASE ProcessRaises
    BY <2>2, <2>3, <2>5 DEF ProcessRaises
  <2>. QED  BY <2>4, <2>5
<1>2. answer' = NoPoll /\ UNCHANGED <<world, sessions, scope, service>>
  BY <1>1 DEF ProcessEntries
<1>3. PICK new, known, ended, name : Diff(new, known, ended, name) /\ Plan(new, ended, name)
  BY <1>1, EntriesDiff
<1>. QED  BY <1>1, <1>2, <1>3, DiffKeeps

\* The session of a room may begin: the room has none, and a call of its own.
LEMMA StartKeeps ==
  ASSUME CInv, OnCallStarted
  PROVE  CInv'
<1>. DEFINE t == Head(ready)
<1>1. /\ ready # <<>> /\ ready' = Tail(ready) /\ t.kind = "start"
      /\ UNCHANGED <<app, issued, appRooms, answer, active, scope, service>>
      /\ \/ /\ sessions' = [sessions EXCEPT ![t.room] = t.info]
            /\ infos' = [infos EXCEPT ![t.info].life = "joined"]
         \/ UNCHANGED <<sessions, infos>>
  BY DEF OnCallStarted, world
<1>2. /\ t = ready[1] /\ 1 \in DOMAIN ready /\ t \in TaskType
      /\ ready' \in Seq(TaskType)
      /\ \A k \in DOMAIN ready' : k + 1 \in DOMAIN ready /\ ready'[k] = ready[k + 1]
      /\ \A k \in DOMAIN ready : k # 1 => k - 1 \in DOMAIN ready' /\ ready'[k - 1] = ready[k]
  BY <1>1, Queue
<1>3. /\ \A k \in DOMAIN ready' : ready'[k].room # t.room
      /\ OneTask' /\ answer = NoPoll
  BY <1>1, Behind
<1>4. /\ active \in [Rooms -> Infos \cup {NoInfo}] /\ sessions \in [Rooms -> Infos \cup {NoInfo}]
      /\ infos \in [Infos -> InfoType]
      /\ Expected /\ InStep /\ Apart /\ InUse /\ Held
  BY DEF CInv, ServiceTypeOK, InfoType
<1>5. /\ t.room \in Rooms /\ t.info \in Infos /\ t.info # NoInfo
      /\ active[t.room] = t.info /\ sessions[t.room] = NoInfo
  BY <1>1, <1>2, <1>4 DEF Expected, TaskType
<1>. HIDE DEF t
<1>6. /\ \A r \in Rooms : Ending(r) => Ending(r)'
      /\ \A k \in DOMAIN ready' :
           /\ ready'[k].kind = "start" =>
                /\ ready'[k].info # NoInfo /\ active[ready'[k].room] = ready'[k].info
                /\ sessions[ready'[k].room] = NoInfo
           /\ ready'[k].kind = "end" => active[ready'[k].room] = NoInfo
  <2>1. \A r \in Rooms : Ending(r) => Ending(r)'
    <3>. SUFFICES ASSUME NEW r \in Rooms, NEW k \in DOMAIN ready, ready[k].kind = "end", ready[k].room = r
                  PROVE  Ending(r)'
      BY DEF Ending
    <3>1. k # 1
      BY <1>1, <1>2
    <3>. QED  BY <1>2, <3>1 DEF Ending
  <2>. QED  BY <1>2, <1>4, <2>1 DEF Expected
<1>7. CASE UNCHANGED <<sessions, infos>>
  <2>1. ServiceTypeOK' /\ Quiet' /\ OneTask'
    BY <1>1, <1>2, <1>3, <1>7 DEF CInv, ServiceTypeOK, TaskType, Quiet
  <2>2. Expected' /\ InStep'
    BY <1>1, <1>4, <1>6, <1>7 DEF Expected, InStep
  <2>3. Apart' /\ InUse' /\ Held'
    BY <1>1, <1>4, <1>7 DEF Apart, InUse, Held, Joined
  <2>. QED  BY <2>1, <2>2, <2>3 DEF CInv
<1>8. CASE /\ sessions' = [sessions EXCEPT ![t.room] = t.info]
           /\ infos' = [infos EXCEPT ![t.info].life = "joined"]
  <2>1. /\ sessions' \in [Rooms -> Infos \cup {NoInfo}]
        /\ sessions'[t.room] = t.info
        /\ \A r \in Rooms : r # t.room => sessions'[r] = sessions[r]
    BY <1>4, <1>5, <1>8
  <2>2. /\ infos' \in [Infos -> InfoType]
        /\ infos'[t.info].life = "joined" /\ infos'[t.info].session = infos[t.info].session
        /\ \A i \in Infos : i # t.info => infos'[i] = infos[i]
    BY <1>4, <1>5, <1>8 DEF InfoType
  <2>3. ServiceTypeOK' /\ Quiet' /\ OneTask'
    BY <1>1, <1>2, <1>3, <2>1, <2>2 DEF CInv, ServiceTypeOK, TaskType, InfoType, Quiet
  <2>4. Expected'
    <3>1. \A k \in DOMAIN ready' : ready'[k].room \in Rooms
      <4>1. \A k \in DOMAIN ready' : ready'[k] \in TaskType
        BY <1>2, ElementOfSeq, LenProperties
      <4>. QED  BY <4>1 DEF TaskType
    <3>2. \A k \in DOMAIN ready' : sessions'[ready'[k].room] = sessions[ready'[k].room]
      BY <1>3, <2>1, <3>1
    <3>. QED  BY <1>1, <1>6, <3>2 DEF Expected
  <2>5. InStep'
    BY <1>1, <1>4, <1>5, <1>6, <2>1 DEF InStep
  <2>6. Apart'
    BY <1>1, <1>4, <1>5, <2>1 DEF Apart
  <2>7. InUse'
    BY <1>1, <1>4, <1>5, <2>1, <2>2 DEF InUse, Apart
  <2>8. Held'
    <3>. SUFFICES ASSUME NEW i \in Infos,
                         infos'[i].life = "joined" \/ (infos'[i].life # "new" /\ \E r \in Rooms : active[r] = i)
                  PROVE  \E r \in Rooms : sessions'[r] = i
      BY <1>1 DEF Held, Joined
    <3>1. CASE i = t.info
      BY <1>5, <2>1, <3>1
    <3>2. CASE i # t.info
      <4>1. PICK r \in Rooms : sessions[r] = i
        BY <1>4, <2>2, <3>2 DEF Held, Joined
      <4>2. r # t.room
        BY <1>5, <4>1 DEF Infos, NoInfo
      <4>. QED  BY <2>1, <4>1, <4>2
    <3>. QED  BY <3>1, <3>2
  <2>. QED  BY <2>3, <2>4, <2>5, <2>6, <2>7, <2>8 DEF CInv
<1>. QED  BY <1>1, <1>7, <1>8

\* The session of a room is taken out of the table and stopped.
LEMMA EndKeeps ==
  ASSUME CInv, OnCallEnded
  PROVE  CInv'
<1>. DEFINE t == Head(ready)
            gone == sessions[t.room]
<1>1. /\ ready # <<>> /\ ready' = Tail(ready) /\ t.kind = "end"
      /\ UNCHANGED <<app, issued, appRooms, answer, active, scope, service>>
      /\ sessions' = [sessions EXCEPT ![t.room] = NoInfo]
      /\ infos' = [i \in Infos |->
           IF i = gone THEN [infos[i] EXCEPT !.life = "leaving"] ELSE infos[i]]
  BY DEF OnCallEnded, world
<1>2. /\ t = ready[1] /\ 1 \in DOMAIN ready /\ t \in TaskType
      /\ ready' \in Seq(TaskType)
      /\ \A k \in DOMAIN ready' : k + 1 \in DOMAIN ready /\ ready'[k] = ready[k + 1]
      /\ \A k \in DOMAIN ready : k # 1 => k - 1 \in DOMAIN ready' /\ ready'[k - 1] = ready[k]
  BY <1>1, Queue
<1>3. /\ \A k \in DOMAIN ready' : ready'[k].room # t.room
      /\ OneTask' /\ answer = NoPoll
  BY <1>1, Behind
<1>4. /\ active \in [Rooms -> Infos \cup {NoInfo}] /\ sessions \in [Rooms -> Infos \cup {NoInfo}]
      /\ infos \in [Infos -> InfoType]
      /\ Expected /\ InStep /\ Apart /\ InUse /\ Held
  BY DEF CInv, ServiceTypeOK, InfoType
<1>5. t.room \in Rooms /\ active[t.room] = NoInfo
  BY <1>1, <1>2, <1>4 DEF Expected, TaskType
<1>. HIDE DEF t
<1>6. /\ sessions' \in [Rooms -> Infos \cup {NoInfo}]
      /\ sessions'[t.room] = NoInfo
      /\ \A r \in Rooms : r # t.room => sessions'[r] = sessions[r]
  BY <1>1, <1>4, <1>5
<1>7. /\ infos' \in [Infos -> InfoType]
      /\ \A i \in Infos : infos'[i].session = infos[i].session
      /\ \A i \in Infos : infos'[i].life = IF i = gone THEN "leaving" ELSE infos[i].life
  BY <1>1, <1>4 DEF InfoType
<1>8. \A r \in Rooms : active[r] # NoInfo => active[r] # gone
  BY <1>4, <1>5 DEF Apart
<1>. HIDE DEF gone
<1>9. ServiceTypeOK' /\ Quiet' /\ OneTask'
  BY <1>1, <1>2, <1>3, <1>6, <1>7 DEF CInv, ServiceTypeOK, TaskType, InfoType, Quiet
<1>10. Expected'
  BY <1>1, <1>2, <1>3, <1>4, <1>6 DEF Expected, TaskType
<1>11. InStep'
  <2>. SUFFICES ASSUME NEW r \in Rooms, sessions'[r] # NoInfo
                PROVE  sessions'[r] = active[r] \/ Ending(r)'
    BY <1>1 DEF InStep
  <2>1. r # t.room /\ sessions'[r] = sessions[r]
    BY <1>6
  <2>2. ASSUME NEW k \in DOMAIN ready, ready[k].kind = "end", ready[k].room = r PROVE Ending(r)'
    <3>1. k # 1
      BY <1>2, <2>1, <2>2
    <3>. QED  BY <1>2, <2>2, <3>1 DEF Ending
  <2>. QED  BY <1>4, <2>1, <2>2 DEF InStep, Ending
<1>12. Apart'
  BY <1>1, <1>4, <1>5, <1>6 DEF Apart
<1>13. InUse'
  <2>1. \A r \in Rooms : active[r] # NoInfo => infos'[active[r]].session # NoCall
    BY <1>4, <1>7 DEF InUse
  <2>2. ASSUME NEW r \in Rooms, sessions'[r] # NoInfo
        PROVE  infos'[sessions'[r]].session # NoCall /\ infos'[sessions'[r]].life # "new"
    <3>1. sessions'[r] = sessions[r] /\ sessions[r] \in Infos
      BY <1>4, <1>6, <2>2
    <3>. QED  BY <1>4, <1>7, <2>2, <3>1 DEF InUse
  <2>. QED  BY <1>1, <2>1, <2>2 DEF InUse
<1>14. Held'
  <2>. SUFFICES ASSUME NEW i \in Infos,
                       infos'[i].life = "joined" \/ (infos'[i].life # "new" /\ \E r \in Rooms : active[r] = i)
                PROVE  \E r \in Rooms : sessions'[r] = i
    BY <1>1 DEF Held, Joined
  <2>1. i # NoInfo
    BY DEF Infos, NoInfo
  <2>2. i # gone /\ infos'[i].life = infos[i].life
    BY <1>7, <1>8, <2>1
  <2>3. PICK r \in Rooms : sessions[r] = i
    BY <1>4, <2>2 DEF Held, Joined
  <2>4. r # t.room
    BY <2>2, <2>3 DEF gone
  <2>. QED  BY <1>6, <2>3, <2>4
<1>. QED  BY <1>9, <1>10, <1>11, <1>12, <1>13, <1>14 DEF CInv

\* What neither schedules a callback nor changes the tables, and changes of the
\* CallInfos in use no more than how far a session in the table has got.
LEMMA LivesKeep ==
  ASSUME CInv, ServiceTypeOK', Quiet', UNCHANGED <<active, ready, sessions>>,
         \A i \in Infos : (\E r \in Rooms : active[r] = i \/ sessions[r] = i) =>
           /\ infos'[i].session = infos[i].session
           /\ infos'[i].life = "new" <=> infos[i].life = "new",
         \A i \in Infos : infos'[i].life = "joined" => infos[i].life = "joined"
  PROVE  CInv'
<1>1. /\ active \in [Rooms -> Infos \cup {NoInfo}] /\ sessions \in [Rooms -> Infos \cup {NoInfo}]
      /\ OneTask /\ Expected /\ InStep /\ Apart /\ InUse /\ Held
  BY DEF CInv, ServiceTypeOK
<1>2. OneTask' /\ Expected' /\ InStep' /\ Apart'
  BY <1>1 DEF OneTask, Expected, InStep, Ending, Apart
<1>3. InUse'
  <2>. SUFFICES ASSUME NEW r \in Rooms
                PROVE  /\ active[r] # NoInfo => infos'[active[r]].session # NoCall
                       /\ sessions[r] # NoInfo =>
                            infos'[sessions[r]].session # NoCall /\ infos'[sessions[r]].life # "new"
    BY DEF InUse
  <2>1. (active[r] # NoInfo => active[r] \in Infos) /\ (sessions[r] # NoInfo => sessions[r] \in Infos)
    BY <1>1
  <2>. QED  BY <1>1, <2>1 DEF InUse
<1>4. Held'
  BY <1>1 DEF Held, Joined
<1>. QED  BY <1>2, <1>3, <1>4 DEF CInv

\* The app, the polls on their way, the heartbeat, a restart: none of them
\* touches what the service holds.
LEMMA WorldKeeps ==
  ASSUME CInv, App \/ PollAsked \/ PollAnswered \/ Heartbeat \/ Restart
  PROVE  CInv'
<1>1. ServiceTypeOK /\ Quiet
  BY DEF CInv
<1>2. app \in Listing /\ issued \in 0..MaxCalls /\ appRooms \in AllowLists /\ scope \in SUBSET Rooms
  BY <1>1 DEF ServiceTypeOK
<1>3. UNCHANGED <<active, ready, sessions, infos>>
  BY DEF App, CallStarts, CallEnds, OptOut, EditRooms, PollAsked, PollAnswered, Heartbeat,
         Restart, world, monitor
<1>4. app' \in Listing
  <2>1. ASSUME NEW r \in Rooms, CallStarts(r) PROVE app' \in Listing
    <3>1. PICK rec \in BOOLEAN : app' = [app EXCEPT ![r] = [call |-> issued + 1, rec |-> rec]]
      BY <2>1 DEF CallStarts
    <3>2. issued + 1 \in Calls
      BY <1>2, <2>1, BoundsAssumption DEF CallStarts, Calls
    <3>. QED  BY <1>2, <3>1, <3>2 DEF Listing
  <2>2. ASSUME NEW r \in Rooms, CallEnds(r) PROVE app' \in Listing
    BY <1>2, <2>2 DEF CallEnds, Listing, NoCalls
  <2>3. ASSUME NEW r \in Rooms, OptOut(r) PROVE app' \in Listing
    BY <1>2, <2>3 DEF OptOut, Listing
  <2>4. CASE EditRooms \/ PollAsked \/ PollAnswered \/ Heartbeat \/ Restart
    BY <1>2, <2>4 DEF EditRooms, PollAsked, PollAnswered, Heartbeat, Restart, world
  <2>. QED  BY <2>1, <2>2, <2>3, <2>4 DEF App
<1>5. issued' \in 0..MaxCalls /\ appRooms' \in AllowLists
  BY <1>2, BoundsAssumption
     DEF App, CallStarts, CallEnds, OptOut, EditRooms, PollAsked, PollAnswered, Heartbeat,
         Restart, world
<1>6. scope' \in SUBSET Rooms /\ service' \in {"running", "stopping", "exited"}
  BY <1>1, <1>2, RoomsAssumption, AllowListsAssumption
     DEF App, CallStarts, CallEnds, OptOut, EditRooms, PollAsked, PollAnswered, Heartbeat,
         Restart, Overlay, ServiceTypeOK
<1>7. answer' \in [kind : {"none", "asked", "list", "broken"}, list : Listing] /\ Quiet'
  <2>1. CASE PollAnswered
    <3>1. answer # NoPoll /\ answer' \in {Poll("list", app), Broken, NoPoll}
      BY <2>1 DEF PollAnswered, Asked, NoPoll, Poll
    <3>2. NoCalls \in Listing
      BY DEF NoCalls, Listing
    <3>. QED  BY <1>1, <1>2, <1>3, <3>1, <3>2 DEF Poll, Broken, NoPoll, Quiet
  <2>2. CASE PollAsked
    <3>1. NoCalls \in Listing
      BY DEF NoCalls, Listing
    <3>. QED  BY <1>3, <2>2, <3>1 DEF PollAsked, Asked, Poll, Quiet
  <2>3. CASE App \/ Heartbeat \/ Restart
    <3>1. UNCHANGED answer
      BY <2>3 DEF App, CallStarts, CallEnds, OptOut, EditRooms, Heartbeat, Restart, monitor
    <3>. QED  BY <1>1, <1>3, <3>1 DEF ServiceTypeOK, Quiet
  <2>. QED  BY <2>1, <2>2, <2>3
<1>8. ServiceTypeOK'
  BY <1>1, <1>3, <1>4, <1>5, <1>6, <1>7 DEF ServiceTypeOK
<1>. QED  BY <1>3, <1>7, <1>8, LivesKeep

\* A hand-over ends; a signal stops every session of the table.
LEMMA SettledKeeps ==
  ASSUME CInv, NEW i \in Infos, Settled(i)
  PROVE  CInv'
<1>1. /\ infos \in [Infos -> InfoType] /\ Held /\ Quiet /\ ServiceTypeOK
      /\ sessions \in [Rooms -> Infos \cup {NoInfo}]
  BY DEF CInv, ServiceTypeOK, InfoType
<1>2. /\ infos[i].life = "leaving"
      /\ infos' = [infos EXCEPT ![i] = IF i \in Range(sessions) THEN [@ EXCEPT !.life = "over"]
                                                                 ELSE Blank]
      /\ UNCHANGED <<app, issued, appRooms, answer, active, ready, sessions, scope, service>>
  BY DEF Settled, world, monitor
<1>3. /\ infos' \in [Infos -> InfoType]
      /\ \A j \in Infos : j # i => infos'[j] = infos[j]
      /\ i \in Range(sessions) => infos'[i].session = infos[i].session /\ infos'[i].life = "over"
      /\ i \notin Range(sessions) => infos'[i] = Blank
  BY <1>1, <1>2 DEF InfoType, Blank, Info
<1>4. i \in Range(sessions) <=> \E r \in Rooms : sessions[r] = i
  BY <1>1 DEF Range
<1>5. (\E r \in Rooms : active[r] = i) => i \in Range(sessions)
  BY <1>1, <1>2, <1>4 DEF Held
<1>6. ServiceTypeOK' /\ Quiet'
  BY <1>1, <1>2, <1>3 DEF ServiceTypeOK, InfoType, Quiet
<1>7. ASSUME NEW j \in Infos, \E r \in Rooms : active[r] = j \/ sessions[r] = j
      PROVE  /\ infos'[j].session = infos[j].session
             /\ infos'[j].life = "new" <=> infos[j].life = "new"
  BY <1>2, <1>3, <1>4, <1>5, <1>7
<1>8. ASSUME NEW j \in Infos, infos'[j].life = "joined" PROVE infos[j].life = "joined"
  BY <1>3, <1>8 DEF Blank, Info
<1>. QED  BY <1>2, <1>6, <1>7, <1>8, LivesKeep

LEMMA ShutdownKeeps ==
  ASSUME CInv, Shutdown
  PROVE  CInv'
<1>1. /\ infos \in [Infos -> InfoType] /\ InUse /\ Quiet /\ ServiceTypeOK
      /\ sessions \in [Rooms -> Infos \cup {NoInfo}]
  BY DEF CInv, ServiceTypeOK, InfoType
<1>2. /\ service' = "stopping"
      /\ infos' = [i \in Infos |->
           IF i \in Range(sessions) THEN [infos[i] EXCEPT !.life = "leaving"] ELSE infos[i]]
      /\ UNCHANGED <<app, issued, appRooms, answer, active, ready, sessions, scope>>
  BY DEF Shutdown, world, monitor
<1>3. /\ infos' \in [Infos -> InfoType]
      /\ \A i \in Infos : infos'[i].session = infos[i].session
      /\ \A i \in Infos : infos'[i].life = IF i \in Range(sessions) THEN "leaving" ELSE infos[i].life
  BY <1>1, <1>2 DEF InfoType
<1>4. \A i \in Infos : i \in Range(sessions) => infos[i].life # "new"
  BY <1>1 DEF Range, InUse, Infos, NoInfo
<1>5. ServiceTypeOK' /\ Quiet'
  BY <1>1, <1>2, <1>3 DEF ServiceTypeOK, InfoType, Quiet
<1>6. ASSUME NEW i \in Infos
      PROVE  /\ infos'[i].session = infos[i].session
             /\ infos'[i].life = "new" <=> infos[i].life = "new"
             /\ infos'[i].life = "joined" => infos[i].life = "joined"
  BY <1>3, <1>4
<1>. QED  BY <1>2, <1>5, <1>6, LivesKeep

\* A process that is gone holds nothing.
LEMMA NothingHeld ==
  ASSUME active = Nowhere, ready = <<>>, infos = NoInfos, sessions = Nowhere, answer = NoPoll,
         app \in Listing, issued \in 0..MaxCalls, appRooms \in AllowLists,
         scope \in SUBSET Rooms, service \in {"running", "stopping", "exited"}
  PROVE  CInv
<1>1. ServiceTypeOK
  <2>1. NoPoll \in [kind : {"none", "asked", "list", "broken"}, list : Listing]
    BY DEF NoPoll, Poll, NoCalls, Listing
  <2>2. NoInfos \in [Infos -> InfoType]
    BY DEF NoInfos, InfoType, Blank, Info
  <2>. QED  BY <2>1, <2>2 DEF ServiceTypeOK, Nowhere, InfoType
<1>2. DOMAIN ready = {}
  OBVIOUS
<1>3. OneTask /\ Expected /\ Quiet
  BY <1>2 DEF OneTask, Expected, Quiet
<1>4. InStep /\ Apart /\ InUse
  BY DEF InStep, Apart, InUse, Nowhere
<1>5. Held
  BY DEF Held, Joined, NoInfos, Blank, Info
<1>. QED  BY <1>1, <1>3, <1>4, <1>5 DEF CInv

LEMMA ServiceStarts == ServiceInit => CInv
<1>. SUFFICES ASSUME ServiceInit PROVE CInv
  OBVIOUS
<1>1. app \in Listing /\ issued \in 0..MaxCalls
  BY BoundsAssumption DEF ServiceInit, NoCalls, Listing
<1>2. scope \in SUBSET Rooms /\ appRooms \in AllowLists
  BY RoomsAssumption, AllowListsAssumption DEF ServiceInit, Overlay
<1>. QED  BY <1>1, <1>2, NothingHeld DEF ServiceInit

LEMMA GoneKeeps == ASSUME CInv, Exit \/ Crash PROVE CInv'
<1>1. Gone
  BY DEF Exit, Crash
<1>2. /\ active' = Nowhere /\ ready' = <<>> /\ infos' = NoInfos /\ sessions' = Nowhere
      /\ answer' = NoPoll /\ scope' = Pinned /\ service' = "exited"
      /\ UNCHANGED <<app, issued, appRooms>>
  BY <1>1 DEF Gone, world
<1>3. /\ app' \in Listing /\ issued' \in 0..MaxCalls /\ appRooms' \in AllowLists
      /\ scope' \in SUBSET Rooms
  BY <1>2, RoomsAssumption DEF CInv, ServiceTypeOK
<1>4. ServiceTypeOK'
  <2>1. NoPoll \in [kind : {"none", "asked", "list", "broken"}, list : Listing]
    BY DEF NoPoll, Poll, NoCalls, Listing
  <2>2. NoInfos \in [Infos -> InfoType]
    BY DEF NoInfos, InfoType, Blank, Info
  <2>. QED  BY <1>2, <1>3, <2>1, <2>2 DEF ServiceTypeOK, Nowhere, InfoType
<1>5. OneTask' /\ Expected' /\ Quiet'
  <2>1. DOMAIN ready' = {}
    BY <1>2
  <2>. QED  BY <1>2, <2>1 DEF OneTask, Expected, Quiet
<1>6. InStep' /\ Apart' /\ InUse'
  BY <1>2 DEF InStep, Apart, InUse, Nowhere
<1>7. Held'
  BY <1>2 DEF Held, Joined, NoInfos, Blank, Info
<1>. QED  BY <1>4, <1>5, <1>6, <1>7 DEF CInv

-----------------------------------------------------------------------------
(* The theorems.                                                            *)

\* What ties queue, tables and CallInfos together, for any number of rooms,
\* calls and CallInfos, and any allowlists.
THEOREM ServiceInvariant == ServiceSpec => []CInv
<1>1. CInv /\ [ServiceNext]_cvars => CInv'
  <2>. SUFFICES ASSUME CInv, [ServiceNext]_cvars PROVE CInv'
    OBVIOUS
  <2>1. CASE App \/ Restart \/ PollAsked \/ PollAnswered \/ Heartbeat
    BY <2>1, WorldKeeps
  <2>2. CASE Process \/ ProcessRaises
    BY <2>2, EntriesKeep
  <2>3. CASE OnCallStarted
    BY <2>3, StartKeeps
  <2>4. CASE OnCallEnded
    BY <2>4, EndKeeps
  <2>5. CASE \E i \in Infos : Settled(i)
    BY <2>5, SettledKeeps
  <2>6. CASE Shutdown
    BY <2>6, ShutdownKeeps
  <2>7. CASE Exit \/ Crash
    BY <2>7, GoneKeeps
  <2>8. CASE UNCHANGED cvars
    <3>1. UNCHANGED <<app, issued, appRooms, answer, active, ready, infos, sessions, scope, service>>
      BY <2>8 DEF cvars, world, monitor
    <3>2. ServiceTypeOK' /\ Quiet'
      BY <3>1 DEF CInv, ServiceTypeOK, Quiet
    <3>. QED  BY <3>1, <3>2, LivesKeep
  <2>. QED  BY <2>1, <2>2, <2>3, <2>4, <2>5, <2>6, <2>7, <2>8 DEF ServiceNext, Service
<1>. QED  BY <1>1, ServiceStarts, PTL DEF ServiceSpec

\* Every variable keeps its type: no table names anything but a CallInfo, and
\* the callbacks find what they were scheduled for.
THEOREM ServiceTypeCorrect == ServiceSpec => []ServiceTypeOK
BY ServiceInvariant, PTL DEF CInv

\* Every session in a call can be stopped by _on_call_ended or shutdown, and holds
\* the CallInfo that _process refreshes, whatever came before.
THEOREM SessionsStayTracked == ServiceSpec => []SessionsTracked
<1>1. CInv => SessionsTracked
  <2>. SUFFICES ASSUME CInv PROVE SessionsTracked
    OBVIOUS
  <2>1. \A i \in Infos : Joined(i) => i \in Range(sessions)
    BY DEF CInv, Held, Range, ServiceTypeOK
  <2>2. ready = <<>> => DOMAIN ready = {}
    OBVIOUS
  <2>3. ready = <<>> => \A r \in Rooms : sessions[r] # NoInfo => sessions[r] = active[r]
    BY <2>2 DEF CInv, InStep, Ending
  <2>. QED  BY <2>1, <2>3 DEF SessionsTracked
<1>. QED  BY <1>1, ServiceInvariant, PTL

\* The opt-out: a room's session records after _process exactly if the poll's
\* answer says so of the room, for a call that is listed and in scope.
THEOREM OptOutFollows == ServiceSpec => OptOutFollowsPoll
<1>1. ASSUME CInv, Process, NEW r \in Rooms, sessions[r] # NoInfo,
             answer.list[r].call # NoCall, InScope(r)
      PROVE  infos'[sessions[r]].rec = answer.list[r].rec
  <2>1. answer # NoPoll /\ ProcessEntries(Cardinality(Rooms), TRUE) /\ Cardinality(Rooms) \in Nat
    <3>1. Cardinality(Rooms) \in Nat
      BY RoomsAssumption, FS_CardinalityType
    <3>. QED  BY <1>1, <3>1, Polled DEF Process
  <2>2. PICK new, known, ended, name :
          /\ Diff(new, known, ended, name)
          /\ active[r] # NoInfo /\ answer.list[r].call # NoCall /\ InScope(r) => r \in known
    <3>1. \E new, known, ended, name :
            /\ Diff(new, known, ended, name) /\ Plan(new, ended, name)
            /\ \A s \in Rooms :
                 /\ active[s] # NoInfo /\ answer.list[s].call # NoCall /\ InScope(s)
                 /\ Cardinality(Rooms) = Cardinality(Rooms)
                 => s \in known
      BY <1>1, <2>1, EntriesDiff
    <3>. QED  BY <3>1
  <2>3. sessions[r] = active[r] /\ r \in known
    BY <1>1, <2>1, <2>2, Agreed
  <2>. DEFINE i == sessions[r]
              room == CHOOSE s \in Rooms : active'[s] = i
  <2>4. i \in Infos /\ infos \in [Infos -> InfoType]
    BY <1>1 DEF CInv, ServiceTypeOK, InfoType
  <2>5. r \notin new /\ active'[r] = i
    BY <1>1, <2>2, <2>3 DEF Diff
  <2>6. (~\E s \in new : name[s] = i) /\ room = r
    BY <1>1, <2>2, <2>5, RoomOfInfo
  <2>7. infos'[i] = Refreshed(infos[i], answer.list[room])
    BY <2>2, <2>3, <2>4, <2>6 DEF Diff
  <2>. HIDE DEF room
  <2>. QED  BY <2>4, <2>6, <2>7 DEF Refreshed, InfoType
<1>2. CInv => [Process => \A r \in Rooms :
         LET said == answer.list[r] IN
           sessions[r] # NoInfo /\ said.call # NoCall /\ InScope(r)
             => infos'[sessions[r]].rec = said.rec]_cvars
  BY <1>1
<1>. QED  BY <1>2, ServiceInvariant, PTL DEF OptOutFollowsPoll
=============================================================================
