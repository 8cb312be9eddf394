------------------------ MODULE SpreedSignallingProofs ------------------------
(***************************************************************************)
(* Proofs about SpreedSignalling: for any number of participants, events   *)
(* and attempts, once what the server said is handled whoever is to be     *)
(* heard is known, presence intervals are open for nobody known to have    *)
(* gone, and none is lost or outlives the call.                            *)
(***************************************************************************)
EXTENDS SpreedSignalling, FunctionTheorems, FiniteSetTheorems, TLAPS

\* Two sets follow the events: those wanted and those present.  What turns a
\* participant on and off in each.
Hearing == [on |-> {"audio", "joined"}, off |-> {"call", "out", "closed"}]
Staying == [on |-> {"audio", "call", "joined", "joinedMute"}, off |-> {"out", "closed"}]
Senses == {Hearing, Staying}

\* What the handlers make of such a set W: of one entry, of the entries of an
\* event, of the events of a queue after the first n.  After a sequence, a
\* participant is as the last entry about it says, and as before if none does.
Tells(c, e, s) == e.sid = s /\ e.kind \in c.on \cup c.off

AfterEntry(c, e, W) ==
  IF e.kind \in c.on THEN W \cup {e.sid} ELSE IF e.kind \in c.off THEN W \ {e.sid} ELSE W

Silent(c, q, s) == \A j \in DOMAIN q : ~Tells(c, q[j], s)

After(c, q, W) ==
  {s \in Sids :
     \/ s \in W /\ Silent(c, q, s)
     \/ \E j \in DOMAIN q : /\ q[j].sid = s /\ q[j].kind \in c.on
                            /\ \A k \in DOMAIN q : k > j => ~Tells(c, q[k], s)}

AfterAll(c, Q, n, W) ==
  {s \in Sids :
     \/ s \in W /\ \A i \in DOMAIN Q : i > n => Silent(c, Q[i], s)
     \/ \E i \in DOMAIN Q : /\ i > n /\ s \in After(c, Q[i], {})
                            /\ \A k \in DOMAIN Q : k > i => Silent(c, Q[k], s)}

\* The set itself, and with it those whose stay the failsafe may have ended; what
\* a set W will be when all that is under way is handled; what it is about; and
\* the sessions that the server did not tell the truth of.
Passed(s) == stay[s] = "out" /\ \E t \in Sids \ {s} : UserOf[t] = UserOf[s] /\ stay[t] # "never"
Held(c) == IF c = Hearing THEN wanted ELSE {s \in Sids : stay[s] = "in"}
Excused(c) == IF c = Hearing THEN wanted ELSE {s \in Sids : stay[s] = "in" \/ Passed(s)}
Foreseen(c, W) == AfterAll(c, inbox, 0, AfterAll(c, pending, nth, After(c, work, W)))
There(c) == {s \in Sids : place[s] \in c.on}
LostOnes == {s \in Sids : Lost(s)}

\* A task that goes on has an attempt left, and disconnect has ended it.
GoesOn ==
  /\ pc # "over" => tries < MaxTries
  /\ leaving # "no" => pc = "over"
  /\ pc \in {"pending", "loop"} => ~again

\* The first connection, as long as it holds: the server has the session that
\* the client would resume, and sends nothing before the client is in the room.
StillConnected ==
  /\ ws # "broken" /\ ~again
  /\ ws = "none" => ~kept /\ pc \in {"start", "connecting"}
  /\ resume = kept /\ (admitted \/ pc = "joining" => kept)
  /\ work # <<>> => pc \in {"pending", "loop"}
  /\ nth # 0 => pc = "pending"
  /\ pc = "loop" => pending = <<>>
  /\ pc \in {"pending", "loop"} => admitted
  /\ ~admitted => /\ inbox = <<>> /\ pending = <<>>
                  /\ wanted = {} /\ \A s \in Sids : stay[s] = "never"

\* From then on it sends everything, but that the lost ones are gone.  A set
\* grows and shrinks as the events say, but that the failsafe may take out more.
Foretold ==
  admitted => \A c \in Senses :
    /\ Foreseen(c, Held(c)) \subseteq There(c) \cup LostOnes
    /\ There(c) \subseteq Foreseen(c, Excused(c))

FirstConnection == breaks = 0 /\ pc # "over" => StillConnected /\ Foretold

\* Whoever was present is registered.
StaysKnown == \A s \in Sids : stay[s] # "never" => s \in known

TInv == SignallingTypeOK /\ GoesOn /\ StaysKnown /\ FirstConnection /\ StaysEnd

-----------------------------------------------------------------------------
(* What the handlers make of sequences.                                     *)

EntryType == [kind : Kinds, sid : Sids]

\* Of an event: what it says of s, or else what was so before.
LEMMA AfterIs ==
  ASSUME NEW c, NEW q, NEW W \in SUBSET Sids, NEW s \in Sids
  PROVE  /\ s \in After(c, q, W) <=> (s \in W /\ Silent(c, q, s)) \/ s \in After(c, q, {})
         /\ s \in After(c, q, {}) => ~Silent(c, q, s)
         /\ After(c, q, W) \in SUBSET Sids
BY DEF After, Silent, Tells

\* No event changes nothing, and an event of one entry is that entry.
LEMMA ShortAfter ==
  ASSUME NEW c, NEW W \in SUBSET Sids
  PROVE  /\ After(c, <<>>, W) = W
         /\ \A e \in EntryType : After(c, <<e>>, W) = AfterEntry(c, e, W)
<1>1. After(c, <<>>, W) = W
  BY DEF After, Silent
<1>2. ASSUME NEW e \in EntryType PROVE After(c, <<e>>, W) = AfterEntry(c, e, W)
  <2>1. DOMAIN <<e>> = {1} /\ <<e>>[1] = e
    OBVIOUS
  <2>2. e.sid \in Sids
    BY DEF EntryType
  <2>. QED  BY <2>1, <2>2 DEF After, Silent, Tells, AfterEntry
<1>. QED  BY <1>1, <1>2

LEMMA HeadEntry ==
  ASSUME NEW q \in Event, q # <<>>
  PROVE  Head(q) \in EntryType /\ Tail(q) \in Event
<1>1. Event = Seq(EntryType)
  BY DEF Event, EntryType
<1>. HIDE DEF Event, EntryType
<1>. QED  BY <1>1

\* The first entry of an event is handled first.
LEMMA HeadAfter ==
  ASSUME NEW c, NEW q \in Event, q # <<>>, NEW W \in SUBSET Sids
  PROVE  /\ Head(q) \in EntryType /\ Tail(q) \in Event
         /\ AfterEntry(c, Head(q), W) \in SUBSET Sids
         /\ After(c, q, W) = After(c, Tail(q), AfterEntry(c, Head(q), W))
<1>1. /\ Head(q) = q[1] /\ Head(q) \in EntryType /\ Tail(q) \in Event
      /\ DOMAIN q = 1..Len(q) /\ Len(q) \in Nat /\ Len(q) > 0
      /\ DOMAIN Tail(q) = 1..(Len(q) - 1)
      /\ \A j \in 1..(Len(q) - 1) : Tail(q)[j] = q[j + 1]
  <2>1. Event = Seq(EntryType)
    BY DEF Event, EntryType
  <2>. HIDE DEF Event, EntryType
  <2>. QED  BY <2>1
<1>. DEFINE V == AfterEntry(c, Head(q), W)
<1>2. V \in SUBSET Sids
  BY <1>1 DEF AfterEntry, EntryType
<1>3. ASSUME NEW s \in Sids PROVE Silent(c, q, s) <=> ~Tells(c, q[1], s) /\ Silent(c, Tail(q), s)
  <2>1. ASSUME ~Tells(c, q[1], s), Silent(c, Tail(q), s), NEW j \in DOMAIN q PROVE ~Tells(c, q[j], s)
    <3>1. CASE j = 1
      BY <2>1, <3>1
    <3>2. CASE j # 1
      <4>1. j - 1 \in DOMAIN Tail(q) /\ Tail(q)[j - 1] = q[j]
        BY <1>1, <3>2
      <4>. QED  BY <2>1, <4>1 DEF Silent
    <3>. QED  BY <3>1, <3>2
  <2>2. ASSUME Silent(c, q, s) PROVE ~Tells(c, q[1], s) /\ Silent(c, Tail(q), s)
    <3>1. 1 \in DOMAIN q /\ \A j \in DOMAIN Tail(q) : j + 1 \in DOMAIN q /\ Tail(q)[j] = q[j + 1]
      BY <1>1
    <3>. QED  BY <2>2, <3>1 DEF Silent
  <2>. QED  BY <2>1, <2>2 DEF Silent
<1>4. ASSUME NEW s \in Sids
      PROVE  s \in After(c, q, {}) <=>
               s \in After(c, Tail(q), {}) \/ (q[1].sid = s /\ q[1].kind \in c.on /\ Silent(c, Tail(q), s))
  <2>1. ASSUME s \in After(c, q, {})
        PROVE  s \in After(c, Tail(q), {}) \/ (q[1].sid = s /\ q[1].kind \in c.on /\ Silent(c, Tail(q), s))
    <3>1. PICK j \in DOMAIN q : /\ q[j].sid = s /\ q[j].kind \in c.on
                                /\ \A k \in DOMAIN q : k > j => ~Tells(c, q[k], s)
      BY <2>1 DEF After
    <3>2. \A k \in DOMAIN Tail(q) : k + 1 \in DOMAIN q /\ Tail(q)[k] = q[k + 1] /\ (k > j - 1 => k + 1 > j)
      BY <1>1
    <3>3. \A k \in DOMAIN Tail(q) : k > j - 1 => ~Tells(c, Tail(q)[k], s)
      BY <3>1, <3>2
    <3>4. CASE j = 1
      <4>1. \A k \in DOMAIN Tail(q) : k > j - 1
        BY <1>1, <3>4
      <4>. QED  BY <3>1, <3>3, <3>4, <4>1 DEF Silent
    <3>5. CASE j # 1
      <4>1. j - 1 \in DOMAIN Tail(q) /\ Tail(q)[j - 1] = q[j]
        BY <1>1, <3>5
      <4>. QED  BY <3>1, <3>3, <4>1 DEF After
    <3>. QED  BY <3>4, <3>5
  <2>2. ASSUME s \in After(c, Tail(q), {}) PROVE s \in After(c, q, {})
    <3>1. PICK j \in DOMAIN Tail(q) : /\ Tail(q)[j].sid = s /\ Tail(q)[j].kind \in c.on
                                      /\ \A k \in DOMAIN Tail(q) : k > j => ~Tells(c, Tail(q)[k], s)
      BY <2>2 DEF After
    <3>2. j + 1 \in DOMAIN q /\ q[j + 1] = Tail(q)[j]
      BY <1>1
    <3>3. ASSUME NEW k \in DOMAIN q, k > j + 1 PROVE ~Tells(c, q[k], s)
      <4>1. k - 1 \in DOMAIN Tail(q) /\ Tail(q)[k - 1] = q[k] /\ k - 1 > j
        BY <1>1, <3>3
      <4>. QED  BY <3>1, <4>1
    <3>. QED  BY <3>1, <3>2, <3>3 DEF After
  <2>3. ASSUME q[1].sid = s, q[1].kind \in c.on, Silent(c, Tail(q), s) PROVE s \in After(c, q, {})
    <3>1. ASSUME NEW k \in DOMAIN q, k > 1 PROVE ~Tells(c, q[k], s)
      <4>1. k - 1 \in DOMAIN Tail(q) /\ Tail(q)[k - 1] = q[k]
        BY <1>1, <3>1
      <4>. QED  BY <2>3, <4>1 DEF Silent
    <3>2. 1 \in DOMAIN q
      BY <1>1
    <3>. QED  BY <2>3, <3>1, <3>2 DEF After
  <2>. QED  BY <2>1, <2>2, <2>3
<1>5. ASSUME NEW s \in Sids PROVE s \in After(c, q, W) <=> s \in After(c, Tail(q), V)
  <2>1. /\ s \in After(c, q, W) <=> (s \in W /\ Silent(c, q, s)) \/ s \in After(c, q, {})
        /\ s \in After(c, Tail(q), V) <=> (s \in V /\ Silent(c, Tail(q), s)) \/ s \in After(c, Tail(q), {})
    BY <1>2, AfterIs
  <2>2. s \in V <=> (s \in W /\ ~Tells(c, q[1], s)) \/ (q[1].sid = s /\ q[1].kind \in c.on)
    BY <1>1 DEF AfterEntry, Tells
  <2>. QED  BY <1>3, <1>4, <2>1, <2>2
<1>6. After(c, q, W) \subseteq Sids /\ After(c, Tail(q), V) \subseteq Sids
  BY DEF After
<1>. QED  BY <1>1, <1>2, <1>5, <1>6

\* The events of a queue are handled in their order.
LEMMA NextAll ==
  ASSUME NEW c, NEW Q \in Seq(Event), NEW n \in Nat, n < Len(Q), NEW W \in SUBSET Sids
  PROVE  AfterAll(c, Q, n, W) = AfterAll(c, Q, n + 1, After(c, Q[n + 1], W))
<1>1. DOMAIN Q = 1..Len(Q) /\ n + 1 \in DOMAIN Q
  OBVIOUS
<1>2. ASSUME NEW s \in Sids
      PROVE  s \in AfterAll(c, Q, n, W) <=> s \in AfterAll(c, Q, n + 1, After(c, Q[n + 1], W))
  <2>. DEFINE V == After(c, Q[n + 1], W)
              rest == \A i \in DOMAIN Q : i > n + 1 => Silent(c, Q[i], s)
              later == \E i \in DOMAIN Q : /\ i > n + 1 /\ s \in After(c, Q[i], {})
                                           /\ \A k \in DOMAIN Q : k > i => Silent(c, Q[k], s)
  <2>1. V \in SUBSET Sids /\ (s \in V <=> (s \in W /\ Silent(c, Q[n + 1], s)) \/ s \in After(c, Q[n + 1], {}))
    BY AfterIs
  <2>2. s \in AfterAll(c, Q, n + 1, V) <=> (s \in V /\ rest) \/ later
    BY DEF AfterAll
  <2>3. (\A i \in DOMAIN Q : i > n => Silent(c, Q[i], s)) <=> Silent(c, Q[n + 1], s) /\ rest
    <3>1. \A i \in DOMAIN Q : i > n <=> i = n + 1 \/ i > n + 1
      BY <1>1
    <3>. QED  BY <1>1, <3>1
  <2>4. (\E i \in DOMAIN Q : /\ i > n /\ s \in After(c, Q[i], {})
                             /\ \A k \in DOMAIN Q : k > i => Silent(c, Q[k], s))
        <=> (s \in After(c, Q[n + 1], {}) /\ rest) \/ later
    <3>1. \A i \in DOMAIN Q : i > n <=> i = n + 1 \/ i > n + 1
      BY <1>1
    <3>. QED  BY <1>1, <3>1
  <2>5. s \in AfterAll(c, Q, n, W) <=> \/ s \in W /\ \A i \in DOMAIN Q : i > n => Silent(c, Q[i], s)
                                       \/ \E i \in DOMAIN Q : /\ i > n /\ s \in After(c, Q[i], {})
                                                              /\ \A k \in DOMAIN Q : k > i => Silent(c, Q[k], s)
    BY DEF AfterAll
  <2>. HIDE DEF V, rest, later
  <2>6. s \in AfterAll(c, Q, n, W) <=> s \in AfterAll(c, Q, n + 1, V)
    BY <2>1, <2>2, <2>3, <2>4, <2>5
  <2>. QED  BY <2>6 DEF V
<1>. QED  BY <1>2 DEF AfterAll

LEMMA AppendAll ==
  ASSUME NEW c, NEW Q \in Seq(Event), NEW e \in Event, NEW n \in 0..Len(Q), NEW W \in SUBSET Sids
  PROVE  AfterAll(c, Append(Q, e), n, W) = After(c, e, AfterAll(c, Q, n, W))
<1>. DEFINE P == Append(Q, e)
            m == Len(Q) + 1
<1>1. /\ DOMAIN Q = 1..Len(Q) /\ DOMAIN P = 1..m /\ P[m] = e /\ m > n /\ Len(Q) \in Nat
      /\ \A i \in DOMAIN Q : P[i] = Q[i]
  OBVIOUS
<1>. HIDE DEF P
<1>2. \A i \in DOMAIN P : i = m \/ (i \in DOMAIN Q /\ m > i)
  BY <1>1
<1>3. m \in DOMAIN P /\ \A i \in DOMAIN Q : i \in DOMAIN P
  BY <1>1
<1>4. \A i \in DOMAIN P : ~(i > m)
  BY <1>1
<1>. HIDE DEF m
<1>5. AfterAll(c, Q, n, W) \in SUBSET Sids
  BY DEF AfterAll
<1>6. ASSUME NEW s \in Sids PROVE s \in AfterAll(c, P, n, W) <=> s \in After(c, e, AfterAll(c, Q, n, W))
  <2>1. s \in After(c, e, AfterAll(c, Q, n, W)) <=> (s \in AfterAll(c, Q, n, W) /\ Silent(c, e, s)) \/ s \in After(c, e, {})
    BY <1>5, AfterIs
  <2>2. s \in After(c, e, {}) => ~Silent(c, e, s)
    BY AfterIs
  <2>3. (\A i \in DOMAIN P : i > n => Silent(c, P[i], s))
        <=> Silent(c, e, s) /\ \A i \in DOMAIN Q : i > n => Silent(c, Q[i], s)
    BY <1>1, <1>2, <1>3
  <2>4. (\E i \in DOMAIN P : /\ i > n /\ s \in After(c, P[i], {})
                             /\ \A k \in DOMAIN P : k > i => Silent(c, P[k], s))
        <=> \/ s \in After(c, e, {})
            \/ /\ Silent(c, e, s)
               /\ \E i \in DOMAIN Q : /\ i > n /\ s \in After(c, Q[i], {})
                                      /\ \A k \in DOMAIN Q : k > i => Silent(c, Q[k], s)
    BY <1>1, <1>2, <1>3, <1>4
  <2>. QED  BY <2>1, <2>2, <2>3, <2>4 DEF AfterAll
<1>7. AfterAll(c, P, n, W) = After(c, e, AfterAll(c, Q, n, W))
  BY <1>6 DEF AfterAll, After
<1>. QED  BY <1>7 DEF P

\* Nothing is left of a queue after its last event.
LEMMA NoneLeft ==
  ASSUME NEW c, NEW Q \in Seq(Event), NEW W \in SUBSET Sids
  PROVE  AfterAll(c, Q, Len(Q), W) = W
BY DEF AfterAll

LEMMA EmptyAll ==
  ASSUME NEW c, NEW W \in SUBSET Sids PROVE AfterAll(c, <<>>, 0, W) = W
BY DEF AfterAll

LEMMA AllTyped ==
  ASSUME NEW c, NEW Q, NEW n, NEW W PROVE AfterAll(c, Q, n, W) \in SUBSET Sids
BY DEF AfterAll

LEMMA HeadAll ==
  ASSUME NEW c, NEW Q \in Seq(Event), Q # <<>>, NEW W \in SUBSET Sids
  PROVE  /\ Head(Q) \in Event /\ Tail(Q) \in Seq(Event)
         /\ AfterAll(c, Q, 0, W) = AfterAll(c, Tail(Q), 0, After(c, Head(Q), W))
<1>1. /\ Head(Q) = Q[1] /\ Head(Q) \in Event /\ Tail(Q) \in Seq(Event)
      /\ DOMAIN Q = 1..Len(Q) /\ Len(Q) \in Nat /\ Len(Q) > 0
      /\ DOMAIN Tail(Q) = 1..(Len(Q) - 1)
      /\ \A j \in 1..(Len(Q) - 1) : Tail(Q)[j] = Q[j + 1]
  <2>. HIDE DEF Event
  <2>. QED  OBVIOUS
<1>. DEFINE V == After(c, Head(Q), W)
<1>2. AfterAll(c, Q, 0, W) = AfterAll(c, Q, 0 + 1, After(c, Q[0 + 1], W))
  BY <1>1, NextAll
<1>3. AfterAll(c, Q, 0, W) = AfterAll(c, Q, 1, V)
  BY <1>1, <1>2
<1>. HIDE DEF V
<1>4. \A j \in DOMAIN Tail(Q) : j + 1 \in DOMAIN Q /\ Tail(Q)[j] = Q[j + 1] /\ j + 1 > 1 /\ j > 0
  BY <1>1
<1>5. \A i \in DOMAIN Q : i > 1 => i - 1 \in DOMAIN Tail(Q) /\ Tail(Q)[i - 1] = Q[i]
  BY <1>1
<1>6. ASSUME NEW s \in Sids PROVE s \in AfterAll(c, Q, 1, V) <=> s \in AfterAll(c, Tail(Q), 0, V)
  <2>1. (\A i \in DOMAIN Q : i > 1 => Silent(c, Q[i], s)) <=> \A j \in DOMAIN Tail(Q) : j > 0 => Silent(c, Tail(Q)[j], s)
    BY <1>4, <1>5
  <2>2. ASSUME NEW i \in DOMAIN Q, i > 1, s \in After(c, Q[i], {}), \A k \in DOMAIN Q : k > i => Silent(c, Q[k], s)
        PROVE  \E j \in DOMAIN Tail(Q) : /\ j > 0 /\ s \in After(c, Tail(Q)[j], {})
                                         /\ \A k \in DOMAIN Tail(Q) : k > j => Silent(c, Tail(Q)[k], s)
    <3>1. i - 1 \in DOMAIN Tail(Q) /\ Tail(Q)[i - 1] = Q[i] /\ i - 1 > 0
      BY <1>1, <1>5, <2>2
    <3>2. \A k \in DOMAIN Tail(Q) : k > i - 1 => k + 1 > i
      BY <1>1
    <3>3. \A k \in DOMAIN Tail(Q) : k > i - 1 => Silent(c, Tail(Q)[k], s)
      BY <1>4, <2>2, <3>2
    <3>. QED  BY <2>2, <3>1, <3>3
  <2>3. ASSUME NEW j \in DOMAIN Tail(Q), s \in After(c, Tail(Q)[j], {}),
               \A k \in DOMAIN Tail(Q) : k > j => Silent(c, Tail(Q)[k], s)
        PROVE  \E i \in DOMAIN Q : /\ i > 1 /\ s \in After(c, Q[i], {})
                                   /\ \A k \in DOMAIN Q : k > i => Silent(c, Q[k], s)
    <3>1. j + 1 \in DOMAIN Q /\ Q[j + 1] = Tail(Q)[j] /\ j + 1 > 1
      BY <1>4
    <3>2. \A k \in DOMAIN Q : k > j + 1 => k > 1 /\ k - 1 > j
      BY <1>1
    <3>3. \A k \in DOMAIN Q : k > j + 1 => Silent(c, Q[k], s)
      BY <1>5, <2>3, <3>2
    <3>. QED  BY <2>3, <3>1, <3>3
  <2>. QED  BY <2>1, <2>2, <2>3 DEF AfterAll
<1>7. AfterAll(c, Q, 1, V) = AfterAll(c, Tail(Q), 0, V)
  BY <1>6 DEF AfterAll
<1>. QED  BY <1>1, <1>3, <1>7 DEF V

\* A larger set stays a larger one.
LEMMA MoreAfter ==
  ASSUME NEW c, NEW W, NEW V, W \subseteq V
  PROVE  /\ \A e : AfterEntry(c, e, W) \subseteq AfterEntry(c, e, V)
         /\ \A q : After(c, q, W) \subseteq After(c, q, V)
         /\ \A Q, n : AfterAll(c, Q, n, W) \subseteq AfterAll(c, Q, n, V)
BY DEF AfterEntry, After, AfterAll

-----------------------------------------------------------------------------
(* What the server sends.                                                   *)

\* SetToSeq lists a set: each element, once.
LEMMA Listed ==
  ASSUME NEW T, IsFiniteSet(T)
  PROVE  LET q == SetToSeq(T)
             n == Cardinality(T)
         IN /\ n \in Nat /\ q \in [1..n -> T]
            /\ \A t \in T : \E i \in 1..n : q[i] = t
            /\ \A i, j \in 1..n : q[i] = q[j] => i = j
<1>. DEFINE n == Cardinality(T)
            q == SetToSeq(T)
<1>1. n \in Nat /\ ExistsBijection(1..n, T)
  BY FS_CardinalityType
<1>2. \E f \in [1..n -> T] : IsInjective(f)
  BY <1>1 DEF ExistsBijection, Bijection, Injection
<1>3. q \in [1..n -> T] /\ IsInjective(q)
  BY <1>2 DEF SetToSeq
<1>4. IsFiniteSet(1..n) /\ Cardinality(1..n) = n
  BY <1>1, FS_Interval
<1>5. q \in Injection(1..n, T)
  BY <1>3 DEF Injection
<1>6. q \in Surjection(1..n, T)
  BY <1>4, <1>5, FS_Injection
<1>7. \A t \in T : \E i \in 1..n : q[i] = t
  BY <1>6 DEF Surjection
<1>8. \A i, j \in 1..n : q[i] = q[j] => i = j
  BY <1>3 DEF IsInjective
<1>. QED  BY <1>1, <1>3, <1>7, <1>8

\* Event e says of everybody in T, and of nobody else, what kind says.
ToldOf(e, T, kind) ==
  \A c : \A W \in SUBSET Sids :
    After(c, e, W) = {s \in Sids : \/ s \in T /\ kind[s] \in c.on
                                   \/ s \in W /\ (s \in T => kind[s] \notin c.on \cup c.off)}

LEMMA ToldIs ==
  ASSUME NEW T \in SUBSET Sids, T # {}, NEW kind, \A t \in T : kind[t] \in Kinds
  PROVE  \E e \in Event : ToldOf(e, T, kind) /\ Told(T, kind) = <<e>>
<1>. DEFINE q == SetToSeq(T)
            n == Cardinality(T)
            e == [i \in DOMAIN q |-> Entry(kind[q[i]], q[i])]
<1>1. /\ n \in Nat /\ q \in [1..n -> T]
      /\ \A t \in T : \E i \in 1..n : q[i] = t
      /\ \A i, j \in 1..n : q[i] = q[j] => i = j
  BY Listed, UserAssumption, FS_Subset
<1>2. Told(T, kind) = <<e>>
  BY DEF Told
<1>. HIDE DEF q, n
<1>3. DOMAIN e = 1..n /\ \A i \in 1..n : e[i] = [kind |-> kind[q[i]], sid |-> q[i]] /\ q[i] \in Sids
  BY <1>1 DEF Entry
<1>4. e \in [1..n -> [kind : Kinds, sid : Sids]]
  BY <1>1 DEF Entry
<1>5. e \in Event
  BY <1>1, <1>4 DEF Event
<1>. HIDE DEF e
<1>6. \A i \in 1..n : e[i].sid = q[i] /\ e[i].kind = kind[q[i]]
  BY <1>3
<1>7. ASSUME NEW c, NEW W \in SUBSET Sids, NEW s \in Sids
      PROVE  s \in After(c, e, W) <=> \/ s \in T /\ kind[s] \in c.on
                                      \/ s \in W /\ (s \in T => kind[s] \notin c.on \cup c.off)
  <2>1. CASE s \notin T
    <3>1. \A i \in 1..n : e[i].sid # s
      BY <1>1, <1>6, <2>1
    <3>. QED  BY <1>3, <2>1, <3>1 DEF After, Silent, Tells
  <2>2. CASE s \in T
    <3>1. PICK i \in 1..n : q[i] = s
      BY <1>1, <2>2
    <3>2. e[i].sid = s /\ e[i].kind = kind[s]
      BY <1>6, <3>1
    <3>3. \A j \in 1..n : e[j].sid = s => j = i
      BY <1>1, <1>6, <3>1
    <3>4. \A k \in 1..n : ~(k > k)
      OBVIOUS
    <3>5. Silent(c, e, s) <=> kind[s] \notin c.on \cup c.off
      BY <1>3, <3>2, <3>3 DEF Silent, Tells
    <3>6. s \in After(c, e, {}) <=> kind[s] \in c.on
      <4>1. \A k \in DOMAIN e : k > i => ~Tells(c, e[k], s)
        BY <1>3, <3>3, <3>4 DEF Tells
      <4>. QED  BY <1>3, <3>2, <3>3, <4>1 DEF After
    <3>7. s \in After(c, e, W) <=> (s \in W /\ Silent(c, e, s)) \/ s \in After(c, e, {})
      BY AfterIs
    <3>. QED  BY <2>2, <3>5, <3>6, <3>7
  <2>. QED  BY <2>1, <2>2
<1>8. \A c : \A W \in SUBSET Sids :
        After(c, e, W) = {s \in Sids : \/ s \in T /\ kind[s] \in c.on
                                       \/ s \in W /\ (s \in T => kind[s] \notin c.on \cup c.off)}
  BY <1>7 DEF After
<1>. QED  BY <1>2, <1>5, <1>8 DEF ToldOf

\* Of both sets: whoever has joined is told who is in the room, and then who is
\* in the call.
LEMMA ListingIs ==
  ASSUME place \in [Sids -> Places]
  PROVE  /\ Listing \in Seq(Event)
         /\ \A c \in Senses : AfterAll(c, Listing, 0, {}) = There(c)
<1>. DEFINE T == {s \in Sids : place[s] # "away"}
            U == {s \in Sids : place[s] \in InCall}
            here == [s \in Sids |-> "opened"]
<1>1. Listing = Told(T, here) \o Told(U, place)
  BY DEF Listing
<1>2. /\ T \in SUBSET Sids /\ U \in SUBSET T /\ (U # {} => T # {})
      /\ \A s \in T : here[s] = "opened"
      /\ \A s \in U : place[s] \in {"call", "audio"}
      /\ \A c \in Senses : There(c) = {s \in Sids : s \in U /\ place[s] \in c.on}
  BY DEF There, Senses, Hearing, Staying, Places, InCall
<1>3. \A s \in T : here[s] \in Kinds /\ \A c \in Senses : here[s] \notin c.on \cup c.off
  BY <1>2 DEF Kinds, Senses, Hearing, Staying
<1>4. \A s \in U : place[s] \in Kinds
  BY <1>2 DEF Kinds
<1>. HIDE DEF T, U, here, Senses
<1>5. ASSUME T # {}
      PROVE  \E e \in Event : Told(T, here) = <<e>> /\ \A c \in Senses : After(c, e, {}) = {}
  <2>1. PICK e \in Event : ToldOf(e, T, here) /\ Told(T, here) = <<e>>
    BY <1>2, <1>3, <1>5, ToldIs
  <2>2. ASSUME NEW c \in Senses PROVE After(c, e, {}) = {}
    BY <1>3, <2>1 DEF ToldOf
  <2>. QED  BY <2>1, <2>2
<1>6. ASSUME U # {}
      PROVE  \E e \in Event : Told(U, place) = <<e>> /\ \A c \in Senses : After(c, e, {}) = There(c)
  <2>1. PICK e \in Event : ToldOf(e, U, place) /\ Told(U, place) = <<e>>
    BY <1>2, <1>4, <1>6, ToldIs
  <2>2. ASSUME NEW c \in Senses PROVE After(c, e, {}) = There(c)
    <3>1. \A W \in SUBSET Sids :
            After(c, e, W) = {s \in Sids : \/ s \in U /\ place[s] \in c.on
                                           \/ s \in W /\ (s \in U => place[s] \notin c.on \cup c.off)}
      BY <2>1 DEF ToldOf
    <3>2. After(c, e, {}) = {s \in Sids : s \in U /\ place[s] \in c.on}
      BY <3>1
    <3>3. There(c) = {s \in Sids : s \in U /\ place[s] \in c.on}
      BY <1>2
    <3>. QED  BY <3>2, <3>3
  <2>. QED  BY <2>1, <2>2
<1>. HIDE DEF Event
<1>7. ASSUME NEW e \in Event, NEW c PROVE <<e>> \in Seq(Event) /\ AfterAll(c, <<e>>, 0, {}) = After(c, e, {})
  <2>1. <<>> \in Seq(Event) /\ Append(<<>>, e) = <<e>> /\ 0 \in 0..Len(<<>>)
    OBVIOUS
  <2>2. AfterAll(c, Append(<<>>, e), 0, {}) = After(c, e, AfterAll(c, <<>>, 0, {}))
    BY <2>1, AppendAll
  <2>. QED  BY <2>1, <2>2, EmptyAll
<1>8. CASE T = {}
  <2>1. Listing = <<>>
    BY <1>1, <1>2, <1>8 DEF Told
  <2>2. <<>> \in Seq(Event) /\ \A c \in Senses : AfterAll(c, <<>>, 0, {}) = {} /\ There(c) = {}
    BY <1>2, <1>8, EmptyAll
  <2>. QED  BY <2>1, <2>2
<1>9. CASE T # {} /\ U = {}
  <2>1. PICK e \in Event : Told(T, here) = <<e>> /\ \A c \in Senses : After(c, e, {}) = {}
    BY <1>5, <1>9
  <2>2. Listing = <<e>>
    BY <1>1, <1>9, <2>1 DEF Told
  <2>3. \A c \in Senses : There(c) = {}
    BY <1>2, <1>9
  <2>. QED  BY <1>7, <2>1, <2>2, <2>3
<1>10. CASE T # {} /\ U # {}
  <2>1. PICK e \in Event : Told(T, here) = <<e>> /\ \A c \in Senses : After(c, e, {}) = {}
    BY <1>5, <1>10
  <2>2. PICK f \in Event : Told(U, place) = <<f>> /\ \A c \in Senses : After(c, f, {}) = There(c)
    BY <1>6, <1>10
  <2>3. Listing = Append(<<e>>, f) /\ Listing \in Seq(Event) /\ 0 \in 0..Len(<<e>>) /\ <<e>> \in Seq(Event)
    BY <1>1, <2>1, <2>2
  <2>4. ASSUME NEW c \in Senses PROVE AfterAll(c, Listing, 0, {}) = There(c)
    <3>1. AfterAll(c, Append(<<e>>, f), 0, {}) = After(c, f, AfterAll(c, <<e>>, 0, {}))
      BY <2>3, AppendAll
    <3>. QED  BY <1>7, <2>1, <2>2, <2>3, <3>1
  <2>. QED  BY <2>3, <2>4
<1>. QED  BY <1>8, <1>9, <1>10

-----------------------------------------------------------------------------
(* What a step does to what is foreseen.                                    *)

LEMMA HeldIs ==
  /\ Held(Hearing) = wanted /\ Held(Staying) = {s \in Sids : stay[s] = "in"}
  /\ Held(Hearing)' = wanted' /\ Held(Staying)' = {s \in Sids : stay'[s] = "in"}
  /\ Excused(Hearing) = wanted /\ Excused(Staying) = {s \in Sids : stay[s] = "in" \/ Passed(s)}
  /\ Excused(Hearing)' = wanted' /\ Excused(Staying)' = {s \in Sids : stay'[s] = "in" \/ Passed(s)'}
<1>1. "call" \in Staying.on /\ "call" \notin Hearing.on
  BY DEF Hearing, Staying
<1>2. Staying # Hearing
  BY <1>1
<1>. HIDE DEF Hearing, Staying
<1>. QED  BY <1>2 DEF Held, Excused

\* The stays after an entry: what it says of its own session; of the others, the
\* failsafe of an update may end some, and nothing else is touched.
LEMMA StaysAre ==
  ASSUME SignallingTypeOK, StaysKnown, NEW e \in EntryType, Handle(e)
  PROVE  /\ stay' \in [Sids -> {"never", "in", "out"}]
         /\ e.kind \in Staying.on => stay'[e.sid] = "in"
         /\ e.kind \in Staying.off => stay'[e.sid] = IF stay[e.sid] = "in" THEN "out" ELSE stay[e.sid]
         /\ e.kind \notin Staying.on \cup Staying.off => stay'[e.sid] = stay[e.sid]
         /\ \A t \in Sids \ {e.sid} :
              \/ stay'[t] = stay[t]
              \/ stay[t] = "in" /\ stay'[t] = "out" /\ UserOf[t] = UserOf[e.sid] /\ e.kind \in Staying.on
<1>. DEFINE s == e.sid
            Others(st) == \A t \in Sids \ {s} : st[t] = stay[t]
<1>1. s \in Sids /\ e.kind \in Kinds /\ stay \in [Sids -> {"never", "in", "out"}]
  BY DEF EntryType, SignallingTypeOK
<1>2. /\ Close(s) \in [Sids -> {"never", "in", "out"}] /\ Others(Close(s))
      /\ Close(s)[s] = IF stay[s] = "in" THEN "out" ELSE stay[s]
  BY <1>1 DEF Close
<1>3. /\ Open(stay, s) \in [Sids -> {"never", "in", "out"}] /\ Others(Open(stay, s))
      /\ Open(stay, s)[s] = "in"
  BY <1>1 DEF Open
<1>4. /\ Open(Failsafe(s), s) \in [Sids -> {"never", "in", "out"}]
      /\ Open(Failsafe(s), s)[s] = "in"
      /\ \A t \in Sids \ {s} :
           \/ Open(Failsafe(s), s)[t] = stay[t]
           \/ stay[t] = "in" /\ Open(Failsafe(s), s)[t] = "out" /\ UserOf[t] = UserOf[s]
  BY <1>1 DEF Open, Failsafe
<1>. HIDE DEF s
<1>5. CASE e.kind = "opened"
  <2>1. stay' = stay
    BY <1>5 DEF Handle, TabOpened, s
  <2>. QED  BY <1>1, <1>5, <2>1 DEF Staying, s
<1>6. CASE e.kind \in {"audio", "call"}
  <2>1. stay' = Open(stay, s) \/ stay' = Open(Failsafe(s), s)
    BY <1>6 DEF Handle, Update, s
  <2>. QED  BY <1>3, <1>4, <1>6, <2>1 DEF Staying, s
<1>7. CASE e.kind \in {"joined", "joinedMute"}
  <2>1. stay' = Open(stay, s)
    BY <1>7 DEF Handle, JoinsCall, s
  <2>. QED  BY <1>3, <1>7, <2>1 DEF Staying, s
<1>8. CASE e.kind = "out" /\ s \notin known
  <2>1. stay' = stay /\ stay[s] = "never"
    BY <1>1, <1>8 DEF Handle, talkRoster, StaysKnown, s
  <2>. QED  BY <1>1, <1>8, <2>1 DEF Staying, s
<1>9. CASE e.kind \in {"out", "closed"} /\ ~(e.kind = "out" /\ s \notin known)
  <2>1. stay' = Close(s)
    BY <1>9 DEF Handle, GoesAway, s
  <2>. QED  BY <1>2, <1>9, <2>1 DEF Staying, s
<1>. QED  BY <1>1, <1>5, <1>6, <1>7, <1>8, <1>9 DEF Kinds

\* Those known and wanted after an entry.
LEMMA RosterIs ==
  ASSUME SignallingTypeOK, StaysKnown, NEW e \in EntryType, Handle(e)
  PROVE  /\ known' \in SUBSET Sids /\ wanted' \in SUBSET known' /\ known \subseteq known'
         /\ wanted' = AfterEntry(Hearing, e, wanted)
         /\ e.kind \in Staying.on => e.sid \in known'
<1>. DEFINE s == e.sid
<1>1. s \in Sids /\ e.kind \in Kinds /\ known \in SUBSET Sids /\ wanted \in SUBSET known
  BY DEF EntryType, SignallingTypeOK
<1>. HIDE DEF s
<1>2. CASE e.kind = "opened"
  <2>1. known' = known \cup {s} /\ wanted' = wanted
    BY <1>2 DEF Handle, TabOpened, s
  <2>. QED  BY <1>1, <1>2, <2>1 DEF AfterEntry, Hearing, Staying, s
<1>3. CASE e.kind \in {"audio", "call"}
  <2>1. known' = known \cup {s} /\ wanted' = IF e.kind = "audio" THEN wanted \cup {s} ELSE wanted \ {s}
    BY <1>3 DEF Handle, Update, s
  <2>. QED  BY <1>1, <1>3, <2>1 DEF AfterEntry, Hearing, Staying, s
<1>4. CASE e.kind \in {"joined", "joinedMute"}
  <2>1. known' = known \cup {s} /\ wanted' = IF e.kind = "joined" THEN wanted \cup {s} ELSE wanted
    BY <1>4 DEF Handle, JoinsCall, s
  <2>. QED  BY <1>1, <1>4, <2>1 DEF AfterEntry, Hearing, Staying, s
<1>5. CASE e.kind = "out" /\ s \notin known
  <2>1. known' = known /\ wanted' = wanted /\ s \notin wanted
    BY <1>1, <1>5 DEF Handle, talkRoster, s
  <2>. QED  BY <1>1, <1>5, <2>1 DEF AfterEntry, Hearing, Staying, s
<1>6. CASE e.kind \in {"out", "closed"} /\ ~(e.kind = "out" /\ s \notin known)
  <2>1. known' = known /\ wanted' = wanted \ {s}
    BY <1>6 DEF Handle, GoesAway, s
  <2>. QED  BY <1>1, <1>6, <2>1 DEF AfterEntry, Hearing, Staying, s
<1>. QED  BY <1>1, <1>2, <1>3, <1>4, <1>5, <1>6 DEF Kinds

\* The roster after an entry: each set is as the entry says, but for those whose
\* stay the failsafe ended, who are then excused.
LEMMA HandleIs ==
  ASSUME SignallingTypeOK, StaysKnown, NEW e \in EntryType, Handle(e)
  PROVE  /\ \A c \in Senses : /\ Held(c)' \subseteq AfterEntry(c, e, Held(c))
                              /\ AfterEntry(c, e, Excused(c)) \subseteq Excused(c)'
         /\ known' \in SUBSET Sids /\ wanted' \in SUBSET known'
         /\ stay' \in [Sids -> {"never", "in", "out"}]
         /\ \A s \in Sids : stay[s] # "never" => stay'[s] # "never"
         /\ StaysKnown'
<1>1. e.sid \in Sids /\ stay \in [Sids -> {"never", "in", "out"}]
  BY DEF EntryType, SignallingTypeOK
<1>2. \A s \in Sids : stay[s] # "never" => stay'[s] # "never"
  BY <1>1, StaysAre
<1>3. StaysKnown'
  BY <1>1, RosterIs, StaysAre DEF StaysKnown
<1>4. Held(Hearing)' = AfterEntry(Hearing, e, Held(Hearing)) /\ AfterEntry(Hearing, e, Excused(Hearing)) = Excused(Hearing)'
  BY HeldIs, RosterIs
<1>5. ASSUME NEW t \in Sids, stay'[t] = "in" PROVE t \in AfterEntry(Staying, e, Held(Staying))
  <2>1. CASE t = e.sid
    BY <1>1, <1>5, <2>1, StaysAre, HeldIs DEF AfterEntry
  <2>2. CASE t # e.sid
    <3>1. stay[t] = "in"
      BY <1>5, <2>2, StaysAre
    <3>. QED  BY <2>2, <3>1, HeldIs DEF AfterEntry
  <2>. QED  BY <2>1, <2>2
<1>6. ASSUME NEW t \in Sids, t \in AfterEntry(Staying, e, Excused(Staying)) PROVE stay'[t] = "in" \/ Passed(t)'
  <2>1. CASE t = e.sid /\ e.kind \in Staying.on
    BY <2>1, StaysAre
  <2>2. CASE ~(t = e.sid /\ e.kind \in Staying.on)
    <3>1. t \in Excused(Staying) /\ ~(t = e.sid /\ e.kind \in Staying.off)
      BY <1>6, <2>2 DEF AfterEntry
    <3>2. stay[t] = "in" \/ Passed(t)
      BY <3>1, HeldIs
    <3>3. CASE stay'[t] = stay[t]
      BY <1>2, <3>2, <3>3 DEF Passed
    <3>4. CASE stay'[t] # stay[t]
      <4>1. /\ t # e.sid /\ stay'[t] = "out" /\ UserOf[e.sid] = UserOf[t] /\ stay'[e.sid] = "in"
        BY <2>2, <3>1, <3>4, StaysAre
      <4>. QED  BY <1>1, <4>1 DEF Passed
    <3>. QED  BY <3>3, <3>4
  <2>. QED  BY <2>1, <2>2
<1>7. /\ Held(Staying)' \subseteq AfterEntry(Staying, e, Held(Staying))
      /\ AfterEntry(Staying, e, Excused(Staying)) \subseteq Excused(Staying)'
  <2>1. AfterEntry(Staying, e, Excused(Staying)) \subseteq Sids
    BY <1>1, HeldIs DEF AfterEntry
  <2>. QED  BY <1>5, <1>6, <2>1, HeldIs
<1>. QED  BY <1>2, <1>3, <1>4, <1>7, RosterIs, StaysAre DEF Senses

\* Somebody's move, and the event that tells of it.  Whoever was lost stays it,
\* unless the event sets that right.
LEMMA MoveIs ==
  ASSUME SignallingTypeOK, NEW s \in Sids, Move(s)
  PROVE  \E e \in EntryType :
           /\ place' \in [Sids -> Places] /\ past' \in [Sids -> Pasts] /\ <<e>> \in Event
           /\ inbox' = IF admitted THEN Append(inbox, <<e>>) ELSE inbox
           /\ \A c \in Senses :
                /\ There(c)' = AfterEntry(c, e, There(c))
                /\ AfterEntry(c, e, There(c) \cup LostOnes) \subseteq There(c)' \cup LostOnes'
<1>1. PICK m \in Moves(s) :
        /\ place' = [place EXCEPT ![s] = m[1]]
        /\ past' = [t \in Sids |-> PastAfter(s, m, t)]
        /\ inbox' = IF admitted THEN Append(inbox, <<Entry(m[2], s)>>) ELSE inbox
  BY DEF Move
<1>2. m[1] \in Places /\ m[2] \in Kinds
  BY DEF Moves, Kinds, Places
<1>3. ASSUME NEW c \in Senses
      PROVE  /\ m[2] \in c.on => m[1] \in c.on
             /\ m[2] \notin c.on /\ m[2] \in c.off => m[1] \notin c.on
             /\ m[2] \notin c.on \cup c.off => m[1] \notin c.on /\ place[s] \notin c.on
             /\ m[2] \notin c.on \cup c.off => m[2] \in {"opened", "joinedMute"}
  BY <1>2 DEF Moves, Senses, Hearing, Staying, Kinds
<1>. DEFINE e == Entry(m[2], s)
<1>4. e \in EntryType /\ e.kind = m[2] /\ e.sid = s
  BY <1>2 DEF Entry, EntryType
<1>5. /\ place' \in [Sids -> Places] /\ place'[s] = m[1]
      /\ \A t \in Sids : t # s => place'[t] = place[t]
  BY <1>1, <1>2 DEF SignallingTypeOK
<1>6. /\ past' \in [Sids -> Pasts]
      /\ \A t \in Sids : Lost(t) /\ (t # s \/ m[2] \in {"opened", "joinedMute"}) => Lost(t)'
  BY <1>1 DEF SignallingTypeOK, PastAfter, Pasts, Lost
<1>7. <<e>> \in Event
  BY <1>4 DEF Event, EntryType
<1>8. inbox' = IF admitted THEN Append(inbox, <<e>>) ELSE inbox
  BY <1>1
<1>. HIDE DEF e
<1>9. ASSUME NEW c \in Senses PROVE There(c)' = AfterEntry(c, e, There(c))
  BY <1>3, <1>4, <1>5 DEF There, AfterEntry
<1>10. ASSUME NEW c \in Senses PROVE AfterEntry(c, e, There(c) \cup LostOnes) \subseteq There(c)' \cup LostOnes'
  <2>. SUFFICES ASSUME NEW t \in AfterEntry(c, e, There(c) \cup LostOnes) PROVE t \in There(c)' \cup LostOnes'
    OBVIOUS
  <2>1. CASE t \in AfterEntry(c, e, There(c))
    BY <1>9, <2>1
  <2>2. CASE t \notin AfterEntry(c, e, There(c))
    <3>1. t \in Sids /\ Lost(t) /\ ~(t = s /\ m[2] \in c.on \cup c.off)
      BY <1>4, <2>2 DEF AfterEntry, LostOnes
    <3>2. Lost(t)'
      BY <1>3, <1>6, <3>1
    <3>. QED  BY <3>1, <3>2 DEF LostOnes
  <2>. QED  BY <2>1, <2>2
<1>. QED  BY <1>4, <1>5, <1>6, <1>7, <1>8, <1>9, <1>10

-----------------------------------------------------------------------------
(* Types, and who goes on.                                                  *)

\* An attempt that failed, whatever of.
LEMMA RetryKeeps ==
  ASSUME SignallingTypeOK, GoesOn, pc # "over", Retry \/ Fatal
  PROVE  /\ pc' \in {"connecting", "over"} /\ again' = again /\ work' = <<>>
         /\ tries' \in 0..MaxTries /\ (pc' # "over" => tries' < MaxTries)
BY TriesAssumption DEF SignallingTypeOK, GoesOn, Retry, Fatal

\* The server, as long as somebody looks at it.
ServerTyped ==
  /\ place \in [Sids -> Places] /\ past \in [Sids -> Pasts]
  /\ kept \in BOOLEAN /\ admitted \in BOOLEAN
  /\ inbox \in Seq(Event) /\ breaks \in 0..MaxBreaks

LEMMA ServerIs ==
  ASSUME SignallingTypeOK, Server
  PROVE  ServerTyped' /\ (pc' # "over" => UNCHANGED hpb)
<1>1. CASE pc' # "over"
  <2>1. UNCHANGED hpb
    BY <1>1 DEF Server
  <2>. QED  BY <2>1 DEF SignallingTypeOK, ServerTyped, hpb, callers
<1>2. CASE pc' = "over"
  <2>1. <<>> \in Seq(Event)
    OBVIOUS
  <2>2. inbox' \in Seq(Event) /\ kept' \in BOOLEAN /\ admitted' \in BOOLEAN
    BY <1>2, <2>1, Zenon DEF Server
  <2>. QED  BY <1>2, <2>2 DEF SignallingTypeOK, ServerTyped, Server, Places, Pasts
<1>. QED  BY <1>1, <1>2

\* The half of the invariant that does not look at events.
Basis == SignallingTypeOK /\ GoesOn /\ StaysKnown /\ StaysEnd

LEMMA JoiningBasis ==
  ASSUME Basis, Joining PROVE Basis'
<1>1. CASE Connects \/ HelloResumed \/ HelloFresh \/ RoomJoined
  <2>1. /\ UNCHANGED <<tries, pending, work, known, stay, wanted, leaving, place, past, breaks>>
        /\ pc # "over" /\ pc' \in Pcs /\ again' \in {again, FALSE} /\ resume' \in BOOLEAN
        /\ ws' \in {ws, "open"} /\ nth' \in {nth, 0} /\ kept' \in BOOLEAN /\ admitted' \in BOOLEAN
        /\ (inbox' = inbox \/ inbox' = <<>>)
        /\ pc' \in {"pending", "loop"} => ~again'
    BY <1>1 DEF Basis, SignallingTypeOK, Pcs, Connects, HelloResumed,
                HelloFresh, RoomJoined, queue, talkRoster, hpb, callers
  <2>2. inbox' \in Seq(Event) /\ nth' \in 0..Len(pending')
    <3>1. inbox \in Seq(Event) /\ pending \in Seq(Event) /\ nth \in 0..Len(pending) /\ <<>> \in Seq(Event)
      BY DEF Basis, SignallingTypeOK
    <3>. HIDE DEF Event
    <3>2. inbox' \in Seq(Event)
      BY <2>1, <3>1, Zenon
    <3>. QED  BY <2>1, <3>1, <3>2
  <2>. QED  BY <2>1, <2>2 DEF Basis, SignallingTypeOK, GoesOn, StaysKnown, StaysEnd
<1>2. CASE FetchSettings
  <2>1. /\ UNCHANGED <<again, tries, resume, ws, pending, nth, work, known, stay, wanted, leaving>>
        /\ pc # "over" /\ pc' \in {"connecting", "over"} /\ ServerTyped'
    BY <1>2, ServerIs DEF Basis, FetchSettings, queue, talkRoster
  <2>. QED  BY <2>1 DEF Basis, SignallingTypeOK, ServerTyped, GoesOn, StaysKnown, StaysEnd, Pcs
<1>3. CASE AttemptFails
  <2>1. /\ pc' \in {"connecting", "over"} /\ again' = again /\ work' = <<>>
        /\ tries' \in 0..MaxTries /\ (pc' # "over" => tries' < MaxTries)
    BY <1>3, RetryKeeps DEF Basis, AttemptFails
  <2>2. UNCHANGED <<resume, ws, pending, nth, known, stay, wanted, leaving>> /\ pc # "over" /\ ServerTyped'
    BY <1>3, ServerIs DEF Basis, AttemptFails, talkRoster
  <2>. QED  BY <2>1, <2>2 DEF Basis, SignallingTypeOK, ServerTyped, GoesOn, StaysKnown, StaysEnd, Pcs, Event
<1>. QED  BY <1>1, <1>2, <1>3 DEF Joining

LEMMA EventsBasis ==
  ASSUME Basis, QueueEvent \/ TakePending \/ TakeEvent \/ NoticeBreak \/ Dismissed PROVE Basis'
<1>1. /\ inbox \in Seq(Event) /\ pending \in Seq(Event)
      /\ nth \in 0..Len(pending) /\ work \in Event
  BY DEF Basis, SignallingTypeOK
<1>. HIDE DEF Event
<1>2. CASE QueueEvent
  <2>1. Head(inbox) \in Event /\ inbox' \in Seq(Event) /\ pending' \in Seq(Event) /\ nth' \in 0..Len(pending')
    BY <1>1, <1>2 DEF QueueEvent
  <2>. QED  BY <1>2, <2>1 DEF Basis, SignallingTypeOK, GoesOn, StaysKnown, StaysEnd, QueueEvent, talkRoster, callers
<1>3. CASE TakePending
  <2>1. /\ pending' \in Seq(Event) /\ nth' \in 0..Len(pending') /\ work' \in Event
        /\ pc' \in {"pending", "loop"}
    <3>1. CASE nth < Len(pending)
      BY <1>1, <1>3, <3>1 DEF TakePending
    <3>2. CASE ~(nth < Len(pending))
      BY <1>1, <1>3, <3>2 DEF TakePending
    <3>. QED  BY <3>1, <3>2
  <2>. QED  BY <1>3, <2>1 DEF Basis, SignallingTypeOK, GoesOn, StaysKnown, StaysEnd, Pcs, TakePending, talkRoster, hpb, callers
<1>4. CASE TakeEvent
  <2>1. inbox' \in Seq(Event) /\ work' \in Event
    BY <1>1, <1>4 DEF TakeEvent
  <2>. QED  BY <1>4, <2>1 DEF Basis, SignallingTypeOK, GoesOn, StaysKnown, StaysEnd, TakeEvent, talkRoster, callers
<1>5. CASE NoticeBreak
  BY <1>5 DEF Basis, SignallingTypeOK, GoesOn, StaysKnown, StaysEnd, Pcs, NoticeBreak, queue, talkRoster, hpb, callers
<1>6. CASE Dismissed
  <2>1. /\ UNCHANGED <<again, tries, resume, ws, pending, nth, work, known, stay, wanted, leaving>>
        /\ pc' = "over" /\ ServerTyped'
    BY <1>6, ServerIs DEF Basis, Dismissed, queue, talkRoster
  <2>. QED  BY <2>1 DEF Basis, SignallingTypeOK, ServerTyped, GoesOn, StaysKnown, StaysEnd, Pcs
<1>. QED  BY <1>2, <1>3, <1>4, <1>5, <1>6

LEMMA HandlesBasis ==
  ASSUME Basis, HandleEntry \/ HandleRaises \/ LoopRaises
  PROVE  Basis' /\ \A s \in Sids : stay[s] # "never" => stay'[s] # "never"
<1>1. SignallingTypeOK /\ GoesOn /\ StaysKnown /\ StaysEnd /\ pc \in {"pending", "loop"}
  BY DEF Basis, HandleEntry, HandleRaises, LoopRaises
<1>2. leaving = "no" /\ ~again
  BY <1>1 DEF GoesOn, SignallingTypeOK
<1>3. /\ known' \in SUBSET Sids /\ wanted' \in SUBSET known'
      /\ stay' \in [Sids -> {"never", "in", "out"}]
      /\ \A s \in Sids : stay[s] # "never" => stay'[s] # "never"
      /\ StaysKnown'
  <2>1. CASE UNCHANGED talkRoster
    BY <1>1, <2>1 DEF SignallingTypeOK, StaysKnown, talkRoster
  <2>2. CASE work # <<>> /\ Handle(Head(work))
    <3>1. Head(work) \in EntryType
      BY <1>1, <2>2, HeadEntry DEF SignallingTypeOK
    <3>. QED  BY <1>1, <2>2, <3>1, HandleIs
  <2>. QED  BY <2>1, <2>2 DEF HandleEntry, HandleRaises, LoopRaises
<1>4. /\ UNCHANGED <<resume, ws, pending, nth, leaving, again>> /\ ServerTyped'
      /\ pc' \in Pcs /\ work' \in Event /\ tries' \in 0..MaxTries
      /\ (pc' # "over" => tries' < MaxTries)
  <2>1. CASE HandleEntry
    <3>1. Tail(work) \in Event
      BY <1>1, <2>1, HeadEntry DEF HandleEntry, SignallingTypeOK
    <3>. QED  BY <1>1, <2>1, <3>1 DEF HandleEntry, SignallingTypeOK, ServerTyped, GoesOn, hpb, callers
  <2>2. CASE HandleRaises \/ LoopRaises
    <3>1. /\ pc' \in {"connecting", "over"} /\ again' = again /\ work' = <<>>
          /\ tries' \in 0..MaxTries /\ (pc' # "over" => tries' < MaxTries)
      BY <1>1, <2>2, RetryKeeps DEF HandleRaises, LoopRaises
    <3>. QED  BY <1>1, <2>2, <3>1, ServerIs DEF HandleRaises, LoopRaises, Pcs, Event
  <2>. QED  BY <2>1, <2>2
<1>5. Basis'
  BY <1>1, <1>2, <1>3, <1>4 DEF Basis, SignallingTypeOK, ServerTyped, GoesOn, StaysKnown, StaysEnd
<1>. QED  BY <1>3, <1>5

LEMMA LeavingBasis ==
  ASSUME Basis, StopTalk \/ LeftTalk PROVE Basis'
<1>1. CASE StopTalk
  <2>1. /\ UNCHANGED <<again, tries, resume, ws, pending, nth, known, wanted>>
        /\ pc' = "over" /\ work' = <<>> /\ leaving' = "closing" /\ ServerTyped'
        /\ stay' = [s \in Sids |-> IF stay[s] = "in" THEN "out" ELSE stay[s]]
    BY <1>1, ServerIs DEF Basis, StopTalk
  <2>. QED  BY <2>1 DEF Basis, SignallingTypeOK, ServerTyped, GoesOn, StaysKnown, StaysEnd, Pcs, Event
<1>2. CASE LeftTalk
  BY <1>2 DEF Basis, SignallingTypeOK, GoesOn, StaysKnown, StaysEnd, LeftTalk, queue, talkRoster, hpb, callers
<1>. QED  BY <1>1, <1>2

LEMMA ServerBasis ==
  ASSUME Basis, Admit \/ Breaks \/ Expire \/ \E s \in Sids : Move(s) \/ Vanishes(s) PROVE Basis'
<1>1. CASE Admit
  <2>1. inbox \in Seq(Event) /\ Listing \in Seq(Event)
    BY ListingIs DEF Basis, SignallingTypeOK
  <2>2. inbox' \in Seq(Event)
    BY <1>1, <2>1 DEF Admit
  <2>. QED  BY <1>1, <2>2 DEF Basis, SignallingTypeOK, GoesOn, StaysKnown, StaysEnd, Admit, queue, talkRoster, callers
<1>2. CASE Breaks
  <2>1. /\ UNCHANGED <<pc, again, tries, resume, pending, nth, work, known, stay, wanted, leaving, place,
                       kept, admitted, inbox>>
        /\ ws' = "broken" /\ breaks < MaxBreaks /\ breaks' = breaks + 1
        /\ past' = [s \in Sids |-> "told"]
    BY <1>2 DEF Breaks, queue, talkRoster
  <2>2. breaks' \in 0..MaxBreaks /\ past' \in [Sids -> Pasts]
    BY <2>1, EventsAssumption DEF Basis, SignallingTypeOK, Pasts
  <2>. QED  BY <2>1, <2>2 DEF Basis, SignallingTypeOK, GoesOn, StaysKnown, StaysEnd
<1>3. CASE Expire
  <2>1. UNCHANGED <<pc, again, tries, resume, ws, pending, nth, work, known, stay, wanted, leaving, place, past, breaks>>
    BY <1>3 DEF Expire, queue, talkRoster, callers
  <2>2. <<>> \in Seq(Event)
    OBVIOUS
  <2>3. kept' \in BOOLEAN /\ admitted' \in BOOLEAN /\ inbox' \in Seq(Event)
    BY <1>3, <2>2, Zenon DEF Expire
  <2>. QED  BY <2>1, <2>3 DEF Basis, SignallingTypeOK, GoesOn, StaysKnown, StaysEnd
<1>4. ASSUME NEW s \in Sids, Move(s) PROVE Basis'
  <2>1. PICK e \in EntryType : /\ place' \in [Sids -> Places] /\ past' \in [Sids -> Pasts] /\ <<e>> \in Event
                               /\ inbox' = IF admitted THEN Append(inbox, <<e>>) ELSE inbox
    BY <1>4, MoveIs DEF Basis
  <2>2. inbox' \in Seq(Event)
    BY <2>1 DEF Basis, SignallingTypeOK
  <2>. QED  BY <1>4, <2>1, <2>2 DEF Basis, SignallingTypeOK, GoesOn, StaysKnown, StaysEnd, Move, queue, talkRoster
<1>5. ASSUME NEW s \in Sids, Vanishes(s) PROVE Basis'
  <2>1. place' \in [Sids -> Places] /\ past' \in [Sids -> Pasts]
    BY <1>5 DEF Basis, SignallingTypeOK, Vanishes, Places, Pasts
  <2>. QED  BY <1>5, <2>1 DEF Basis, SignallingTypeOK, GoesOn, StaysKnown, StaysEnd, Vanishes, queue, talkRoster
<1>. QED  BY <1>1, <1>2, <1>3, <1>4, <1>5

-----------------------------------------------------------------------------
(* The first connection.                                                    *)

\* Foreseen in terms of its parts, which are typed.
LEMMA Parts ==
  ASSUME SignallingTypeOK
  PROVE  /\ inbox \in Seq(Event) /\ pending \in Seq(Event) /\ nth \in 0..Len(pending)
         /\ work \in Event
         /\ \A c : Held(c) \in SUBSET Sids /\ Excused(c) \in SUBSET Sids /\ There(c) \in SUBSET Sids
         /\ \A c : \A W \in SUBSET Sids :
              /\ After(c, work, W) \in SUBSET Sids /\ After(c, <<>>, W) = W
              /\ AfterAll(c, pending, nth, W) \in SUBSET Sids
              /\ Foreseen(c, W) \in SUBSET Sids
<1>1. \A c : Held(c) \in SUBSET Sids /\ Excused(c) \in SUBSET Sids /\ There(c) \in SUBSET Sids
  BY DEF Held, Excused, There, SignallingTypeOK
<1>. QED  BY <1>1, AllTyped, ShortAfter DEF SignallingTypeOK, After, Foreseen

\* What is foreseen of a larger set is larger.
LEMMA MoreForeseen ==
  ASSUME NEW c, NEW W, NEW V, W \subseteq V
  PROVE  /\ Foreseen(c, W) \subseteq Foreseen(c, V)
         /\ Foreseen(c, W)' \subseteq Foreseen(c, V)'
<1>1. ASSUME NEW q, NEW Q, NEW n, NEW R
      PROVE  AfterAll(c, R, 0, AfterAll(c, Q, n, After(c, q, W))) \subseteq AfterAll(c, R, 0, AfterAll(c, Q, n, After(c, q, V)))
  <2>1. After(c, q, W) \subseteq After(c, q, V)
    BY MoreAfter
  <2>2. AfterAll(c, Q, n, After(c, q, W)) \subseteq AfterAll(c, Q, n, After(c, q, V))
    BY <2>1, MoreAfter
  <2>. QED  BY <2>2, MoreAfter
<1>. QED  BY <1>1 DEF Foreseen

\* Foretold, of a step's two states.
ForetoldOf(c, H, X) ==
  Foreseen(c, H) \subseteq There(c) \cup LostOnes /\ There(c) \subseteq Foreseen(c, X)

LEMMA ForetoldIs ==
  /\ Foretold /\ admitted => \A c \in Senses : ForetoldOf(c, Held(c), Excused(c))
  /\ (admitted' => \A c \in Senses : \A H, X : H = Held(c)' /\ X = Excused(c)' => ForetoldOf(c, H, X)') => Foretold'
BY DEF Foretold, ForetoldOf, Foreseen

\* What a step that does not touch the roster, or the places, leaves as it is.
LEMMA SameRoster ==
  ASSUME UNCHANGED <<known, stay, wanted>>
  PROVE  \A c : Held(c)' = Held(c) /\ Excused(c)' = Excused(c)
BY DEF Held, Excused, Passed

LEMMA SamePlaces ==
  ASSUME UNCHANGED callers
  PROVE  LostOnes' = LostOnes /\ \A c : There(c)' = There(c)
BY DEF callers, There, LostOnes, Lost

\* What is foreseen goes on being so when a step only passes events on.
LEMMA PassedOn ==
  ASSUME SignallingTypeOK, Foretold, admitted, UNCHANGED <<callers, known, stay, wanted>>,
         \A c \in Senses : \A W \in SUBSET Sids : Foreseen(c, W)' = Foreseen(c, W)
  PROVE  Foretold'
<1>1. ASSUME NEW c \in Senses, NEW H, NEW X, H = Held(c)', X = Excused(c)' PROVE ForetoldOf(c, H, X)'
  <2>1. H = Held(c) /\ X = Excused(c)
    BY <1>1, SameRoster
  <2>2. H \in SUBSET Sids /\ X \in SUBSET Sids
    BY <2>1, Parts
  <2>3. ForetoldOf(c, H, X)
    BY <2>1, ForetoldIs
  <2>4. Foreseen(c, H)' = Foreseen(c, H) /\ Foreseen(c, X)' = Foreseen(c, X)
    BY <2>2
  <2>. QED  BY <2>3, <2>4, SamePlaces DEF ForetoldOf
<1>. QED  BY <1>1, ForetoldIs

LEMMA JoiningFirst ==
  ASSUME TInv, Joining PROVE FirstConnection'
<1>. SUFFICES ASSUME breaks' = 0, pc' # "over" PROVE StillConnected' /\ Foretold'
  BY DEF FirstConnection
<1>1. breaks = 0 /\ pc \notin {"pending", "loop", "over"}
  BY ServerIs DEF TInv, Joining, FetchSettings, Connects, HelloResumed, HelloFresh, RoomJoined, AttemptFails, hpb
<1>2. StillConnected /\ Foretold /\ SignallingTypeOK
  BY <1>1 DEF TInv, FirstConnection
<1>3. work = <<>> /\ nth = 0
  BY <1>1, <1>2 DEF StillConnected
<1>4. /\ UNCHANGED <<inbox, pending, nth, work, known, stay, wanted, callers, admitted>>
      /\ StillConnected'
  <2>1. CASE FetchSettings \/ Connects \/ HelloResumed
    <3>1. UNCHANGED hpb
      BY <1>2, <2>1, ServerIs DEF FetchSettings, Connects, HelloResumed
    <3>2. /\ UNCHANGED <<again, resume, pending, nth, work, known, stay, wanted, callers, kept, admitted, inbox>>
          /\ pc' \notin {"pending", "loop"}
          /\ ws' = ws \/ ws' = "open"
          /\ ws' = "none" => pc' \in {"start", "connecting"} /\ ws = "none"
          /\ pc' = "joining" => kept
      BY <1>2, <2>1, <3>1 DEF StillConnected, FetchSettings, Connects, HelloResumed, queue, talkRoster, hpb
    <3>. QED  BY <1>2, <1>3, <3>2 DEF StillConnected
  <2>2. CASE HelloFresh
    <3>1. ~admitted
      BY <1>2, <2>2 DEF StillConnected, HelloFresh
    <3>2. inbox = <<>> /\ pending = <<>> /\ wanted = {} /\ \A s \in Sids : stay[s] = "never"
      BY <1>2, <3>1 DEF StillConnected
    <3>3. UNCHANGED <<again, ws, inbox, pending, nth, work, known, stay, wanted, callers, admitted>>
      BY <1>2, <2>2, <3>1, <3>2 DEF SignallingTypeOK, HelloFresh, queue, talkRoster
    <3>. QED  BY <1>2, <1>3, <2>2, <3>2, <3>3 DEF StillConnected, HelloFresh
  <2>3. CASE RoomJoined
    <3>1. UNCHANGED <<inbox, pending, nth, work, known, stay, wanted, callers, admitted, resume, kept, ws>>
      BY <1>3, <2>3 DEF RoomJoined, talkRoster, hpb
    <3>. QED  BY <1>2, <1>3, <2>3, <3>1 DEF StillConnected, RoomJoined
  <2>4. CASE AttemptFails
    <3>1. /\ pc' = "connecting" /\ work' = <<>> /\ again' = again
          /\ UNCHANGED <<resume, ws, pending, nth, known, stay, wanted, callers, kept, admitted, inbox>>
      BY <1>2, <2>4, RetryKeeps, ServerIs DEF TInv, AttemptFails, talkRoster, hpb
    <3>. QED  BY <1>2, <1>3, <3>1 DEF StillConnected
  <2>. QED  BY <2>1, <2>2, <2>3, <2>4 DEF Joining
<1>5. CASE admitted
  <2>1. \A c : \A W : Foreseen(c, W)' = Foreseen(c, W)
    BY <1>4 DEF Foreseen
  <2>. QED  BY <1>2, <1>4, <1>5, <2>1, PassedOn
<1>. QED  BY <1>4, <1>5 DEF Foretold

\* What is queued or taken is still to be handled, and in the order it came in.
LEMMA QueuesFirst ==
  ASSUME TInv, QueueEvent PROVE FirstConnection'
<1>. SUFFICES ASSUME breaks' = 0, pc' # "over" PROVE StillConnected' /\ Foretold'
  BY DEF FirstConnection
<1>1. /\ breaks = 0 /\ pc = "joining" /\ inbox # <<>>
      /\ pending' = Append(pending, Head(inbox)) /\ inbox' = Tail(inbox)
      /\ UNCHANGED <<pc, again, resume, ws, nth, work, known, stay, wanted, callers, kept, admitted>>
  BY DEF QueueEvent, talkRoster
<1>2. StillConnected /\ Foretold /\ SignallingTypeOK
  BY <1>1 DEF TInv, FirstConnection
<1>3. admitted
  BY <1>1, <1>2 DEF StillConnected
<1>4. inbox \in Seq(Event) /\ pending \in Seq(Event) /\ nth \in 0..Len(pending) /\ Head(inbox) \in Event
  BY <1>1, <1>2, Parts, HeadAll
<1>5. StillConnected'
  BY <1>1, <1>2, <1>3 DEF StillConnected
<1>6. ASSUME NEW c \in Senses, NEW W \in SUBSET Sids PROVE Foreseen(c, W)' = Foreseen(c, W)
  <2>. DEFINE V == After(c, work, W)
  <2>1. V \in SUBSET Sids /\ AfterAll(c, pending, nth, V) \in SUBSET Sids
    BY <1>2, Parts
  <2>2. Foreseen(c, W) = AfterAll(c, inbox', 0, After(c, Head(inbox), AfterAll(c, pending, nth, V)))
    BY <1>1, <1>4, <2>1, HeadAll DEF Foreseen
  <2>3. AfterAll(c, pending', nth, V) = After(c, Head(inbox), AfterAll(c, pending, nth, V))
    BY <1>1, <1>4, <2>1, AppendAll
  <2>. QED  BY <1>1, <2>2, <2>3 DEF Foreseen
<1>. QED  BY <1>1, <1>2, <1>3, <1>5, <1>6, PassedOn

LEMMA PendingFirst ==
  ASSUME TInv, TakePending PROVE FirstConnection'
<1>. SUFFICES ASSUME breaks' = 0, pc' # "over" PROVE StillConnected' /\ Foretold'
  BY DEF FirstConnection
<1>1. /\ breaks = 0 /\ pc = "pending" /\ work = <<>>
      /\ UNCHANGED <<again, resume, ws, known, stay, wanted, callers, kept, admitted, inbox>>
  BY DEF TakePending, talkRoster, hpb
<1>2. StillConnected /\ Foretold /\ SignallingTypeOK
  BY <1>1 DEF TInv, FirstConnection
<1>3. admitted
  BY <1>1, <1>2 DEF StillConnected
<1>4. pending \in Seq(Event) /\ nth \in 0..Len(pending) /\ nth \in Nat
  BY <1>2, Parts
<1>5. \A c : \A W \in SUBSET Sids : After(c, work, W) = W
  BY <1>1, <1>2, Parts
<1>6. CASE nth < Len(pending)
  <2>1. nth' = nth + 1 /\ work' = pending[nth + 1] /\ pc' = pc /\ pending' = pending
    BY <1>6 DEF TakePending
  <2>2. StillConnected'
    BY <1>1, <1>2, <1>3, <2>1 DEF StillConnected
  <2>3. ASSUME NEW c \in Senses, NEW W \in SUBSET Sids PROVE Foreseen(c, W)' = Foreseen(c, W)
    <3>1. AfterAll(c, pending, nth, W) = AfterAll(c, pending, nth + 1, After(c, pending[nth + 1], W))
      BY <1>4, <1>6, NextAll
    <3>. QED  BY <1>1, <1>5, <2>1, <3>1 DEF Foreseen
  <2>. QED  BY <1>1, <1>2, <1>3, <2>2, <2>3, PassedOn
<1>7. CASE ~(nth < Len(pending))
  <2>1. nth' = 0 /\ work' = work /\ pc' = "loop" /\ pending' = <<>>
    BY <1>7 DEF TakePending
  <2>2. StillConnected'
    BY <1>1, <1>2, <1>3, <2>1 DEF StillConnected
  <2>3. nth = Len(pending)
    BY <1>4, <1>7
  <2>4. ASSUME NEW c \in Senses, NEW W \in SUBSET Sids PROVE Foreseen(c, W)' = Foreseen(c, W)
    <3>1. AfterAll(c, pending, nth, W) = W /\ AfterAll(c, <<>>, 0, W) = W
      BY <1>4, <2>3, NoneLeft, EmptyAll
    <3>. QED  BY <1>1, <1>5, <2>1, <3>1 DEF Foreseen
  <2>. QED  BY <1>1, <1>2, <1>3, <2>2, <2>4, PassedOn
<1>. QED  BY <1>6, <1>7

LEMMA EventFirst ==
  ASSUME TInv, TakeEvent PROVE FirstConnection'
<1>. SUFFICES ASSUME breaks' = 0, pc' # "over" PROVE StillConnected' /\ Foretold'
  BY DEF FirstConnection
<1>1. /\ breaks = 0 /\ pc = "loop" /\ work = <<>> /\ inbox # <<>>
      /\ work' = Head(inbox) /\ inbox' = Tail(inbox)
      /\ UNCHANGED <<pc, again, resume, ws, pending, nth, known, stay, wanted, callers, kept, admitted>>
  BY DEF TakeEvent, talkRoster
<1>2. StillConnected /\ Foretold /\ SignallingTypeOK
  BY <1>1 DEF TInv, FirstConnection
<1>3. admitted /\ pending = <<>> /\ nth = 0
  BY <1>1, <1>2 DEF StillConnected
<1>4. inbox \in Seq(Event) /\ Head(inbox) \in Event
  BY <1>1, <1>2, Parts, HeadAll
<1>5. StillConnected'
  BY <1>1, <1>2, <1>3 DEF StillConnected
<1>6. ASSUME NEW c \in Senses, NEW W \in SUBSET Sids PROVE Foreseen(c, W)' = Foreseen(c, W)
  <2>. DEFINE V == After(c, Head(inbox), W)
  <2>1. After(c, work, W) = W /\ V \in SUBSET Sids
    <3>1. After(c, work, W) = W
      BY <1>1, <1>2, Parts
    <3>. QED  BY <3>1 DEF After
  <2>2. AfterAll(c, pending, nth, W) = W /\ AfterAll(c, pending, nth, V) = V
    BY <1>3, <2>1, EmptyAll
  <2>3. Foreseen(c, W) = AfterAll(c, inbox', 0, V)
    BY <1>1, <1>4, <2>1, <2>2, HeadAll DEF Foreseen
  <2>4. Foreseen(c, W)' = AfterAll(c, inbox', 0, V)
    BY <1>1, <2>2 DEF Foreseen
  <2>. QED  BY <2>3, <2>4
<1>. QED  BY <1>1, <1>2, <1>3, <1>5, <1>6, PassedOn

\* The roster has then taken from the event what was foreseen of it.
LEMMA HandlesFirst ==
  ASSUME TInv, HandleEntry \/ HandleRaises \/ LoopRaises PROVE FirstConnection'
<1>. SUFFICES ASSUME breaks' = 0, pc' # "over" PROVE StillConnected' /\ Foretold'
  BY DEF FirstConnection
<1>1. ~LoopRaises
  BY DEF LoopRaises, Fatal
<1>2. SignallingTypeOK /\ StaysKnown /\ pc \in {"pending", "loop"} /\ work # <<>>
  BY <1>1 DEF TInv, HandleEntry, HandleRaises
<1>3. breaks = 0
  BY <1>1, <1>2, ServerIs DEF HandleEntry, HandleRaises, hpb
<1>4. StillConnected /\ Foretold
  BY <1>2, <1>3 DEF TInv, FirstConnection
<1>5. admitted /\ ws # "broken"
  BY <1>2, <1>4 DEF StillConnected
<1>6. /\ Handle(Head(work)) /\ work' = Tail(work)
      /\ UNCHANGED <<pc, again, resume, ws, pending, nth, callers, kept, admitted, inbox>>
  BY <1>1, <1>5 DEF HandleEntry, HandleRaises, hpb
<1>7. work \in Event /\ Head(work) \in EntryType
  BY <1>2, Parts, HeadEntry
<1>8. StillConnected'
  BY <1>2, <1>4, <1>5, <1>6 DEF StillConnected
<1>9. ASSUME NEW c \in Senses, NEW H, NEW X, H = Held(c)', X = Excused(c)' PROVE ForetoldOf(c, H, X)'
  <2>1. H \subseteq AfterEntry(c, Head(work), Held(c)) /\ AfterEntry(c, Head(work), Excused(c)) \subseteq X
    BY <1>2, <1>6, <1>7, <1>9, HandleIs
  <2>2. Held(c) \in SUBSET Sids /\ Excused(c) \in SUBSET Sids
    BY <1>2, Parts
  <2>3. Foreseen(c, H)' \subseteq Foreseen(c, Held(c)) /\ Foreseen(c, Excused(c)) \subseteq Foreseen(c, X)'
    <3>1. PICK A, B : A = AfterEntry(c, Head(work), Held(c)) /\ B = AfterEntry(c, Head(work), Excused(c))
      OBVIOUS
    <3>2. Foreseen(c, Held(c)) = Foreseen(c, A)' /\ Foreseen(c, Excused(c)) = Foreseen(c, B)'
      BY <1>2, <1>6, <1>7, <2>2, <3>1, HeadAfter DEF Foreseen
    <3>3. H \subseteq A /\ B \subseteq X
      BY <2>1, <3>1
    <3>4. Foreseen(c, H)' \subseteq Foreseen(c, A)' /\ Foreseen(c, B)' \subseteq Foreseen(c, X)'
      BY <3>3, MoreForeseen
    <3>. QED  BY <3>2, <3>4
  <2>4. ForetoldOf(c, Held(c), Excused(c))
    BY <1>4, <1>5, ForetoldIs
  <2>. QED  BY <1>6, <2>3, <2>4, SamePlaces DEF ForetoldOf
<1>. QED  BY <1>8, <1>9, ForetoldIs

\* Whoever is admitted is told of everybody.
LEMMA AdmitFirst ==
  ASSUME TInv, Admit PROVE FirstConnection'
<1>. SUFFICES ASSUME breaks' = 0, pc' # "over" PROVE StillConnected' /\ Foretold'
  BY DEF FirstConnection
<1>1. /\ breaks = 0 /\ pc = "joining" /\ ws = "open" /\ ~admitted /\ admitted'
      /\ inbox' = inbox \o Listing
      /\ UNCHANGED <<pc, again, resume, ws, pending, nth, work, known, stay, wanted, callers, kept>>
  BY DEF Admit, queue, talkRoster
<1>2. StillConnected /\ SignallingTypeOK
  BY <1>1 DEF TInv, FirstConnection
<1>3. /\ inbox = <<>> /\ pending = <<>> /\ work = <<>> /\ nth = 0
      /\ wanted = {} /\ \A s \in Sids : stay[s] = "never"
  BY <1>1, <1>2 DEF StillConnected
<1>4. StillConnected'
  BY <1>1, <1>2, <1>3 DEF StillConnected
<1>5. Listing \in Seq(Event) /\ \A c \in Senses : AfterAll(c, Listing, 0, {}) = There(c)
  BY <1>2, ListingIs DEF SignallingTypeOK
<1>6. inbox' = Listing
  <2>. HIDE DEF Event
  <2>. QED  BY <1>1, <1>3, <1>5
<1>7. ASSUME NEW c \in Senses, NEW H, NEW X, H = Held(c)', X = Excused(c)' PROVE ForetoldOf(c, H, X)'
  <2>1. Held(c) = {} /\ Excused(c) = {}
    BY <1>3 DEF Held, Excused, Passed
  <2>2. H = {} /\ X = {}
    BY <1>1, <1>7, <2>1, SameRoster
  <2>3. After(c, <<>>, {}) = {} /\ AfterAll(c, <<>>, 0, {}) = {}
    BY ShortAfter, EmptyAll
  <2>4. Foreseen(c, {})' = There(c)
    BY <1>1, <1>3, <1>5, <1>6, <2>3 DEF Foreseen
  <2>. QED  BY <1>1, <2>2, <2>4, SamePlaces DEF ForetoldOf
<1>. QED  BY <1>4, <1>7, ForetoldIs

\* The server tells whoever is in the room of every move.
LEMMA MoveFirst ==
  ASSUME TInv, NEW s \in Sids, Move(s) PROVE FirstConnection'
<1>. SUFFICES ASSUME breaks' = 0, pc' # "over" PROVE StillConnected' /\ Foretold'
  BY DEF FirstConnection
<1>1. /\ breaks = 0 /\ pc # "over"
      /\ UNCHANGED <<pc, again, resume, ws, pending, nth, work, known, stay, wanted, kept, admitted>>
  BY DEF Move, queue, talkRoster
<1>2. StillConnected /\ Foretold /\ SignallingTypeOK
  BY <1>1 DEF TInv, FirstConnection
<1>3. PICK e \in EntryType :
        /\ <<e>> \in Event
        /\ inbox' = IF admitted THEN Append(inbox, <<e>>) ELSE inbox
        /\ \A c \in Senses :
             /\ There(c)' = AfterEntry(c, e, There(c))
             /\ AfterEntry(c, e, There(c) \cup LostOnes) \subseteq There(c)' \cup LostOnes'
  BY <1>2, MoveIs
<1>4. StillConnected'
  BY <1>1, <1>2, <1>3 DEF StillConnected
<1>5. ASSUME admitted, NEW c \in Senses, NEW H, NEW X, H = Held(c)', X = Excused(c)' PROVE ForetoldOf(c, H, X)'
  <2>1. H = Held(c) /\ X = Excused(c)
    BY <1>1, <1>5, SameRoster
  <2>2. H \in SUBSET Sids /\ X \in SUBSET Sids
    BY <1>2, <2>1, Parts
  <2>3. ASSUME NEW W \in SUBSET Sids PROVE Foreseen(c, W)' = AfterEntry(c, e, Foreseen(c, W))
    <3>. DEFINE V == AfterAll(c, pending, nth, After(c, work, W))
    <3>1. V \in SUBSET Sids /\ inbox \in Seq(Event) /\ 0 \in 0..Len(inbox)
      BY <1>2, Parts
    <3>2. AfterAll(c, inbox', 0, V) = After(c, <<e>>, AfterAll(c, inbox, 0, V))
      BY <1>3, <1>5, <3>1, AppendAll
    <3>3. Foreseen(c, W)' = After(c, <<e>>, Foreseen(c, W))
      BY <1>1, <3>2 DEF Foreseen
    <3>4. Foreseen(c, W) \in SUBSET Sids
      BY <1>2, Parts
    <3>. QED  BY <3>3, <3>4, ShortAfter
  <2>4. Foreseen(c, H) \subseteq There(c) \cup LostOnes /\ There(c) \subseteq Foreseen(c, X)
    BY <1>2, <1>5, <2>1, ForetoldIs DEF ForetoldOf
  <2>5. /\ AfterEntry(c, e, Foreseen(c, H)) \subseteq AfterEntry(c, e, There(c) \cup LostOnes)
        /\ AfterEntry(c, e, There(c)) \subseteq AfterEntry(c, e, Foreseen(c, X))
    BY <2>4, MoreAfter
  <2>. QED  BY <1>3, <2>2, <2>3, <2>5 DEF ForetoldOf
<1>. QED  BY <1>1, <1>4, <1>5, ForetoldIs

\* Of whoever vanishes it tells nothing.
LEMMA VanishFirst ==
  ASSUME TInv, NEW s \in Sids, Vanishes(s) PROVE FirstConnection'
<1>. SUFFICES ASSUME breaks' = 0, pc' # "over" PROVE StillConnected' /\ Foretold'
  BY DEF FirstConnection
<1>1. /\ breaks = 0 /\ pc # "over"
      /\ place' = [place EXCEPT ![s] = "away"] /\ past' = [past EXCEPT ![s] = "lost"]
      /\ UNCHANGED <<pc, again, resume, ws, pending, nth, work, known, stay, wanted, kept, admitted, inbox>>
  BY DEF Vanishes, queue, talkRoster
<1>2. StillConnected /\ Foretold /\ SignallingTypeOK
  BY <1>1 DEF TInv, FirstConnection
<1>3. StillConnected'
  BY <1>1, <1>2 DEF StillConnected
<1>4. \A t \in Sids : /\ t # s => place'[t] = place[t] /\ past'[t] = past[t]
                      /\ place'[s] = "away" /\ past'[s] = "lost"
  BY <1>1, <1>2 DEF SignallingTypeOK
<1>5. ASSUME admitted, NEW c \in Senses, NEW H, NEW X, H = Held(c)', X = Excused(c)' PROVE ForetoldOf(c, H, X)'
  <2>1. H = Held(c) /\ X = Excused(c)
    BY <1>1, <1>5, SameRoster
  <2>2. ForetoldOf(c, H, X)
    BY <1>2, <1>5, <2>1, ForetoldIs
  <2>3. There(c)' \subseteq There(c)
    BY <1>4 DEF There, Senses, Hearing, Staying
  <2>4. There(c) \cup LostOnes \subseteq There(c)' \cup LostOnes'
    BY <1>4 DEF There, LostOnes, Lost
  <2>5. \A W : Foreseen(c, W)' = Foreseen(c, W)
    BY <1>1 DEF Foreseen
  <2>. QED  BY <2>2, <2>3, <2>4, <2>5 DEF ForetoldOf
<1>. QED  BY <1>1, <1>3, <1>5, ForetoldIs

\* A break, or an end of the session that only a break leads to, ends it.
LEMMA ServerFirst ==
  ASSUME TInv, Admit \/ Breaks \/ Expire \/ \E s \in Sids : Move(s) \/ Vanishes(s) PROVE FirstConnection'
<1>1. ASSUME Breaks PROVE FirstConnection'
  <2>1. breaks' > 0
    BY <1>1, EventsAssumption DEF TInv, SignallingTypeOK, Breaks
  <2>. QED  BY <2>1 DEF FirstConnection
<1>2. ASSUME Expire, breaks' = 0, pc' # "over" PROVE FALSE
  <2>1. StillConnected /\ ws \in {"none", "open", "broken"} /\ ws # "open" /\ kept
    BY <1>2 DEF TInv, FirstConnection, SignallingTypeOK, Expire
  <2>. QED  BY <2>1 DEF StillConnected
<1>3. Expire => FirstConnection'
  BY <1>2 DEF FirstConnection
<1>. QED  BY <1>1, <1>3, AdmitFirst, MoveFirst, VanishFirst

LEMMA LeavingFirst ==
  ASSUME TInv, StopTalk \/ LeftTalk \/ NoticeBreak \/ Dismissed PROVE FirstConnection'
<1>1. CASE StopTalk \/ Dismissed
  BY <1>1 DEF FirstConnection, StopTalk, Dismissed
<1>2. CASE LeftTalk
  BY <1>2 DEF TInv, GoesOn, FirstConnection, LeftTalk
<1>3. CASE NoticeBreak
  <2>1. ~StillConnected /\ pc # "over" /\ breaks' = breaks
    BY <1>3 DEF NoticeBreak, StillConnected, hpb
  <2>. QED  BY <2>1 DEF TInv, FirstConnection
<1>. QED  BY <1>1, <1>2, <1>3

-----------------------------------------------------------------------------
(* The invariant.                                                           *)

\* Nothing joined, at the beginning or in a capture that has none to join.
LEMMA NothingJoined ==
  ASSUME NEW p \in {"start", "over"}, NEW l \in {"no", "left"}, l = "left" => p = "over",
         TalkClient(p, l), place \in [Sids -> Places]
  PROVE  TInv
<1>1. tries \in 0..MaxTries /\ tries < MaxTries /\ breaks \in 0..MaxBreaks
  BY TriesAssumption, EventsAssumption DEF TalkClient
<1>2. pending \in Seq(Event) /\ nth \in 0..Len(pending) /\ work \in Event /\ inbox \in Seq(Event)
  BY DEF TalkClient, Event
<1>3. /\ pc = p /\ leaving = l /\ again = FALSE /\ resume = FALSE /\ ws = "none"
      /\ known = {} /\ stay = [s \in Sids |-> "never"] /\ wanted = {}
      /\ past = [s \in Sids |-> IF place[s] = "away" THEN "new" ELSE "told"]
      /\ kept = FALSE /\ admitted = FALSE /\ work = <<>> /\ nth = 0 /\ pending = <<>> /\ inbox = <<>>
  BY DEF TalkClient
<1>4. past \in [Sids -> Pasts]
  BY <1>3 DEF Pasts
<1>5. SignallingTypeOK
  BY <1>1, <1>2, <1>3, <1>4 DEF SignallingTypeOK, Pcs
<1>6. GoesOn /\ StaysEnd /\ StaysKnown
  BY <1>1, <1>3 DEF GoesOn, StaysEnd, StaysKnown
<1>7. pc # "over" => StillConnected /\ Foretold
  BY <1>3 DEF StillConnected, Foretold
<1>. QED  BY <1>5, <1>6, <1>7 DEF TInv, FirstConnection

LEMMA SignallingRests ==
  ASSUME TInv, UNCHANGED svars PROVE TInv'
<1>1. UNCHANGED <<inbox, pending, nth, work, known, stay, wanted, callers, admitted>>
  BY DEF svars, queue, talkRoster, hpb
<1>2. FirstConnection'
  <2>. SUFFICES ASSUME breaks' = 0, pc' # "over" PROVE StillConnected' /\ Foretold'
    BY DEF FirstConnection
  <2>1. StillConnected /\ Foretold /\ SignallingTypeOK
    BY DEF TInv, FirstConnection, svars, hpb
  <2>2. StillConnected'
    BY <2>1 DEF StillConnected, svars, queue, talkRoster, hpb
  <2>3. CASE admitted
    <3>1. \A c : \A W : Foreseen(c, W)' = Foreseen(c, W)
      BY <1>1 DEF Foreseen
    <3>. QED  BY <1>1, <2>1, <2>2, <2>3, <3>1, PassedOn
  <2>. QED  BY <1>1, <2>2, <2>3 DEF Foretold
<1>. QED  BY <1>2 DEF TInv, SignallingTypeOK, GoesOn, StaysKnown, StaysEnd, svars, queue, talkRoster, hpb, callers

LEMMA SignallingStep ==
  ASSUME TInv, [SignallingNext]_svars PROVE TInv'
<1>1. Basis
  BY DEF TInv, Basis
<1>2. CASE Joining
  BY <1>1, <1>2, JoiningBasis, JoiningFirst DEF TInv, Basis
<1>3. CASE QueueEvent \/ TakePending \/ TakeEvent \/ NoticeBreak \/ Dismissed
  BY <1>1, <1>3, EventsBasis, QueuesFirst, PendingFirst, EventFirst, LeavingFirst DEF TInv, Basis
<1>4. CASE HandleEntry \/ HandleRaises \/ LoopRaises
  BY <1>1, <1>4, HandlesBasis, HandlesFirst DEF TInv, Basis
<1>5. CASE StopTalk \/ LeftTalk
  BY <1>1, <1>5, LeavingBasis, LeavingFirst DEF TInv, Basis
<1>6. CASE Admit \/ Breaks \/ Expire \/ \E s \in Sids : Move(s) \/ Vanishes(s)
  BY <1>1, <1>6, ServerBasis, ServerFirst DEF TInv, Basis
<1>7. CASE TalkRests \/ UNCHANGED svars
  BY <1>7, SignallingRests DEF TalkRests
<1>. QED  BY <1>2, <1>3, <1>4, <1>5, <1>6, <1>7 DEF SignallingNext, Signalling

\* What is foreseen with nothing under way is what is held now.
LEMMA CaughtUpIs ==
  ASSUME TInv, CaughtUp, breaks = 0
  PROVE  \A c \in Senses : Held(c) \subseteq There(c) \cup LostOnes /\ There(c) \subseteq Excused(c)
<1>1. /\ SignallingTypeOK /\ StillConnected /\ Foretold
      /\ pc = "loop" /\ work = <<>> /\ pending = <<>> /\ inbox = <<>>
  BY DEF TInv, CaughtUp, FirstConnection
<1>2. nth = 0 /\ admitted
  BY <1>1 DEF StillConnected
<1>3. ASSUME NEW c \in Senses, NEW W \in SUBSET Sids PROVE Foreseen(c, W) = W
  <2>1. After(c, work, W) = W /\ AfterAll(c, <<>>, 0, W) = W
    BY <1>1, Parts, EmptyAll
  <2>. QED  BY <1>1, <1>2, <2>1 DEF Foreseen
<1>4. ASSUME NEW c \in Senses PROVE Held(c) \subseteq There(c) \cup LostOnes /\ There(c) \subseteq Excused(c)
  <2>1. Held(c) \in SUBSET Sids /\ Excused(c) \in SUBSET Sids
    BY <1>1, Parts
  <2>. QED  BY <1>1, <1>2, <1>3, <2>1, ForetoldIs DEF ForetoldOf
<1>. QED  BY <1>4

\* The places the two sets are about.
LEMMA ThereIs ==
  ASSUME SignallingTypeOK
  PROVE  /\ There(Hearing) = {s \in Sids : place[s] = "audio"}
         /\ There(Staying) = {s \in Sids : place[s] \in InCall}
BY DEF There, Hearing, Staying, SignallingTypeOK, Places, InCall

LEMMA WantedFromFirst == TInv => WantedIsTrue
<1>. SUFFICES ASSUME TInv, CaughtUp, breaks = 0
              PROVE  /\ {s \in Sids : place[s] = "audio"} \subseteq wanted
                     /\ wanted \subseteq {s \in Sids : place[s] = "audio"} \cup {s \in Sids : Lost(s)}
  BY DEF WantedIsTrue
<1>1. Held(Hearing) \subseteq There(Hearing) \cup LostOnes /\ There(Hearing) \subseteq Excused(Hearing)
  BY CaughtUpIs DEF Senses
<1>. QED  BY <1>1, ThereIs, HeldIs DEF TInv, LostOnes

LEMMA PresenceFromFirst == TInv => PresenceIsTrue
<1>. SUFFICES ASSUME TInv, CaughtUp, breaks = 0, NEW s \in Sids
              PROVE  /\ stay[s] = "in" => place[s] \in InCall \/ Lost(s)
                     /\ place[s] \in InCall => stay[s] = "in" \/ Passed(s)
  BY DEF PresenceIsTrue, Passed
<1>1. Held(Staying) \subseteq There(Staying) \cup LostOnes /\ There(Staying) \subseteq Excused(Staying)
  BY CaughtUpIs DEF Senses
<1>. QED  BY <1>1, ThereIs, HeldIs DEF TInv, LostOnes

\* No step takes a presence interval from the list: events and the end only add
\* and close.
LEMMA StaysStep ==
  ASSUME TInv, [SignallingNext]_svars
  PROVE  \A s \in Sids : stay[s] # "never" => stay'[s] # "never"
<1>1. CASE HandleEntry \/ HandleRaises \/ LoopRaises
  BY <1>1, HandlesBasis DEF TInv, Basis
<1>2. CASE StopTalk
  BY <1>2 DEF StopTalk
<1>3. CASE Joining \/ QueueEvent \/ TakePending \/ TakeEvent \/ NoticeBreak \/ Dismissed
  BY <1>3 DEF Joining, FetchSettings, Connects, HelloResumed, HelloFresh, RoomJoined, AttemptFails,
              QueueEvent, TakePending, TakeEvent, NoticeBreak, Dismissed, talkRoster
<1>4. CASE LeftTalk \/ Admit \/ Breaks \/ Expire \/ (\E s \in Sids : Move(s) \/ Vanishes(s)) \/ TalkRests \/ UNCHANGED svars
  BY <1>4 DEF LeftTalk, Admit, Breaks, Expire, Move, Vanishes, TalkRests, svars, talkRoster
<1>. QED  BY <1>1, <1>2, <1>3, <1>4 DEF SignallingNext, Signalling

-----------------------------------------------------------------------------
(* The theorems.                                                            *)

\* The invariant holds of connect_and_join, its handlers and the server.
THEOREM SignallingInvariant == SignallingSpec => []TInv
<1>1. SignallingInit => TInv
  BY NothingJoined DEF SignallingInit
<1>2. TInv /\ [SignallingNext]_svars => TInv'
  BY SignallingStep
<1>. QED  BY <1>1, <1>2, PTL DEF SignallingSpec

\* Every variable of the signalling keeps its type; in particular whoever's
\* audio is wanted is registered as a speaker.
THEOREM SignallingTypeCorrect == SignallingSpec => []SignallingTypeOK
BY SignallingInvariant, PTL DEF TInv

\* As long as the first connection holds, _want_audio has everybody in the call
\* with audio whenever what the server said is handled, and besides them only
\* sessions the server let go without a word, for any number of people and
\* whatever was queued while joining.
THEOREM WantedStaysTrue == SignallingSpec => []WantedIsTrue
BY SignallingInvariant, WantedFromFirst, PTL

\* As long as the first connection holds, whenever what the server said is
\* handled, presence intervals are open for nobody known to have gone, and for
\* everybody in the call but those whom the failsafe took for gone: they have
\* another session that came to the call, too.
THEOREM PresenceStaysTrue == SignallingSpec => []PresenceIsTrue
BY SignallingInvariant, PresenceFromFirst, PTL

\* QueuedComesFirst, which a reconnect violates, holds until a connection breaks:
\* what the first join queued is handled before anything received later.
THEOREM QueuedFirstTillBreak == SignallingSpec => [][TakeEvent /\ breaks = 0 => pending = <<>>]_svars
<1>1. TInv => (TakeEvent /\ breaks = 0 => pending = <<>>)
  BY DEF TInv, FirstConnection, StillConnected, TakeEvent
<1>. QED  BY <1>1, SignallingInvariant, PTL

\* disconnect leaves no presence interval open, and none is opened after it.
THEOREM StaysEndWithCall == SignallingSpec => []StaysEnd
BY SignallingInvariant, PTL DEF TInv

\* Whoever was present once stays on the participant list, through reconnects,
\* re-registrations and leaves.
THEOREM StaysStayKept == SignallingSpec => StaysAreKept
<1>1. TInv /\ [SignallingNext]_svars => [\A s \in Sids : stay[s] # "never" => stay'[s] # "never"]_svars
  BY StaysStep
<1>. QED  BY <1>1, SignallingInvariant, PTL DEF SignallingSpec, StaysAreKept

=============================================================================
