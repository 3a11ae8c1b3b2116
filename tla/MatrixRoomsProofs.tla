-------------------------- MODULE MatrixRoomsProofs --------------------------
(***************************************************************************)
(* A room record says what the events say, for any users, any number of    *)
(* events and any way the homeserver cuts and repeats them.                *)
(*                                                                         *)
(* Members are the senders of the first events by which somebody enters;   *)
(* for that a repeated event must repeat the sender too (Identified).      *)
(* Messages are the texts that occur for the first time; for that a batch  *)
(* must not repeat a message of an earlier one, and those of a batch must  *)
(* come in order (Numbered).  Both follow from what the homeserver does,   *)
(* and carry over from the batches to all events together.                 *)
(***************************************************************************)
EXTENDS MatrixRooms, InOrderProofs, SequenceTheorems, TLAPS

\* An id is of an event that was created, and names one event.
Known(events, n) == \A i \in DOMAIN events : events[i].id = None \/ events[i].id <= n
Identified(events) ==
    \A i, j \in DOMAIN events :
        events[i].id = events[j].id /\ events[i].id # None => events[i] = events[j]

\* The first with each id, of the events at some places.
FirstOfEachId(events, P) ==
    {k \in P : events[k].id = None \/ \A j \in P : j < k => events[j].id # events[k].id}

MessagePlaces(events) == {i \in DOMAIN events : IsMessageEvent(events[i])}
FirstMessages(events) == FirstOfEachId(events, MessagePlaces(events))

\* The messages among the events have ids, and occur for the first time in the
\* order of their creation.
Numbered(events) ==
    /\ \A i \in MessagePlaces(events) : events[i].id # None
    /\ \A i, j \in FirstMessages(events) : j < i => events[j].id < events[i].id

IInv ==
    /\ TypeOK
    /\ room = None => batches = <<>> /\ since = <<>>
    /\ Known(batches, created) /\ Identified(batches)
    /\ Occurring(since) \subseteq Occurring(batches) /\ Numbered(since)
    /\ BatchingIrrelevant

----------------------------------------------------------------------------
(* Events and what is picked of them. *)

SenderOf == [e \in Event |-> e.sender]
Senders(events) == Through(SenderOf, events)
Entering(events) == {i \in DOMAIN events : IsCreateEvent(events[i]) \/ IsJoinEvent(events[i])}

\* The places of the events by which somebody enters for the first time.
First(events) ==
    {i \in Entering(events) : \A j \in Entering(events) : j < i => events[j].sender # events[i].sender}

LEMMA EventsTyped ==
    ASSUME NEW events \in Seq(Event)
    PROVE  /\ Len(events) \in Nat /\ DOMAIN events = 1..Len(events)
           /\ \A i \in DOMAIN events : events[i] \in Event
           /\ Senders(events) \in Seq(Users) /\ Len(Senders(events)) = Len(events)
           /\ DOMAIN Senders(events) = DOMAIN events
           /\ \A i \in DOMAIN events : Senders(events)[i] = events[i].sender
  <1>1. Len(events) \in Nat /\ DOMAIN events = 1..Len(events)
    BY LenProperties
  <1>2. \A i \in DOMAIN events : events[i] \in Event
    BY <1>1, ElementOfSeq
  <1>3. SenderOf \in [Event -> Users]
    BY DEF SenderOf, Event
  <1>4. /\ Senders(events) \in Seq(Users) /\ Len(Senders(events)) = Len(events)
        /\ DOMAIN Senders(events) = DOMAIN events
    BY <1>3, ThroughTyped DEF Senders
  <1>5. \A i \in DOMAIN events : Senders(events)[i] = events[i].sender
    BY <1>2 DEF Senders, Through, SenderOf
  <1> QED BY <1>1, <1>2, <1>4, <1>5

\* Whoever enters does so for a first time.
LEMMA FirstOf ==
    ASSUME NEW events \in Seq(Event), NEW i \in Entering(events)
    PROVE  \E f \in First(events) : f <= i /\ events[f].sender = events[i].sender
  <1> DEFINE X == {j \in Entering(events) : events[j].sender = events[i].sender}
  <1>1. Entering(events) \subseteq 1..Len(events) /\ Len(events) \in Nat
    BY EventsTyped DEF Entering
  <1>2. X \subseteq 1..Len(events) /\ X # {}
    BY <1>1
  <1>3. \A j \in Entering(events) : j \in X <=> events[j].sender = events[i].sender
    OBVIOUS
  <1>4. X \subseteq Entering(events)
    OBVIOUS
  <1> HIDE DEF X
  <1>5. PICK f \in X : \A j \in X : f <= j
    BY <1>1, <1>2, Least
  <1>6. f \in Entering(events) /\ events[f].sender = events[i].sender /\ f <= i
    BY <1>3, <1>4, <1>5
  <1>7. ASSUME NEW j \in Entering(events), j < f PROVE events[j].sender # events[f].sender
    <2>1. ~(f <= j)
      BY <1>1, <1>6, <1>7
    <2> QED BY <1>3, <1>5, <1>6, <2>1
  <1> QED BY <1>6, <1>7 DEF First

LEMMA UniqueOf ==
    ASSUME NEW events \in Seq(Event), NEW P, P \subseteq DOMAIN events
    PROVE  GetUniqueEvents(Pick(events, P)) = Pick(events, FirstOfEachId(events, P))
  <1> DEFINE p == Pick(events, P)
             v == InOrder(P)
             n == Cardinality(P)
             T == FirstOfEachId(events, P)
             Q == {i \in DOMAIN p : p[i].id = None \/ \A j \in 1..(i - 1) : p[j].id # p[i].id}
  <1>1. p \in Seq(Event) /\ Len(p) = n /\ DOMAIN p = 1..n
    BY PickProperties, LenProperties
  <1>2. ASSUME NEW q \in 1..n PROVE q \in Q <=> v[q] \in T
    <2>1. /\ v[q] \in P /\ p[q] = events[v[q]]
          /\ \A j \in 1..(q - 1) : \E k \in P : k < v[q] /\ p[j] = events[k]
          /\ \A k \in P : k < v[q] => \E j \in 1..(q - 1) : p[j] = events[k]
      <3>1. PICK S : S = Event
        OBVIOUS
      <3>2. events \in Seq(S)
        BY <3>1
      <3> HIDE DEF T, Q
      <3> QED BY <3>2, EarlierPicked
    <2> HIDE DEF p, v
    <2> QED BY <1>1, <2>1 DEF FirstOfEachId
  <1>3. Q \subseteq 1..n /\ T \subseteq P
    BY <1>1 DEF FirstOfEachId
  <1>4. GetUniqueEvents(p) = Pick(p, Q)
    BY DEF GetUniqueEvents
  <1> HIDE DEF Q, T
  <1>5. Pick(Pick(events, P), Q) = Pick(events, T)
    <2>1. ChosenOf(P, Q, T)
      BY <1>2, <1>3 DEF ChosenOf
    <2> QED BY <2>1, PickOfPick
  <1> QED BY <1>4, <1>5 DEF T

\* The first with each value.
FirstOfEach(s, P) == {k \in P : \A j \in P : j < k => s[j] # s[k]}

LEMMA NoDuplicatesOf ==
    ASSUME NEW S, NEW s \in Seq(S), NEW P, P \subseteq DOMAIN s
    PROVE  RemoveDuplicates(Pick(s, P)) = Pick(s, FirstOfEach(s, P))
  <1> DEFINE p == Pick(s, P)
             v == InOrder(P)
             n == Cardinality(P)
             T == FirstOfEach(s, P)
             Q == {i \in DOMAIN p : \A j \in 1..(i - 1) : p[j] # p[i]}
  <1>1. p \in Seq(S) /\ Len(p) = n /\ DOMAIN p = 1..n
    BY PickProperties, LenProperties
  <1>2. ASSUME NEW q \in 1..n PROVE q \in Q <=> v[q] \in T
    <2>1. /\ v[q] \in P /\ p[q] = s[v[q]]
          /\ \A j \in 1..(q - 1) : \E k \in P : k < v[q] /\ p[j] = s[k]
          /\ \A k \in P : k < v[q] => \E j \in 1..(q - 1) : p[j] = s[k]
      BY EarlierPicked
    <2> HIDE DEF p, v
    <2> QED BY <1>1, <2>1 DEF FirstOfEach
  <1>3. Q \subseteq 1..n /\ T \subseteq P
    BY <1>1 DEF FirstOfEach
  <1>4. RemoveDuplicates(p) = Pick(p, Q)
    BY DEF RemoveDuplicates
  <1> HIDE DEF Q, T
  <1>5. Pick(Pick(s, P), Q) = Pick(s, T)
    <2>1. ChosenOf(P, Q, T)
      BY <1>2, <1>3 DEF ChosenOf
    <2> QED BY <2>1, PickOfPick
  <1> QED BY <1>4, <1>5 DEF T

----------------------------------------------------------------------------
(* Members: the senders of the first events by which they enter. *)

LEMMA MembersAre ==
    ASSUME NEW events \in Seq(Event), Identified(events)
    PROVE  GetMembersFromEvents(events) = Pick(Senders(events), First(events))
  <1> DEFINE P == Entering(events)
             T == FirstOfEachId(events, P)
             s == Senders(events)
  <1>1. P \subseteq DOMAIN events /\ T \subseteq P
    BY DEF Entering, FirstOfEachId
  <1>2. GetUniqueEvents(Pick(events, P)) = Pick(events, T)
    BY <1>1, UniqueOf
  <1>3. s \in Seq(Users) /\ DOMAIN s = DOMAIN events
    BY EventsTyped
  <1>4. GetMembersFromEvents(events) = RemoveDuplicates(Pick(s, T))
    <2> DEFINE u == Pick(events, T)
    <2>1. T \subseteq DOMAIN events
      BY <1>1
    <2>2. u \in Seq(Event) /\ Pick(s, T) = Through(SenderOf, u)
      BY <2>1, PickProperties, ThroughPicked DEF Senders
    <2>3. \A i \in DOMAIN u : u[i] \in Event
      BY <2>2, EventsTyped
    <2>4. Pick(s, T) = [i \in DOMAIN u |-> u[i].sender]
      BY <2>2, <2>3 DEF Through, SenderOf
    <2> QED BY <1>2, <2>4 DEF GetMembersFromEvents, Entering
  <1>5. RemoveDuplicates(Pick(s, T)) = Pick(s, FirstOfEach(s, T))
    <2>1. T \subseteq DOMAIN s
      BY <1>1, <1>3
    <2> HIDE DEF s, T
    <2> QED BY <1>3, <2>1, NoDuplicatesOf
  <1>6. \A i \in DOMAIN events : s[i] = events[i].sender
    BY EventsTyped
  <1>7. P \subseteq 1..Len(events) /\ Len(events) \in Nat
    BY <1>1, EventsTyped
  <1>8. First(events) \subseteq FirstOfEach(s, T)
    <2> SUFFICES ASSUME NEW k \in First(events) PROVE k \in FirstOfEach(s, T)
      OBVIOUS
    <2>1. k \in P /\ \A j \in P : j < k => events[j].sender # events[k].sender
      BY DEF First
    <2>2. k \in T
      <3>1. ASSUME events[k].id # None, NEW j \in P, j < k, events[j].id = events[k].id
            PROVE  FALSE
        BY <1>1, <2>1, <3>1 DEF Identified
      <3> QED BY <2>1, <3>1 DEF FirstOfEachId
    <2> QED BY <1>1, <1>6, <2>1, <2>2 DEF FirstOfEach
  <1>9. FirstOfEach(s, T) \subseteq First(events)
    <2> SUFFICES ASSUME NEW k \in T, \A j \in T : j < k => s[j] # s[k],
                        NEW j \in P, j < k, events[j].sender = events[k].sender
                 PROVE  FALSE
      BY <1>1 DEF FirstOfEach, First
    <2>1. PICK f \in First(events) : f <= j /\ events[f].sender = events[j].sender
      BY FirstOf
    <2>2. f \in T
      BY <1>8, <2>1 DEF FirstOfEach
    <2>3. f < k
      BY <1>1, <1>7, <2>1, <2>2
    <2> QED BY <1>1, <1>6, <2>1, <2>2, <2>3
  <1>10. First(events) = FirstOfEach(s, T)
    BY <1>8, <1>9
  <1> QED BY <1>4, <1>5, <1>10

\* The events of two sequences, the one after the other.
LEMMA ConcatEvents ==
    ASSUME NEW A \in Seq(Event), NEW B \in Seq(Event)
    PROVE  /\ A \o B \in Seq(Event)
           /\ \A k \in DOMAIN A : k \in DOMAIN (A \o B) /\ (A \o B)[k] = A[k]
           /\ \A k \in DOMAIN B : /\ Len(A) + k \in DOMAIN (A \o B)
                                  /\ (A \o B)[Len(A) + k] = B[k]
           /\ \A k \in DOMAIN (A \o B) :
                 \/ k \in DOMAIN A
                 \/ k - Len(A) \in DOMAIN B /\ k = Len(A) + (k - Len(A))
  <1> DEFINE C == A \o B
             a == Len(A)
             b == Len(B)
  <1>1. a \in Nat /\ b \in Nat /\ DOMAIN A = 1..a /\ DOMAIN B = 1..b
    BY LenProperties
  <1>2. /\ C \in Seq(Event) /\ Len(C) = a + b
        /\ \A i \in 1..(a + b) : C[i] = IF i <= a THEN A[i] ELSE B[i - a]
    BY ConcatProperties
  <1>3. DOMAIN C = 1..(a + b)
    BY <1>2, LenProperties
  <1> HIDE DEF C, a, b
  <1>4. ASSUME NEW k \in 1..a PROVE k \in 1..(a + b) /\ C[k] = A[k]
    BY <1>1, <1>2
  <1>5. ASSUME NEW k \in 1..b PROVE a + k \in 1..(a + b) /\ C[a + k] = B[k]
    <2>1. a + k \in 1..(a + b) /\ ~(a + k <= a) /\ (a + k) - a = k
      BY <1>1
    <2> QED BY <1>2, <2>1
  <1>6. ASSUME NEW k \in 1..(a + b) PROVE k \in 1..a \/ (k - a \in 1..b /\ k = a + (k - a))
    BY <1>1
  <1> QED BY <1>1, <1>2, <1>3, <1>4, <1>5, <1>6 DEF C, a, b

\* The members of events one batch after the other.
LEMMA MembersConcat ==
    ASSUME NEW A \in Seq(Event), NEW B \in Seq(Event), Identified(A \o B)
    PROVE  RemoveDuplicates(GetMembersFromEvents(A) \o GetMembersFromEvents(B))
             = GetMembersFromEvents(A \o B)
  <1> DEFINE C == A \o B
             a == Len(A)
             s == Senders(C)
             P == First(A) \cup Shifted(a, First(B))
  <1>10. Senders(A \o B) = Senders(A) \o Senders(B)
    <2>1. SenderOf \in [Event -> Users]
      BY DEF SenderOf, Event
    <2>2. IsConcat(Senders(A \o B), Senders(A), Senders(B))
      BY <2>1, ThroughConcat DEF Senders
    <2> QED BY <2>2 DEF IsConcat
  <1>1. /\ C \in Seq(Event) /\ s = Senders(A) \o Senders(B)
        /\ \A k \in DOMAIN A : k \in DOMAIN C /\ C[k] = A[k]
        /\ \A k \in DOMAIN B : a + k \in DOMAIN C /\ C[a + k] = B[k]
        /\ \A k \in DOMAIN C : k \in DOMAIN A \/ (k - a \in DOMAIN B /\ k = a + (k - a))
    BY <1>10, ConcatEvents
  <1>11. Identified(C)
    OBVIOUS
  <1> HIDE DEF C, s
  <1>2. /\ a \in Nat /\ DOMAIN A = 1..a
        /\ Len(B) \in Nat /\ DOMAIN B = 1..Len(B)
        /\ Senders(A) \in Seq(Users) /\ Len(Senders(A)) = a /\ DOMAIN Senders(A) = DOMAIN A
        /\ Senders(B) \in Seq(Users) /\ DOMAIN Senders(B) = DOMAIN B
    BY EventsTyped
  <1>3. s \in Seq(Users) /\ DOMAIN s = DOMAIN C
        /\ \A k \in DOMAIN C : s[k] = C[k].sender
    BY <1>1, EventsTyped DEF s
  <1> HIDE DEF a
  <1>4. Identified(A) /\ Identified(B)
    <2>1. ASSUME NEW i \in DOMAIN A, NEW j \in DOMAIN A, A[i].id = A[j].id, A[i].id # None
          PROVE  A[i] = A[j]
      BY <1>1, <1>11, <2>1 DEF Identified
    <2>2. ASSUME NEW i \in DOMAIN B, NEW j \in DOMAIN B, B[i].id = B[j].id, B[i].id # None
          PROVE  B[i] = B[j]
      <3>1. /\ a + i \in DOMAIN C /\ a + j \in DOMAIN C
            /\ C[a + i] = B[i] /\ C[a + j] = B[j]
        BY <1>1
      <3> QED BY <1>11, <2>2, <3>1 DEF Identified
    <2> QED BY <2>1, <2>2 DEF Identified
  <1>5. /\ GetMembersFromEvents(A) = Pick(Senders(A), First(A))
        /\ GetMembersFromEvents(B) = Pick(Senders(B), First(B))
        /\ GetMembersFromEvents(C) = Pick(s, First(C))
    BY <1>1, <1>4, <1>11, MembersAre DEF s
  <1>6. First(A) \subseteq Entering(A) /\ First(B) \subseteq Entering(B)
        /\ Entering(A) \subseteq DOMAIN A /\ Entering(B) \subseteq DOMAIN B
    BY DEF First, Entering
  <1>7. Pick(Senders(A), First(A)) \o Pick(Senders(B), First(B)) = Pick(s, P)
    <2>1. P = First(A) \cup Shifted(Len(Senders(A)), First(B))
      BY <1>2
    <2>2. First(A) \subseteq DOMAIN Senders(A) /\ First(B) \subseteq DOMAIN Senders(B)
      BY <1>2, <1>6
    <2> HIDE DEF P
    <2>3. IsConcat(Pick(Senders(A) \o Senders(B), P), Pick(Senders(A), First(A)),
                   Pick(Senders(B), First(B)))
      BY <1>2, <2>1, <2>2, PickConcat
    <2> QED BY <1>1, <2>3 DEF IsConcat
  <1>71. P = First(A) \cup {a + k : k \in First(B)}
    BY DEF Shifted
  <1>8. P \subseteq DOMAIN C /\ P \subseteq Entering(C)
    <2>1. \A k \in First(A) : k \in Entering(C)
      BY <1>1, <1>6 DEF Entering
    <2>2. ASSUME NEW k \in First(B) PROVE a + k \in Entering(C)
      <3>1. k \in DOMAIN B /\ k \in Entering(B)
        BY <1>6
      <3>2. a + k \in DOMAIN C /\ C[a + k] = B[k]
        BY <1>1, <3>1
      <3> QED BY <3>1, <3>2 DEF Entering
    <2>3. P \subseteq Entering(C)
      BY <1>71, <2>1, <2>2
    <2> QED BY <2>3 DEF Entering
  <1>9. DOMAIN C \subseteq Nat
    BY <1>1, EventsTyped
  <1>16. ASSUME NEW k \in Entering(C)
         PROVE  \E f \in P : f <= k /\ C[f].sender = C[k].sender /\ (k \in First(C) => f = k)
    <2>0. k \in DOMAIN C /\ (IsCreateEvent(C[k]) \/ IsJoinEvent(C[k]))
      BY DEF Entering
    <2>1. CASE k \in DOMAIN A
      <3>1. k \in Entering(A)
        BY <1>1, <2>0, <2>1 DEF Entering
      <3>2. PICK f \in First(A) : f <= k /\ A[f].sender = A[k].sender
        BY <3>1, FirstOf
      <3>3. f \in P /\ C[f].sender = C[k].sender
        BY <1>1, <1>6, <1>71, <2>1, <3>2
      <3>4. f < k \/ f = k
        BY <1>8, <1>9, <2>0, <3>2, <3>3
      <3> QED BY <1>8, <3>2, <3>3, <3>4 DEF First
    <2>2. CASE k - a \in DOMAIN B /\ k = a + (k - a)
      <3>0. PICK j : j = k - a
        OBVIOUS
      <3>1. j \in DOMAIN B /\ k = a + j /\ C[k] = B[j]
        BY <1>1, <2>2, <3>0
      <3>2. j \in Entering(B)
        BY <2>0, <3>1 DEF Entering
      <3>3. PICK f \in First(B) : f <= j /\ B[f].sender = B[j].sender
        BY <3>2, FirstOf
      <3>4. a + f \in P /\ C[a + f].sender = C[k].sender
        BY <1>1, <1>6, <1>71, <3>1, <3>3
      <3>5. f \in Nat /\ j \in Nat
        BY <1>2, <1>6, <3>1
      <3>6. a + f <= k /\ (a + f < k \/ a + f = k)
        BY <1>2, <3>1, <3>3, <3>5
      <3> QED BY <1>8, <3>4, <3>6 DEF First
    <2> QED BY <1>1, <2>0, <2>1, <2>2
  <1> HIDE DEF P
  <1>12. RemoveDuplicates(Pick(s, P)) = Pick(s, FirstOfEach(s, P))
    BY <1>3, <1>8, NoDuplicatesOf
  <1>13. First(C) \subseteq FirstOfEach(s, P)
    <2> SUFFICES ASSUME NEW k \in First(C) PROVE k \in FirstOfEach(s, P)
      OBVIOUS
    <2>1. k \in Entering(C) /\ \A j \in Entering(C) : j < k => C[j].sender # C[k].sender
      BY DEF First
    <2>2. k \in P
      BY <1>16, <2>1
    <2> QED BY <1>3, <1>8, <2>1, <2>2 DEF FirstOfEach
  <1>14. FirstOfEach(s, P) \subseteq First(C)
    <2> SUFFICES ASSUME NEW k \in P, \A j \in P : j < k => s[j] # s[k],
                        NEW j \in Entering(C), j < k, C[j].sender = C[k].sender
                 PROVE  FALSE
      BY <1>8 DEF FirstOfEach, First
    <2>1. PICK f \in P : f <= j /\ C[f].sender = C[j].sender
      BY <1>16
    <2>2. f \in Nat /\ j \in Nat /\ k \in Nat
      BY <1>8, <1>9 DEF Entering
    <2>3. f < k
      BY <2>1, <2>2
    <2> QED BY <1>3, <1>8, <2>1, <2>3
  <1>15. First(C) = FirstOfEach(s, P)
    BY <1>13, <1>14
  <1> QED BY <1>5, <1>7, <1>12, <1>15 DEF C

----------------------------------------------------------------------------
(* Messages: the text events that occur for the first time. *)

TextOf == [e \in Event |-> [sender |-> e.sender, content |-> e.id]]
Texts(events) == Through(TextOf, events)
TextPlaces(events) == {i \in FirstMessages(events) : IsTextMessageEvent(events[i])}

LEMMA PlacesIn ==
    ASSUME NEW events
    PROVE  /\ MessagePlaces(events) \subseteq DOMAIN events
           /\ FirstMessages(events) \subseteq MessagePlaces(events)
           /\ TextPlaces(events) \subseteq DOMAIN events
  BY DEF MessagePlaces, FirstMessages, FirstOfEachId, TextPlaces

LEMMA TextsTyped ==
    ASSUME NEW events \in Seq(Event)
    PROVE  /\ Texts(events) \in Seq(Message) /\ Len(Texts(events)) = Len(events)
           /\ DOMAIN Texts(events) = DOMAIN events
           /\ \A i \in DOMAIN events :
                 Texts(events)[i] = [sender |-> events[i].sender, content |-> events[i].id]
  <1>1. TextOf \in [Event -> Message]
    BY DEF TextOf, Event, Message
  <1>2. /\ Texts(events) \in Seq(Message) /\ Len(Texts(events)) = Len(events)
        /\ DOMAIN Texts(events) = DOMAIN events
    BY <1>1, ThroughTyped DEF Texts
  <1>3. \A i \in DOMAIN events : events[i] \in Event
    BY EventsTyped
  <1>4. \A i \in DOMAIN events :
           Texts(events)[i] = [sender |-> events[i].sender, content |-> events[i].id]
    BY <1>3 DEF Texts, Through, TextOf
  <1> QED BY <1>2, <1>4

LEMMA MessagesAre ==
    ASSUME NEW events \in Seq(Event)
    PROVE  GetMessagesFromEvents(events) = Pick(Texts(events), TextPlaces(events))
  <1> DEFINE M == MessagePlaces(events)
             P == FirstMessages(events)
             T == TextPlaces(events)
             p == Pick(events, P)
             v == InOrder(P)
             Q == {i \in DOMAIN p : IsTextMessageEvent(p[i])}
  <1>1. M \subseteq DOMAIN events /\ P \subseteq DOMAIN events /\ T \subseteq P
    BY PlacesIn DEF TextPlaces
  <1>4. UniqueMessageEvents(events) = p
    <2>1. GetUniqueEvents(Pick(events, M)) = Pick(events, FirstOfEachId(events, M))
      BY <1>1, UniqueOf
    <2> QED BY <2>1 DEF UniqueMessageEvents, MessagePlaces, FirstMessages
  <1>5. /\ p \in Seq(Event) /\ DOMAIN p = 1..Cardinality(P)
        /\ v \in [1..Cardinality(P) -> P]
        /\ \A i \in 1..Cardinality(P) : p[i] = events[v[i]]
    <2> HIDE DEF P
    <2> QED BY <1>1, PickProperties, LenProperties
  <1>6. ChosenOf(P, Q, T)
    <2>1. ASSUME NEW q \in 1..Cardinality(P) PROVE q \in Q <=> v[q] \in T
      <3>1. v[q] \in P /\ p[q] = events[v[q]]
        BY <1>5
      <3> QED BY <1>5, <3>1 DEF TextPlaces
    <2>2. Q \subseteq 1..Cardinality(P)
      BY <1>5
    <2> QED BY <1>1, <2>1, <2>2 DEF ChosenOf
  <1> HIDE DEF T, P, Q, M
  <1>7. Pick(Pick(events, P), Q) = Pick(events, T)
    BY <1>1, <1>6, PickOfPick
  <1> DEFINE u == Pick(events, T)
  <1>8. T \subseteq DOMAIN events
    BY <1>1
  <1>9. u \in Seq(Event) /\ Pick(Texts(events), T) = Through(TextOf, u)
    BY <1>8, PickProperties, ThroughPicked DEF Texts
  <1>10. \A i \in DOMAIN u : u[i] \in Event
    BY <1>9, EventsTyped
  <1>11. Pick(Texts(events), T) = [i \in DOMAIN u |-> [sender |-> u[i].sender, content |-> u[i].id]]
    BY <1>9, <1>10 DEF Through, TextOf
  <1>12. GetMessagesFromEvents(events)
           = [i \in DOMAIN u |-> [sender |-> u[i].sender, content |-> u[i].id]]
    BY <1>4, <1>7 DEF GetMessagesFromEvents, Q
  <1> QED BY <1>11, <1>12 DEF T

\* Whatever message occurs does so for a first time.
LEMMA FirstMessageOf ==
    ASSUME NEW events \in Seq(Event), NEW i \in MessagePlaces(events)
    PROVE  \E f \in FirstMessages(events) : events[f].id = events[i].id
  <1> DEFINE X == {j \in MessagePlaces(events) : events[j].id = events[i].id}
  <1>1. MessagePlaces(events) \subseteq 1..Len(events) /\ Len(events) \in Nat
    BY EventsTyped, PlacesIn
  <1>2. X \subseteq 1..Len(events) /\ X # {}
    BY <1>1
  <1>3. \A j \in MessagePlaces(events) : j \in X <=> events[j].id = events[i].id
    OBVIOUS
  <1>4. X \subseteq MessagePlaces(events)
    OBVIOUS
  <1> HIDE DEF X
  <1>5. PICK f \in X : \A j \in X : f <= j
    BY <1>1, <1>2, Least
  <1>6. f \in MessagePlaces(events) /\ events[f].id = events[i].id
    BY <1>3, <1>4, <1>5
  <1>7. ASSUME NEW j \in MessagePlaces(events), j < f PROVE events[j].id # events[f].id
    <2>1. ~(f <= j)
      BY <1>1, <1>6, <1>7
    <2> QED BY <1>3, <1>5, <1>6, <2>1
  <1> QED BY <1>6, <1>7 DEF FirstMessages, FirstOfEachId

\* The messages of the one are older than those of the other.
Older(A, B) ==
    \A i \in MessagePlaces(A), j \in MessagePlaces(B) :
        A[i].id # B[j].id /\ A[i].id < B[j].id

LEMMA FirstConcat ==
    ASSUME NEW A \in Seq(Event), NEW B \in Seq(Event), Older(A, B)
    PROVE  /\ FirstMessages(A \o B) = FirstMessages(A) \cup Shifted(Len(A), FirstMessages(B))
           /\ TextPlaces(A \o B) = TextPlaces(A) \cup Shifted(Len(A), TextPlaces(B))
  <1> DEFINE C == A \o B
             a == Len(A)
  <1>1. /\ C \in Seq(Event)
        /\ \A k \in DOMAIN A : k \in DOMAIN C /\ C[k] = A[k]
        /\ \A k \in DOMAIN B : a + k \in DOMAIN C /\ C[a + k] = B[k]
        /\ \A k \in DOMAIN C : k \in DOMAIN A \/ (k - a \in DOMAIN B /\ k = a + (k - a))
    BY ConcatEvents
  <1>2. /\ a \in Nat /\ DOMAIN A = 1..a
        /\ Len(B) \in Nat /\ DOMAIN B = 1..Len(B)
    BY EventsTyped
  <1> HIDE DEF C, a
  <1>3. \A k \in DOMAIN C :
           \/ k \in DOMAIN A /\ C[k] = A[k]
           \/ \E j \in DOMAIN B : k = a + j /\ C[k] = B[j]
    <2> SUFFICES ASSUME NEW k \in DOMAIN C, k - a \in DOMAIN B, k = a + (k - a)
                 PROVE  \E j \in DOMAIN B : k = a + j /\ C[k] = B[j]
      BY <1>1
    <2>1. PICK j : j = k - a
      OBVIOUS
    <2> QED BY <1>1, <2>1
  <1>4. ASSUME NEW k \in MessagePlaces(C)
        PROVE  \/ k \in MessagePlaces(A) /\ k \in DOMAIN A
               \/ \E j \in MessagePlaces(B) : k = a + j
    BY <1>3 DEF MessagePlaces
  <1>5. ASSUME NEW k \in MessagePlaces(A) PROVE k \in MessagePlaces(C) /\ C[k] = A[k] /\ k \in 1..a
    BY <1>1, <1>2 DEF MessagePlaces
  <1>6. ASSUME NEW k \in MessagePlaces(B)
        PROVE  a + k \in MessagePlaces(C) /\ C[a + k] = B[k] /\ k \in Nat \ {0}
    BY <1>1, <1>2 DEF MessagePlaces
  <1>7. ASSUME NEW k \in MessagePlaces(A) PROVE k \in FirstMessages(C) <=> k \in FirstMessages(A)
    <2>1. ASSUME NEW j \in MessagePlaces(C), j < k PROVE j \in MessagePlaces(A) /\ C[j] = A[j]
      <3>1. ASSUME NEW l \in MessagePlaces(B), j = a + l PROVE FALSE
        BY <1>2, <1>5, <1>6, <2>1, <3>1
      <3> QED BY <1>4, <1>5, <3>1
    <2> QED BY <1>5, <2>1 DEF FirstMessages, FirstOfEachId
  <1>8. ASSUME NEW k \in MessagePlaces(B) PROVE a + k \in FirstMessages(C) <=> k \in FirstMessages(B)
    <2>1. ASSUME NEW j \in MessagePlaces(B) PROVE a + j < a + k <=> j < k
      BY <1>2, <1>6
    <2>2. ASSUME NEW j \in MessagePlaces(C)
          PROVE  \/ C[j].id # C[a + k].id
                 \/ \E l \in MessagePlaces(B) : j = a + l /\ C[j] = B[l]
      BY <1>4, <1>5, <1>6 DEF Older
    <2>3. ASSUME k \in FirstMessages(B) PROVE a + k \in FirstMessages(C)
      <3>1. ASSUME NEW j \in MessagePlaces(C), j < a + k, C[j].id = C[a + k].id
            PROVE  C[a + k].id = None
        <4>1. PICK l \in MessagePlaces(B) : j = a + l /\ C[j] = B[l]
          BY <2>2, <3>1
        <4> QED BY <1>6, <2>1, <2>3, <3>1, <4>1 DEF FirstMessages, FirstOfEachId
      <3> QED BY <1>6, <3>1 DEF FirstMessages, FirstOfEachId
    <2>4. ASSUME a + k \in FirstMessages(C) PROVE k \in FirstMessages(B)
      <3>1. ASSUME NEW j \in MessagePlaces(B), j < k, B[j].id = B[k].id
            PROVE  B[k].id = None
        BY <1>6, <2>1, <2>4, <3>1 DEF FirstMessages, FirstOfEachId
      <3> QED BY <3>1 DEF FirstMessages, FirstOfEachId
    <2> QED BY <2>3, <2>4
  <1>9. ASSUME NEW k \in FirstMessages(C)
        PROVE  \/ k \in FirstMessages(A) /\ C[k] = A[k]
               \/ \E j \in FirstMessages(B) : k = a + j /\ C[k] = B[j]
    <2>1. k \in MessagePlaces(C)
      BY PlacesIn
    <2>2. CASE k \in MessagePlaces(A)
      BY <1>5, <1>7, <1>9, <2>2
    <2>3. ASSUME NEW j \in MessagePlaces(B), k = a + j PROVE \E i \in FirstMessages(B) : k = a + i /\ C[k] = B[i]
      BY <1>6, <1>8, <1>9, <2>3
    <2> QED BY <1>4, <2>1, <2>2, <2>3
  <1>10. ASSUME NEW k \in FirstMessages(A) PROVE k \in FirstMessages(C) /\ C[k] = A[k]
    BY <1>5, <1>7, PlacesIn
  <1>11. ASSUME NEW k \in FirstMessages(B) PROVE a + k \in FirstMessages(C) /\ C[a + k] = B[k]
    BY <1>6, <1>8, PlacesIn
  <1>12. FirstMessages(C) = FirstMessages(A) \cup Shifted(a, FirstMessages(B))
    BY <1>9, <1>10, <1>11 DEF Shifted
  <1>13. TextPlaces(C) = TextPlaces(A) \cup Shifted(a, TextPlaces(B))
    BY <1>9, <1>10, <1>11 DEF Shifted, TextPlaces
  <1> QED BY <1>12, <1>13 DEF C, a

LEMMA MessagesConcat ==
    ASSUME NEW A \in Seq(Event), NEW B \in Seq(Event), Older(A, B)
    PROVE  GetMessagesFromEvents(A \o B)
             = GetMessagesFromEvents(A) \o GetMessagesFromEvents(B)
  <1> DEFINE C == A \o B
             a == Len(A)
  <1>1. C \in Seq(Event)
    BY ConcatEvents
  <1>4. TextOf \in [Event -> Message]
    BY DEF TextOf, Event, Message
  <1>5. IsConcat(Texts(C), Texts(A), Texts(B))
    BY <1>4, ThroughConcat DEF Texts
  <1>8. TextPlaces(C) = TextPlaces(A) \cup Shifted(a, TextPlaces(B))
    BY FirstConcat
  <1> HIDE DEF C, a
  <1>9. /\ GetMessagesFromEvents(A) = Pick(Texts(A), TextPlaces(A))
        /\ GetMessagesFromEvents(B) = Pick(Texts(B), TextPlaces(B))
        /\ GetMessagesFromEvents(C) = Pick(Texts(C), TextPlaces(C))
    BY <1>1, MessagesAre
  <1>10. IsConcat(Pick(Texts(A) \o Texts(B), TextPlaces(A) \cup Shifted(Len(Texts(A)), TextPlaces(B))),
                  Pick(Texts(A), TextPlaces(A)), Pick(Texts(B), TextPlaces(B)))
    <2>1. /\ Texts(A) \in Seq(Message) /\ TextPlaces(A) \subseteq DOMAIN Texts(A)
          /\ Texts(B) \in Seq(Message) /\ TextPlaces(B) \subseteq DOMAIN Texts(B)
      BY TextsTyped, PlacesIn
    <2> QED BY <2>1, PickConcat
  <1>11. Len(Texts(A)) = a
    BY TextsTyped DEF a
  <1> QED BY <1>5, <1>8, <1>9, <1>10, <1>11 DEF IsConcat, C

\* Events none of which is a message.
LEMMA NoMessages ==
    ASSUME NEW events \in Seq(Event), MessagePlaces(events) = {}
    PROVE  Numbered(events) /\ GetMessagesFromEvents(events) = <<>>
  <1>1. FirstMessages(events) = {} /\ TextPlaces(events) = {}
    BY PlacesIn DEF TextPlaces
  <1>2. Numbered(events)
    BY <1>1 DEF Numbered
  <1> QED BY <1>1, <1>2, MessagesAre, PickNone

----------------------------------------------------------------------------
(* Types. *)

LEMMA MembersTyped ==
    ASSUME NEW events \in Seq(Event), Identified(events)
    PROVE  GetMembersFromEvents(events) \in Seq(Users)
  <1>1. First(events) \subseteq DOMAIN Senders(events) /\ Senders(events) \in Seq(Users)
    BY EventsTyped DEF First, Entering
  <1>2. Pick(Senders(events), First(events)) \in Seq(Users)
    BY <1>1, PickProperties
  <1> QED BY <1>2, MembersAre

LEMMA MessagesTyped ==
    ASSUME NEW events \in Seq(Event)
    PROVE  GetMessagesFromEvents(events) \in Seq(Message)
  <1>1. TextPlaces(events) \subseteq DOMAIN Texts(events) /\ Texts(events) \in Seq(Message)
    BY TextsTyped, PlacesIn
  <1>2. Pick(Texts(events), TextPlaces(events)) \in Seq(Message)
    BY <1>1, PickProperties
  <1> QED BY <1>2, MessagesAre

----------------------------------------------------------------------------
(* What a batch adds. *)

\* A batch's events are n new ones and earlier ones, and its messages are new.
Batch(section, events, new, n) ==
    /\ n \in 1..(MaxEvents - created)
    /\ new \in [1..n -> Event]
    /\ \A k \in 1..n :
          /\ new[k].id \in {created + k, None}
          /\ IsMessageEvent(new[k]) => new[k].id = created + k /\ section # "invited"
    /\ events \in Seq(Event) /\ Numbered(events)
    /\ \A i \in DOMAIN events : \/ \E k \in 1..n : events[i] = new[k]
                                \/ events[i] \in Occurring(batches) /\ ~IsMessageEvent(events[i])

LEMMA NewEventsAre ==
    ASSUME TypeOK, NEW section \in Sections, NEW n \in 1..(MaxEvents - created),
           NEW new \in NewEvents(section, n)
    PROVE  /\ new \in [1..n -> Event] /\ new \in Seq(Event) /\ Len(new) = n
           /\ \A k \in 1..n :
                 /\ new[k].id \in {created + k, None}
                 /\ IsMessageEvent(new[k]) => new[k].id = created + k /\ section # "invited"
  <1>0. created \in Nat /\ MaxEvents \in Nat /\ n \in Nat
    BY RoomsAssumption DEF TypeOK
  <1>1. PICK shown \in [1..n -> [type : IF section = "invited" THEN Types \ {"text", "image"}
                                                               ELSE Types,
                                 sender : Users, named : {TRUE, section # "invited"}]] :
           new = [i \in 1..n |-> [type |-> shown[i].type, sender |-> shown[i].sender,
                                  id |-> IF shown[i].named THEN created + i ELSE None]]
    BY DEF NewEvents
  <1>2. ASSUME NEW k \in 1..n
        PROVE  /\ new[k] \in Event
               /\ new[k].id \in {created + k, None}
               /\ IsMessageEvent(new[k]) => new[k].id = created + k /\ section # "invited"
    <2>1. /\ shown[k].type \in Types /\ shown[k].sender \in Users
          /\ section = "invited" => shown[k].type \notin {"text", "image"}
          /\ shown[k].named = TRUE \/ section = "invited"
      BY <1>1
    <2>2. new[k] = [type |-> shown[k].type, sender |-> shown[k].sender,
                    id |-> IF shown[k].named THEN created + k ELSE None]
      BY <1>1
    <2>3. created + k \in 1..MaxEvents
      BY <1>0
    <2>4. new[k].id \in {created + k, None} /\ (section # "invited" => new[k].id = created + k)
          /\ new[k].type = shown[k].type
      BY <2>1, <2>2
    <2>5. new[k] \in Event
      BY <2>1, <2>2, <2>3 DEF Event
    <2> QED BY <2>1, <2>4, <2>5 DEF IsMessageEvent
  <1>3. new \in [1..n -> Event]
    BY <1>1, <1>2
  <1>4. new \in Seq(Event) /\ Len(new) = n
    BY <1>0, <1>3
  <1> QED BY <1>2, <1>3, <1>4

LEMMA BatchOf ==
    ASSUME TypeOK, NEW section \in Sections, NEW n \in 1..(MaxEvents - created),
           NEW state \in States, NEW new \in NewEvents(section, n), NEW again \in Repeats(new)
    PROVE  Batch(section, state \o new \o again, new, n) /\ Len(new) = n
  <1>0. created \in Nat /\ MaxEvents \in Nat /\ n \in Nat
    BY RoomsAssumption DEF TypeOK
  <1>1. /\ new \in [1..n -> Event] /\ new \in Seq(Event) /\ Len(new) = n
        /\ \A k \in 1..n :
              /\ new[k].id \in {created + k, None}
              /\ IsMessageEvent(new[k]) => new[k].id = created + k /\ section # "invited"
    BY NewEventsAre
  <1>2. /\ state \in Seq(Event)
        /\ \A i \in DOMAIN state : state[i] \in Occurring(batches) /\ ~IsMessageEvent(state[i])
    <2>1. PICK m \in 0..MaxRepeats :
             state \in [1..m -> {e \in Occurring(batches) : ~IsMessageEvent(e)}]
      BY DEF States, SeqOf
    <2>2. m \in Nat
      BY RoomsAssumption
    <2>3. \A e \in Occurring(batches) : e \in Event
      BY EventsTyped DEF TypeOK, Occurring
    <2>4. state \in [1..m -> Event]
      BY <2>1, <2>3
    <2> QED BY <2>1, <2>2, <2>4
  <1>3. /\ again \in Seq(Event)
        /\ \A i \in DOMAIN again : \E k \in 1..n : again[i] = new[k]
    <2>1. PICK m \in 0..MaxRepeats : again \in [1..m -> Occurring(new)]
      BY DEF Repeats, SeqOf
    <2>2. m \in Nat
      BY RoomsAssumption
    <2>3. \A e \in Occurring(new) : e \in Event /\ \E k \in 1..n : e = new[k]
      BY <1>1 DEF Occurring
    <2>4. again \in [1..m -> Event]
      BY <2>1, <2>3
    <2> QED BY <2>1, <2>2, <2>3, <2>4
  <1> DEFINE B == state \o new
             C == B \o again
             s == Len(state)
  <1>4. /\ B \in Seq(Event)
        /\ \A k \in DOMAIN state : k \in DOMAIN B /\ B[k] = state[k]
        /\ \A k \in DOMAIN new : s + k \in DOMAIN B /\ B[s + k] = new[k]
        /\ \A k \in DOMAIN B : k \in DOMAIN state \/ (k - s \in DOMAIN new /\ k = s + (k - s))
    BY <1>1, <1>2, ConcatEvents
  <1> HIDE DEF B
  <1>5. /\ C \in Seq(Event)
        /\ \A k \in DOMAIN B : k \in DOMAIN C /\ C[k] = B[k]
        /\ \A k \in DOMAIN C : \/ k \in DOMAIN B
                               \/ k - Len(B) \in DOMAIN again /\ k = Len(B) + (k - Len(B))
        /\ \A k \in DOMAIN again : Len(B) + k \in DOMAIN C /\ C[Len(B) + k] = again[k]
    BY <1>3, <1>4, ConcatEvents
  <1>6. /\ s \in Nat /\ DOMAIN state = 1..s /\ DOMAIN new = 1..n
        /\ Len(B) \in Nat /\ DOMAIN B = 1..Len(B) /\ DOMAIN C \subseteq Nat
        /\ Len(again) \in Nat /\ DOMAIN again = 1..Len(again)
    BY <1>1, <1>2, <1>3, <1>4, <1>5, EventsTyped
  <1> HIDE DEF C, s
  <1>7. ASSUME NEW i \in DOMAIN B
        PROVE  \/ i \in DOMAIN state /\ B[i] = state[i]
               \/ \E k \in 1..n : i = s + k /\ B[i] = new[k]
    <2>1. CASE i \in DOMAIN state
      BY <1>4, <2>1
    <2>2. CASE i - s \in DOMAIN new /\ i = s + (i - s)
      <3>1. PICK k : k = i - s
        OBVIOUS
      <3> QED BY <1>4, <1>6, <2>2, <3>1
    <2> QED BY <1>4, <2>1, <2>2
  <1>8. ASSUME NEW i \in DOMAIN C
        PROVE  \/ i \in DOMAIN B /\ C[i] = B[i]
               \/ i > Len(B) /\ \E k \in 1..n : C[i] = new[k]
    <2>1. CASE i \in DOMAIN B
      BY <1>5, <2>1
    <2>2. CASE i - Len(B) \in DOMAIN again /\ i = Len(B) + (i - Len(B))
      <3>1. PICK k : k = i - Len(B)
        OBVIOUS
      <3>2. k \in DOMAIN again /\ i = Len(B) + k
        BY <2>2, <3>1
      <3>3. C[i] = again[k] /\ i > Len(B)
        BY <1>5, <1>6, <3>2
      <3> QED BY <1>3, <3>2, <3>3
    <2> QED BY <1>5, <2>1, <2>2
  <1>9. \A i \in DOMAIN C : \/ \E k \in 1..n : C[i] = new[k]
                            \/ C[i] \in Occurring(batches) /\ ~IsMessageEvent(C[i])
    BY <1>2, <1>7, <1>8
  <1>10. ASSUME NEW i \in MessagePlaces(C) PROVE C[i].id # None
    <2>1. i \in DOMAIN C /\ IsMessageEvent(C[i])
      BY DEF MessagePlaces
    <2>2. PICK k \in 1..n : C[i] = new[k]
      BY <1>9, <2>1
    <2>3. C[i].id = created + k
      BY <1>1, <2>1, <2>2
    <2> QED BY <1>0, <2>3, RoomsAssumption
  <1>11. ASSUME NEW i \in FirstMessages(C) PROVE \E k \in 1..n : i = s + k /\ C[i].id = created + k
    <2>0. i \in MessagePlaces(C) /\ i \in DOMAIN C /\ IsMessageEvent(C[i])
      BY PlacesIn DEF MessagePlaces
    <2>1. PICK k \in 1..n : C[i] = new[k]
      BY <1>9, <2>0
    <2>2. C[i].id = created + k
      BY <1>1, <2>0, <2>1
    <2>3. s + k \in DOMAIN C /\ C[s + k] = new[k]
      BY <1>4, <1>5, <1>6
    <2>4. s + k \in MessagePlaces(C)
      BY <2>0, <2>1, <2>3 DEF MessagePlaces
    <2>5. ~(s + k < i)
      BY <1>10, <2>0, <2>1, <2>3, <2>4 DEF FirstMessages, FirstOfEachId
    <2>6. s + k <= Len(B)
      <3>1. s + k \in DOMAIN B
        BY <1>4, <1>6
      <3> QED BY <1>6, <3>1
    <2>7. i \in DOMAIN B /\ C[i] = B[i]
      BY <1>6, <1>8, <2>0, <2>5, <2>6
    <2>8. B[i] # state[i] \/ i \notin DOMAIN state
      BY <1>2, <2>0, <2>7
    <2>9. PICK l \in 1..n : i = s + l /\ B[i] = new[l]
      BY <1>7, <2>7, <2>8
    <2>10. C[i].id = created + l
      BY <1>1, <2>0, <2>7, <2>9
    <2> QED BY <2>9, <2>10
  <1>12. Numbered(C)
    <2>1. ASSUME NEW i \in FirstMessages(C), NEW j \in FirstMessages(C), j < i PROVE C[j].id < C[i].id
      <3>1. PICK k \in 1..n : i = s + k /\ C[i].id = created + k
        BY <1>11
      <3>2. PICK l \in 1..n : j = s + l /\ C[j].id = created + l
        BY <1>11
      <3>3. l < k
        BY <1>6, <2>1, <3>1, <3>2
      <3> QED BY <1>0, <3>1, <3>2, <3>3
    <2> QED BY <1>10, <2>1 DEF Numbered
  <1>13. Batch(section, C, new, n)
    BY <1>1, <1>5, <1>9, <1>12 DEF Batch
  <1> QED BY <1>1, <1>13 DEF C, B

\* What holds of the events of both batches holds of the two together.
LEMMA ConcatOccurring ==
    ASSUME NEW A \in Seq(Event), NEW B \in Seq(Event)
    PROVE  Occurring(A \o B) = Occurring(A) \cup Occurring(B)
  <1> DEFINE C == A \o B
             a == Len(A)
  <1>1. /\ \A k \in DOMAIN A : k \in DOMAIN C /\ C[k] = A[k]
        /\ \A k \in DOMAIN B : a + k \in DOMAIN C /\ C[a + k] = B[k]
        /\ \A k \in DOMAIN C : k \in DOMAIN A \/ (k - a \in DOMAIN B /\ k = a + (k - a))
    BY ConcatEvents
  <1> HIDE DEF C, a
  <1>2. ASSUME NEW k \in DOMAIN C PROVE C[k] \in Occurring(A) \cup Occurring(B)
    <2>1. CASE k \in DOMAIN A
      BY <1>1, <2>1 DEF Occurring
    <2>2. CASE k - a \in DOMAIN B /\ k = a + (k - a)
      <3>1. PICK j : j = k - a
        OBVIOUS
      <3>2. j \in DOMAIN B /\ C[k] = B[j]
        BY <1>1, <2>2, <3>1
      <3> QED BY <3>2 DEF Occurring
    <2> QED BY <1>1, <2>1, <2>2
  <1>3. Occurring(C) \subseteq Occurring(A) \cup Occurring(B)
    BY <1>2 DEF Occurring
  <1>4. Occurring(A) \subseteq Occurring(C) /\ Occurring(B) \subseteq Occurring(C)
    BY <1>1 DEF Occurring
  <1> QED BY <1>3, <1>4 DEF C

LEMMA BatchKnown ==
    ASSUME IInv, NEW section, NEW events, NEW new, NEW n, Batch(section, events, new, n)
    PROVE  /\ batches \o events \in Seq(Event) /\ since \o events \in Seq(Event)
           /\ Known(batches \o events, created + n) /\ Identified(batches \o events)
           /\ Occurring(since \o events) \subseteq Occurring(batches \o events)
  <1> DEFINE New == {new[k] : k \in 1..n}
  <1>1. /\ batches \in Seq(Event) /\ since \in Seq(Event) /\ events \in Seq(Event)
        /\ created \in Nat /\ n \in Nat
    BY RoomsAssumption DEF IInv, TypeOK, Batch
  <1>2. batches \o events \in Seq(Event) /\ since \o events \in Seq(Event)
    BY <1>1, ConcatProperties
  <1>3. Occurring(events) \subseteq Occurring(batches) \cup New
    BY DEF Batch, Occurring
  <1>4. /\ Occurring(batches \o events) = Occurring(batches) \cup Occurring(events)
        /\ Occurring(since \o events) = Occurring(since) \cup Occurring(events)
    BY <1>1, ConcatOccurring
  <1>5. \A x \in Occurring(batches) : x.id = None \/ (x.id <= created /\ x.id \in Nat)
    <2>1. \A x \in Occurring(batches) : x \in Event
      BY <1>1, EventsTyped DEF Occurring
    <2>2. \A x \in Occurring(batches) : x.id = None \/ x.id <= created
      BY DEF Occurring, IInv, Known
    <2>3. \A x \in Event : x.id = None \/ x.id \in Nat
      BY DEF Event
    <2> QED BY <2>1, <2>2, <2>3
  <1>6. \A k \in 1..n : new[k].id \in {created + k, None}
    BY DEF Batch
  <1>7. \A x \in Occurring(batches) \cup New : x.id = None \/ x.id <= created + n
    BY <1>1, <1>5, <1>6
  <1>8. Known(batches \o events, created + n)
    BY <1>3, <1>4, <1>7 DEF Known, Occurring
  <1>9. Identified(batches \o events)
    <2>1. ASSUME NEW x \in Occurring(batches), NEW y \in Occurring(batches),
                 x.id = y.id, x.id # None
          PROVE  x = y
      BY <2>1 DEF Occurring, IInv, Identified
    <2>2. ASSUME NEW x \in Occurring(batches), NEW k \in 1..n, x.id = new[k].id PROVE x.id = None
      BY <1>1, <1>5, <1>6, <2>2
    <2>3. ASSUME NEW k \in 1..n, NEW l \in 1..n, new[k].id = new[l].id, new[k].id # None
          PROVE  k = l
      BY <1>1, <1>6, <2>3
    <2>4. ASSUME NEW x \in Occurring(batches) \cup New, NEW y \in Occurring(batches) \cup New,
                 x.id = y.id, x.id # None
          PROVE  x = y
      BY <2>1, <2>2, <2>3, <2>4
    <2>5. \A i \in DOMAIN (batches \o events) :
             (batches \o events)[i] \in Occurring(batches) \cup New
      BY <1>3, <1>4 DEF Occurring
    <2> HIDE DEF New
    <2> QED BY <2>4, <2>5 DEF Identified
  <1>10. Occurring(since \o events) \subseteq Occurring(batches \o events)
    BY <1>4 DEF IInv
  <1> QED BY <1>2, <1>8, <1>9, <1>10

\* The messages of a batch are younger than those before.
LEMMA BatchYounger ==
    ASSUME IInv, NEW section, NEW events, NEW new, NEW n, Batch(section, events, new, n)
    PROVE  Older(since, events)
  <1>1. created \in Nat /\ since \in Seq(Event)
    BY RoomsAssumption DEF IInv, TypeOK
  <1>2. ASSUME NEW i \in MessagePlaces(since) PROVE since[i].id \in Nat /\ since[i].id <= created
    <2>1. since[i] \in Event /\ since[i] \in Occurring(batches)
      BY <1>1, EventsTyped DEF MessagePlaces, Occurring, IInv
    <2>2. since[i].id # None
      BY DEF IInv, Numbered
    <2>3. since[i].id = None \/ since[i].id <= created
      BY <2>1 DEF Occurring, IInv, Known
    <2> QED BY <2>1, <2>2, <2>3 DEF Event
  <1>3. ASSUME NEW j \in MessagePlaces(events) PROVE events[j].id \in Nat /\ events[j].id > created
    <2>1. j \in DOMAIN events /\ IsMessageEvent(events[j])
      BY DEF MessagePlaces
    <2>2. PICK k \in 1..n : events[j] = new[k]
      BY <2>1 DEF Batch
    <2>3. events[j].id = created + k
      BY <2>1, <2>2 DEF Batch
    <2> QED BY <1>1, <2>3
  <1>4. ASSUME NEW i \in MessagePlaces(since), NEW j \in MessagePlaces(events)
        PROVE  since[i].id # events[j].id /\ since[i].id < events[j].id
    BY <1>1, <1>2, <1>3
  <1> QED BY <1>4 DEF Older

LEMMA NumberedConcat ==
    ASSUME NEW A \in Seq(Event), NEW B \in Seq(Event), Older(A, B), Numbered(A), Numbered(B)
    PROVE  Numbered(A \o B)
  <1> DEFINE C == A \o B
             a == Len(A)
  <1>1. /\ \A k \in DOMAIN A : k \in DOMAIN C /\ C[k] = A[k]
        /\ \A k \in DOMAIN B : a + k \in DOMAIN C /\ C[a + k] = B[k]
        /\ \A k \in DOMAIN C : k \in DOMAIN A \/ (k - a \in DOMAIN B /\ k = a + (k - a))
    BY ConcatEvents
  <1>2. /\ a \in Nat /\ DOMAIN A = 1..a
        /\ Len(B) \in Nat /\ DOMAIN B = 1..Len(B)
    BY EventsTyped
  <1>3. FirstMessages(C) = FirstMessages(A) \cup Shifted(a, FirstMessages(B))
    BY FirstConcat
  <1> HIDE DEF C, a
  <1>4. ASSUME NEW k \in MessagePlaces(C) PROVE C[k].id # None
    <2>1. k \in DOMAIN C /\ IsMessageEvent(C[k])
      BY DEF MessagePlaces
    <2>2. CASE k \in DOMAIN A
      BY <1>1, <2>1, <2>2 DEF Numbered, MessagePlaces
    <2>3. CASE k - a \in DOMAIN B /\ k = a + (k - a)
      <3>1. PICK j : j = k - a
        OBVIOUS
      <3>2. j \in DOMAIN B /\ C[k] = B[j]
        BY <1>1, <2>3, <3>1
      <3> QED BY <2>1, <3>2 DEF Numbered, MessagePlaces
    <2> QED BY <1>1, <2>1, <2>2, <2>3
  <1>5. ASSUME NEW i \in FirstMessages(C), NEW j \in FirstMessages(C), j < i PROVE C[j].id < C[i].id
    <2>1. ASSUME NEW k \in FirstMessages(A)
          PROVE  k \in 1..a /\ C[k] = A[k] /\ k \in MessagePlaces(A)
      BY <1>1, <1>2, PlacesIn
    <2>2. ASSUME NEW k \in FirstMessages(B)
          PROVE  C[a + k] = B[k] /\ k \in Nat \ {0} /\ k \in MessagePlaces(B)
      BY <1>1, <1>2, PlacesIn
    <2>3. ASSUME NEW k \in FirstMessages(C)
          PROVE  k \in FirstMessages(A) \/ \E l \in FirstMessages(B) : k = a + l
      BY <1>3 DEF Shifted
    <2>4. CASE i \in FirstMessages(A)
      <3>1. ASSUME NEW l \in FirstMessages(B), j = a + l PROVE FALSE
        BY <1>2, <1>5, <2>1, <2>2, <2>4, <3>1
      <3>2. j \in FirstMessages(A)
        BY <2>3, <3>1
      <3> QED BY <1>5, <2>1, <2>4, <3>2 DEF Numbered
    <2>5. ASSUME NEW k \in FirstMessages(B), i = a + k PROVE C[j].id < C[i].id
      <3>1. CASE j \in FirstMessages(A)
        BY <2>1, <2>2, <2>5, <3>1 DEF Older
      <3>2. ASSUME NEW l \in FirstMessages(B), j = a + l PROVE C[j].id < C[i].id
        <4>1. l < k
          BY <1>2, <1>5, <2>2, <2>5, <3>2
        <4> QED BY <2>2, <2>5, <3>2, <4>1 DEF Numbered
      <3> QED BY <2>3, <3>1, <3>2
    <2> QED BY <2>3, <2>4, <2>5
  <1> QED BY <1>4, <1>5 DEF Numbered, C

----------------------------------------------------------------------------
(* The invariant. *)

LEMMA InitIInv == Init => IInv
  <1> SUFFICES ASSUME Init PROVE IInv
    OBVIOUS
  <1>1. /\ room = None /\ batches = <<>> /\ since = <<>> /\ created = 0 /\ restarts = 0
        /\ << >> \in Seq(Event) /\ DOMAIN << >> = {}
    BY EmptySeq DEF Init
  <1>2. TypeOK
    BY <1>1, RoomsAssumption DEF TypeOK
  <1>3. Numbered(since) /\ Occurring(since) \subseteq Occurring(batches)
    BY <1>1, NoMessages DEF MessagePlaces
  <1> QED BY <1>1, <1>2, <1>3 DEF IInv, Known, Identified, BatchingIrrelevant

LEMMA SyncKeeps ==
    ASSUME IInv, NEW section \in Sections, NEW n \in 1..(MaxEvents - created),
           NEW state \in States, NEW fresh \in NewEvents(section, n),
           NEW again \in Repeats(fresh), Sync(section, state, fresh, again)
    PROVE  IInv'
  <1> DEFINE events == state \o fresh \o again
             new == FromSync(section, events)
  <1>1. TypeOK
    BY DEF IInv
  <1>2. Batch(section, events, fresh, n) /\ Len(fresh) = n
    BY <1>1, BatchOf
  <1>3. /\ room' = Merge(new, room) /\ batches' = batches \o events
        /\ since' = since \o events /\ created' = created + n /\ restarts' = restarts
    BY <1>2 DEF Sync
  <1> HIDE DEF events
  <1>4. /\ batches' \in Seq(Event) /\ since' \in Seq(Event)
        /\ Known(batches', created') /\ Identified(batches')
        /\ Occurring(since') \subseteq Occurring(batches')
    BY <1>2, <1>3, BatchKnown
  <1>6. /\ batches \in Seq(Event) /\ since \in Seq(Event) /\ events \in Seq(Event)
        /\ created \in 0..MaxEvents /\ restarts \in 0..MaxRestarts /\ MaxEvents \in Nat
    BY <1>1, <1>2, RoomsAssumption DEF TypeOK, Batch
  <1>61. Older(since, events)
    BY <1>2, BatchYounger
  <1>5. Numbered(since')
    <2>1. Numbered(since) /\ Numbered(events)
      BY <1>2 DEF IInv, Batch
    <2> QED BY <2>1, <1>3, <1>6, <1>61, NumberedConcat
  <1>7. created' \in 0..MaxEvents /\ restarts' \in 0..MaxRestarts
    BY <1>1, <1>3, <1>6
  <1>8. GetMessagesFromEvents(since') = GetMessagesFromEvents(since) \o GetMessagesFromEvents(events)
    BY <1>3, <1>6, <1>61, MessagesConcat
  <1>9. RemoveDuplicates(GetMembersFromEvents(batches) \o GetMembersFromEvents(events))
          = GetMembersFromEvents(batches')
    BY <1>3, <1>4, <1>6, MembersConcat
  <1>10. /\ new.status = section /\ new.members = GetMembersFromEvents(events)
         /\ new.messages = GetMessagesFromEvents(events)
         /\ new = [status |-> section, members |-> new.members, messages |-> new.messages]
    <2>1. CASE section # "invited"
      BY <2>1 DEF FromSync
    <2>2. CASE section = "invited"
      <3>1. ASSUME NEW i \in DOMAIN events PROVE ~IsMessageEvent(events[i])
        BY <1>2, <2>2 DEF Batch
      <3>4. GetMessagesFromEvents(events) = <<>>
        BY <1>6, <3>1, NoMessages DEF MessagePlaces
      <3> QED BY <2>2, <3>4 DEF FromSync
    <2> QED BY <2>1, <2>2
  <1> HIDE DEF new
  <1>11. /\ room' = [status |-> section, members |-> room'.members, messages |-> room'.messages]
         /\ room'.members = GetMembersFromEvents(batches')
         /\ room'.messages = GetMessagesFromEvents(since')
    <2>1. CASE room = None
      <3>1. batches = <<>> /\ since = <<>>
        BY <2>1 DEF IInv
      <3>2. batches' = events /\ since' = events
        BY <1>3, <1>6, <3>1, ConcatEmptySeq
      <3>3. room' = new
        BY <1>3, <2>1 DEF Merge
      <3> QED BY <1>10, <3>2, <3>3
    <2>2. CASE room # None
      <3>1. room.members = GetMembersFromEvents(batches) /\ room.messages = GetMessagesFromEvents(since)
        BY <2>2 DEF IInv, BatchingIrrelevant
      <3>2. room' = [status |-> new.status,
                     members |-> RemoveDuplicates(room.members \o new.members),
                     messages |-> room.messages \o new.messages]
        BY <1>3, <2>2 DEF Merge
      <3> QED BY <1>8, <1>9, <1>10, <3>1, <3>2
    <2> QED BY <2>1, <2>2
  <1>12. room' \in MatrixRoom
    <2>1. room'.members \in Seq(Users) /\ room'.messages \in Seq(Message)
      BY <1>4, <1>11, MembersTyped, MessagesTyped
    <2> QED BY <1>11, <2>1 DEF MatrixRoom
  <1>13. TypeOK'
    BY <1>4, <1>7, <1>12 DEF TypeOK
  <1>14. room' # None
    BY <1>12, RoomsAssumption
  <1> QED BY <1>4, <1>5, <1>11, <1>13, <1>14 DEF IInv, BatchingIrrelevant

LEMMA RestartKeeps == ASSUME IInv, Restart PROVE IInv'
  <1>1. /\ room # None /\ restarts < MaxRestarts
        /\ room' = [room EXCEPT !.messages = <<>>] /\ since' = <<>>
        /\ restarts' = restarts + 1 /\ batches' = batches /\ created' = created
    BY DEF Restart, Merge
  <1>2. /\ room \in MatrixRoom /\ batches \in Seq(Event)
        /\ created \in 0..MaxEvents /\ restarts \in 0..MaxRestarts
    BY <1>1 DEF IInv, TypeOK
  <1>3. << >> \in Seq(Event) /\ DOMAIN << >> = {} /\ << >> \in Seq(Message)
    BY EmptySeq
  <1>4. room' \in MatrixRoom /\ room'.members = room.members /\ room'.messages = <<>>
    BY <1>1, <1>2, <1>3 DEF MatrixRoom
  <1>5. restarts' \in 0..MaxRestarts
    BY <1>1, <1>2, RoomsAssumption
  <1>6. TypeOK'
    BY <1>1, <1>2, <1>3, <1>4, <1>5 DEF TypeOK
  <1>7. GetMessagesFromEvents(<<>>) = <<>> /\ Numbered(<<>>)
    BY <1>3, NoMessages DEF MessagePlaces
  <1>8. BatchingIrrelevant'
    BY <1>1, <1>4, <1>7 DEF IInv, BatchingIrrelevant
  <1>9. /\ Known(batches', created') /\ Identified(batches') /\ Numbered(since')
        /\ Occurring(since') \subseteq Occurring(batches')
    BY <1>1, <1>3, <1>7 DEF IInv, Occurring
  <1>10. room' # None
    BY <1>4, RoomsAssumption
  <1> QED BY <1>6, <1>8, <1>9, <1>10 DEF IInv

THEOREM Invariance == Spec => []IInv
  <1>1. IInv /\ [Next]_vars => IInv'
    <2> SUFFICES ASSUME IInv, [Next]_vars PROVE IInv'
      OBVIOUS
    <2>1. CASE \E section \in Sections, n \in 1..(MaxEvents - created), state \in States :
                  \E new \in NewEvents(section, n) : \E again \in Repeats(new) :
                     Sync(section, state, new, again)
      BY <2>1, SyncKeeps
    <2>2. CASE Restart
      BY <2>2, RestartKeeps
    <2>3. CASE UNCHANGED vars
      BY <2>3 DEF vars, IInv, TypeOK, BatchingIrrelevant
    <2> QED BY <2>1, <2>2, <2>3 DEF Next
  <1> QED BY <1>1, InitIInv, PTL DEF Spec

----------------------------------------------------------------------------
(* The promises. *)

\* Every variable has its type (MatrixRoom, MatrixMessage.from).
THEOREM TypeCorrect == Spec => []TypeOK
  <1>1. IInv => TypeOK
    BY DEF IInv
  <1> QED BY <1>1, Invariance, PTL

\* The room is what one batch of all events would have given, however the
\* homeserver cuts and repeats them (MatrixRoom.merge).
THEOREM Batching == Spec => []BatchingIrrelevant
  <1>1. IInv => BatchingIrrelevant
    BY DEF IInv
  <1> QED BY <1>1, Invariance, PTL

\* Its members are those who created or joined it, its messages the texts in
\* order, each once (getMembersFromEvents, getMessagesFromEvents).
THEOREM Exact == Spec => []RoomExact
  <1>1. ASSUME IInv, room # None
        PROVE  /\ Occurring(room.members) =
                    {e.sender : e \in {f \in Occurring(batches) : f.type \in {"create", "join"}}}
               /\ \A i, j \in DOMAIN room.members : i < j => room.members[i] # room.members[j]
    <2> DEFINE s == Senders(batches)
               P == First(batches)
               v == InOrder(P)
               n == Cardinality(P)
               q == Pick(s, P)
    <2>1. batches \in Seq(Event) /\ Identified(batches)
      BY <1>1 DEF IInv, TypeOK
    <2>2. room.members = q
      BY <1>1, <2>1, MembersAre DEF IInv, BatchingIrrelevant
    <2>3. /\ s \in Seq(Users) /\ DOMAIN s = DOMAIN batches
          /\ \A i \in DOMAIN batches : s[i] = batches[i].sender
          /\ DOMAIN batches = 1..Len(batches) /\ Len(batches) \in Nat
      BY <2>1, EventsTyped
    <2>4. P \subseteq Entering(batches) /\ Entering(batches) \subseteq DOMAIN batches
      BY DEF First, Entering
    <2>5. P \subseteq DOMAIN s
      BY <2>3, <2>4
    <2> HIDE DEF s, P
    <2>6. /\ q \in Seq(Users) /\ DOMAIN q = 1..n /\ n \in Nat
          /\ v \in [1..n -> P] /\ Increases(v) /\ Covers(v, P)
          /\ \A i \in 1..n : q[i] = s[v[i]]
      BY <2>3, <2>5, PickProperties, LenProperties
    <2> HIDE DEF v, n, q
    <2>7. ASSUME NEW i \in 1..n PROVE v[i] \in P /\ v[i] \in Entering(batches) /\ q[i] = batches[v[i]].sender
      BY <2>3, <2>4, <2>6
    <2>8. \A k \in DOMAIN batches :
             k \in Entering(batches) <=> batches[k].type \in {"create", "join"}
      BY DEF Entering, IsCreateEvent, IsJoinEvent
    <2>9. ASSUME NEW i \in 1..n
          PROVE  \E f \in Occurring(batches) : f.type \in {"create", "join"} /\ q[i] = f.sender
      BY <2>4, <2>7, <2>8 DEF Occurring
    <2>10. ASSUME NEW k \in DOMAIN batches, batches[k].type \in {"create", "join"}
           PROVE  \E i \in 1..n : q[i] = batches[k].sender
      <3>1. k \in Entering(batches)
        BY <2>8, <2>10
      <3>2. PICK f \in P : batches[f].sender = batches[k].sender
        BY <2>1, <3>1, FirstOf DEF P
      <3>3. PICK i \in 1..n : v[i] = f
        BY <2>6 DEF Covers
      <3> QED BY <2>7, <3>2, <3>3
    <2>11. ASSUME NEW i \in 1..n, NEW j \in 1..n, i < j PROVE q[i] # q[j]
      <3>1. v[i] < v[j]
        BY <2>6, <2>11 DEF Increases
      <3> QED BY <2>7, <3>1 DEF P, First
    <2> QED BY <2>2, <2>6, <2>9, <2>10, <2>11 DEF Occurring
  <1>2. ASSUME IInv, room # None
        PROVE  /\ {m.content : m \in Occurring(room.messages)} =
                    {e.id : e \in {f \in Occurring(since) : f.type = "text"}}
               /\ \A i, j \in DOMAIN room.messages :
                    i < j => room.messages[i].content < room.messages[j].content
    <2> DEFINE s == Texts(since)
               P == TextPlaces(since)
               v == InOrder(P)
               n == Cardinality(P)
               q == Pick(s, P)
    <2>1. since \in Seq(Event) /\ Numbered(since)
      BY <1>2 DEF IInv, TypeOK
    <2>2. room.messages = q
      BY <1>2, <2>1, MessagesAre DEF IInv, BatchingIrrelevant
    <2>3. /\ s \in Seq(Message) /\ DOMAIN s = DOMAIN since
          /\ \A i \in DOMAIN since : s[i].content = since[i].id
          /\ DOMAIN since = 1..Len(since) /\ Len(since) \in Nat
      <3>1. s \in Seq(Message) /\ DOMAIN s = DOMAIN since
        BY <2>1, TextsTyped
      <3>2. \A i \in DOMAIN since :
               s[i] = [sender |-> since[i].sender, content |-> since[i].id]
        BY <2>1, TextsTyped
      <3>3. DOMAIN since = 1..Len(since) /\ Len(since) \in Nat
        BY <2>1, EventsTyped
      <3> QED BY <3>1, <3>2, <3>3
    <2>4. /\ P \subseteq DOMAIN since /\ P \subseteq FirstMessages(since)
          /\ \A k \in P : since[k].type = "text"
      BY PlacesIn DEF TextPlaces, IsTextMessageEvent
    <2>41. ASSUME NEW k \in DOMAIN since, since[k].type = "text"
           PROVE  \E f \in P : since[f].id = since[k].id
      <3>1. k \in MessagePlaces(since)
        BY <2>41 DEF MessagePlaces, IsMessageEvent
      <3>2. PICK f \in FirstMessages(since) : since[f].id = since[k].id
        BY <2>1, <3>1, FirstMessageOf
      <3>3. f \in DOMAIN since /\ since[k].id # None
        BY <2>1, <3>1, PlacesIn DEF Numbered
      <3>4. since[f] \in Occurring(batches) /\ since[k] \in Occurring(batches)
        BY <1>2, <3>3 DEF IInv, Occurring
      <3>5. since[f] = since[k]
        BY <1>2, <3>2, <3>3, <3>4 DEF IInv, Identified, Occurring
      <3>6. f \in P
        BY <2>41, <3>2, <3>5 DEF TextPlaces, IsTextMessageEvent
      <3> QED BY <3>2, <3>6
    <2>5. P \subseteq DOMAIN s
      BY <2>3, <2>4
    <2> HIDE DEF s, P
    <2>6. /\ q \in Seq(Message) /\ DOMAIN q = 1..n /\ n \in Nat
          /\ v \in [1..n -> P] /\ Increases(v) /\ Covers(v, P)
          /\ \A i \in 1..n : q[i] = s[v[i]]
      BY <2>3, <2>5, PickProperties, LenProperties
    <2> HIDE DEF v, n, q
    <2>7. ASSUME NEW i \in 1..n PROVE v[i] \in P /\ v[i] \in DOMAIN since /\ q[i].content = since[v[i]].id
      BY <2>3, <2>4, <2>6
    <2>8. ASSUME NEW i \in 1..n
          PROVE  \E f \in Occurring(since) : f.type = "text" /\ q[i].content = f.id
      BY <2>4, <2>7 DEF Occurring
    <2>9. ASSUME NEW k \in DOMAIN since, since[k].type = "text"
          PROVE  \E i \in 1..n : q[i].content = since[k].id
      <3>1. PICK f \in P : since[f].id = since[k].id
        BY <2>41, <2>9
      <3>2. PICK i \in 1..n : v[i] = f
        BY <2>6 DEF Covers
      <3> QED BY <2>7, <3>1, <3>2
    <2>10. ASSUME NEW i \in 1..n, NEW j \in 1..n, i < j PROVE q[i].content < q[j].content
      <3>1. v[i] < v[j]
        BY <2>6, <2>10 DEF Increases
      <3>2. v[i] \in FirstMessages(since) /\ v[j] \in FirstMessages(since)
        BY <2>4, <2>7
      <3> QED BY <2>1, <2>7, <3>1, <3>2 DEF Numbered
    <2> QED BY <2>2, <2>6, <2>8, <2>9, <2>10 DEF Occurring
  <1>3. IInv => RoomExact
    BY <1>1, <1>2 DEF RoomExact
  <1> QED BY <1>3, Invariance, PTL
=============================================================================
