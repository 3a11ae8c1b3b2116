------------------------- MODULE MatrixEventsProofs -------------------------
(***************************************************************************)
(* What MatrixEvents promises, for any number of listeners, rooms, answers *)
(* and changes of the subscriptions.  First the listeners that were        *)
(* removed: one hears one event more at most, as what is still to be       *)
(* called belongs to the event being emitted, and a listener that was      *)
(* removed is in no later copy.  Then all else: an update lists its events *)
(* once, the invitations first and the messages of a room in order         *)
(* (Tells), and what remains of the list, what was emitted of it and what  *)
(* each listener heard of it fit together in every state (Telling).        *)
(***************************************************************************)
EXTENDS MatrixEvents, InOrderProofs, SequenceTheorems, TLAPS

\* A listener of the type, or one of the copy still to be called.
Listens(type, l) == \E i \in 1..Len(listeners[type]) : listeners[type][i] = l
ToBeCalled(l) == \E i \in 1..Len(calling) : calling[i] = l

\* The types that matter here; of an event only its type.
Typed ==
    /\ listeners \in [Types -> Seq(Listeners)]
    /\ calling # <<>> /\ event[1].type \in Types => calling \in Seq(Listeners)
    /\ DOMAIN late \subseteq Types \X Listeners

\* The removed ones are not among the listeners.
NotListening(domain) == \A s \in domain : ~Listens(s[1], s[2])

\* A removed listener heard one event at most, and if it is yet to be called,
\* none but the one being emitted.
HeardOne(s, heardBy) ==
    /\ \E e : heardBy \subseteq {e}
    /\ calling # <<>> /\ event[1].type = s[1] /\ ToBeCalled(s[2]) => heardBy \subseteq {event[1]}

IInv ==
    /\ Typed
    /\ NotListening(DOMAIN late)
    /\ \A s \in DOMAIN late : HeardOne(s, late[s])

----------------------------------------------------------------------------
(* Listeners that are removed. *)

LEMMA RemoveAtElements ==
    ASSUME NEW S, NEW q \in Seq(S), NEW i \in 1..Len(q)
    PROVE  /\ RemoveAt(q, i) \in Seq(S) /\ Len(RemoveAt(q, i)) = Len(q) - 1
           /\ \A k \in 1..(Len(q) - 1) : RemoveAt(q, i)[k] = IF k < i THEN q[k] ELSE q[k + 1]
  <1> DEFINE front == SubSeq(q, 1, i - 1)
             back == SubSeq(q, i + 1, Len(q))
  <1>1. /\ front \in Seq(S) /\ Len(front) = i - 1
        /\ \A k \in 1..(i - 1) : front[k] = q[k]
    BY SubSeqProperties
  <1>2. /\ back \in Seq(S) /\ Len(back) = Len(q) - i
        /\ \A k \in 1..(Len(q) - i) : back[k] = q[i + k]
    BY SubSeqProperties
  <1> HIDE DEF front, back
  <1>3. /\ front \o back \in Seq(S) /\ Len(front \o back) = Len(q) - 1
        /\ \A k \in 1..(Len(q) - 1) :
              (front \o back)[k] = IF k <= i - 1 THEN front[k] ELSE back[k - (i - 1)]
    BY <1>1, <1>2, ConcatProperties
  <1>4. ASSUME NEW k \in 1..(Len(q) - 1)
        PROVE  (front \o back)[k] = IF k < i THEN q[k] ELSE q[k + 1]
    <2>1. CASE k < i
      <3>1. k \in 1..(i - 1) /\ k <= i - 1
        BY <2>1
      <3> QED BY <1>1, <1>3, <2>1, <3>1
    <2>2. CASE ~(k < i)
      <3>1. k - (i - 1) \in 1..(Len(q) - i) /\ ~(k <= i - 1) /\ i + (k - (i - 1)) = k + 1
        BY <2>2
      <3> QED BY <1>2, <1>3, <2>2, <3>1
    <2> QED BY <2>1, <2>2
  <1>5. RemoveAt(q, i) = front \o back
    BY DEF RemoveAt, front, back
  <1> QED
    BY <1>3, <1>4, <1>5

LEMMA RemoveAtKeeps ==
    ASSUME NEW S, NEW q \in Seq(S), NEW i \in 1..Len(q)
    PROVE  /\ RemoveAt(q, i) \in Seq(S)
           /\ \A k \in 1..Len(RemoveAt(q, i)) :
                 \E j \in 1..Len(q) : j # i /\ RemoveAt(q, i)[k] = q[j]
  <1> DEFINE r == RemoveAt(q, i)
  <1>1. /\ r \in Seq(S) /\ Len(r) = Len(q) - 1 /\ Len(q) \in Nat
        /\ \A k \in 1..(Len(q) - 1) : r[k] = IF k < i THEN q[k] ELSE q[k + 1]
    BY RemoveAtElements, LenProperties
  <1> HIDE DEF r
  <1>2. ASSUME NEW k \in 1..Len(r) PROVE \E j \in 1..Len(q) : j # i /\ r[k] = q[j]
    <2>1. CASE k < i
      BY <1>1, <2>1
    <2>2. CASE ~(k < i)
      <3>1. k + 1 \in 1..Len(q) /\ k + 1 # i
        BY <1>1, <2>2
      <3> QED BY <1>1, <2>2, <3>1
    <2> QED BY <2>1, <2>2
  <1> QED BY <1>1, <1>2 DEF r

\* Where a listener stands, and what a sequence has of another's.
Places(q, l) == {i \in DOMAIN q : q[i] = l}
Within(p, q) == \A k \in 1..Len(p) : \E j \in 1..Len(q) : p[k] = q[j]
Lacks(q, l) == \A k \in 1..Len(q) : q[k] # l

\* removeListener takes away an occurrence, the only one if it was once there.
LEMMA Removes ==
    ASSUME NEW q \in Seq(Listeners), NEW l \in Listeners, Places(q, l) # {}
    PROVE  /\ RemoveAt(q, Max(Places(q, l))) \in Seq(Listeners)
           /\ Within(RemoveAt(q, Max(Places(q, l))), q)
           /\ Cardinality(Places(q, l)) = 1 => Lacks(RemoveAt(q, Max(Places(q, l))), l)
  <1> DEFINE X == Places(q, l)
  <1>1. X \subseteq 1..Len(q) /\ Len(q) \in Nat /\ \A j \in 1..Len(q) : q[j] = l => j \in X
    BY DEF Places
  <1>11. X # {}
    OBVIOUS
  <1> HIDE DEF X
  <1>2. \E k \in X : \A j \in X : j <= k
    BY <1>1, <1>11, Greatest
  <1>3. \A j, k \in X : j <= k <=> k >= j
    BY <1>1
  <1>4. Max(X) \in X
    BY <1>2, <1>3 DEF Max
  <1>5. Max(X) \in 1..Len(q)
    BY <1>1, <1>4
  <1>6. ASSUME Cardinality(X) = 1, NEW j \in 1..Len(q), q[j] = l
        PROVE  j = Max(X)
    <2>1. IsFiniteSet(X)
      <3>1. IsFiniteSet(1..Len(q))
        BY <1>1, FS_Interval
      <3> QED BY <1>1, <3>1, FS_Subset
    <2>2. PICK x : X = {x}
      BY <1>6, <2>1, FS_Singleton
    <2> QED BY <1>1, <1>4, <1>6, <2>2
  <1> DEFINE m == Max(X)
             r == RemoveAt(q, m)
  <1>7. m \in 1..Len(q)
    BY <1>5
  <1> HIDE DEF m
  <1>8. /\ r \in Seq(Listeners)
        /\ \A k \in 1..Len(r) : \E j \in 1..Len(q) : j # m /\ r[k] = q[j]
    BY <1>7, RemoveAtKeeps
  <1> HIDE DEF r
  <1>9. Cardinality(X) = 1 => Lacks(r, l)
    BY <1>6, <1>8 DEF m, Lacks
  <1>10. Within(r, q)
    BY <1>8 DEF Within
  <1> QED
    BY <1>8, <1>9, <1>10 DEF m, r, X

----------------------------------------------------------------------------
(* What a change of the subscriptions makes of the listeners and of late, *)
(* which is before but for the removed subscription, or the one made anew. *)

Changed(before) ==
    /\ listeners' \in [Types -> Seq(Listeners)]
    /\ DOMAIN late' \subseteq Types \X Listeners
    /\ \A s \in DOMAIN late' : ~Listens(s[1], s[2])'
    /\ \A s \in DOMAIN late' : late'[s] = {} \/ (s \in DOMAIN before /\ late'[s] = before[s])

LEMMA SubscribeChanges ==
    ASSUME Typed, NEW type \in Types, NEW l \in Listeners, NEW before,
           DOMAIN before \subseteq Types \X Listeners, NotListening(DOMAIN before),
           Subscribe(type, l, before)
    PROVE  Changed(before)
  <1>1. /\ listeners' = [listeners EXCEPT ![type] = Append(@, l)]
        /\ late' = [s \in DOMAIN before \ {<<type, l>>} |-> before[s]]
    BY DEF Subscribe, Restrict
  <1>2. listeners[type] \in Seq(Listeners)
    BY DEF Typed
  <1>3. listeners' \in [Types -> Seq(Listeners)]
    BY <1>1, <1>2, AppendProperties DEF Typed
  <1>4. ASSUME NEW s \in DOMAIN late' PROVE ~Listens(s[1], s[2])'
    <2>1. s \in DOMAIN before /\ s # <<type, l>> /\ s \in Types \X Listeners
      BY <1>1
    <2>2. ~Listens(s[1], s[2])
      BY <2>1 DEF NotListening
    <2>3. CASE s[1] = type
      <3>1. s[2] # l
        BY <2>1, <2>3
      <3>2. listeners'[s[1]] = Append(listeners[type], l)
        BY <1>1, <2>3 DEF Typed
      <3> QED BY <1>2, <2>2, <2>3, <3>1, <3>2, AppendProperties DEF Listens
    <2>4. CASE s[1] # type
      <3>1. listeners'[s[1]] = listeners[s[1]]
        BY <1>1, <2>1, <2>4 DEF Typed
      <3> QED BY <2>2, <3>1 DEF Listens
    <2> QED BY <2>3, <2>4
  <1> QED
    BY <1>1, <1>3, <1>4 DEF Changed

\* What is left of the listeners of a type.
Leaves(type, left) == listeners' = [listeners EXCEPT ![type] = left]

\* No listener but those there were, and not the removed one.
LEMMA RemovalChanges ==
    ASSUME Typed, NEW type \in Types, NEW gone, NEW before,
           DOMAIN before \subseteq Types \X Listeners, NotListening(DOMAIN before),
           gone \subseteq {type} \X Listeners, Removed(gone, before),
           NEW left \in Seq(Listeners),
           Leaves(type, left), Within(left, listeners[type]),
           \A s \in gone : Lacks(left, s[2])
    PROVE  Changed(before)
  <1> USE DEF Leaves, Within, Lacks
  <1>1. late' = [s \in DOMAIN before \cup gone |-> IF s \in gone THEN {} ELSE before[s]]
    BY DEF Removed
  <1>2. listeners' \in [Types -> Seq(Listeners)]
    BY DEF Typed
  <1>3. gone \subseteq Types \X Listeners
    OBVIOUS
  <1>4. ASSUME NEW s \in DOMAIN late' PROVE ~Listens(s[1], s[2])'
    <2>1. s \in Types \X Listeners /\ (s \in DOMAIN before \/ s \in gone)
      BY <1>1, <1>3
    <2>2. CASE s[1] = type
      <3>1. listeners'[s[1]] = left
        BY <2>2 DEF Typed
      <3>2. CASE s \in gone
        BY <3>1, <3>2 DEF Listens
      <3>3. CASE s \in DOMAIN before
        <4>1. ~Listens(s[1], s[2])
          BY <3>3 DEF NotListening
        <4> QED BY <2>2, <3>1, <4>1 DEF Listens
      <3> QED BY <2>1, <3>2, <3>3
    <2>3. CASE s[1] # type
      <3>1. listeners'[s[1]] = listeners[s[1]]
        BY <2>1, <2>3 DEF Typed
      <3>2. s \in DOMAIN before
        BY <2>1, <2>3
      <3> QED BY <3>1, <3>2 DEF Listens, NotListening
    <2> QED BY <2>2, <2>3
  <1> QED
    BY <1>1, <1>2, <1>3, <1>4 DEF Changed

LEMMA RemoveListenerChanges ==
    ASSUME Typed, NEW type \in Types, NEW l \in Listeners, NEW before,
           DOMAIN before \subseteq Types \X Listeners, NotListening(DOMAIN before),
           RemoveListener(type, l, before)
    PROVE  Changed(before)
  <1> DEFINE q == listeners[type]
             left == IF Places(q, l) = {} THEN q ELSE RemoveAt(q, Max(Places(q, l)))
             gone == Once \cap {<<type, l>>}
  <1>1. q \in Seq(Listeners) /\ Occurrences(type, l) = Places(q, l)
    BY DEF Typed, Occurrences, Places
  <1>2. Leaves(type, left) /\ Removed(gone, before)
    BY <1>1 DEF RemoveListener, Leaves
  <1>3. gone \subseteq {type} \X Listeners /\ \A s \in gone : s[2] = l
    OBVIOUS
  <1>4. gone # {} => Cardinality(Places(q, l)) = 1
    <2> SUFFICES ASSUME gone # {} PROVE Cardinality(Places(q, l)) = 1
      OBVIOUS
    <2>1. <<type, l>> \in Once
      OBVIOUS
    <2>2. Cardinality(Occurrences(<<type, l>>[1], <<type, l>>[2])) = 1
      BY <2>1 DEF Once
    <2> QED BY <1>1, <2>2
  <1>5. left \in Seq(Listeners) /\ Within(left, q) /\ (gone # {} => Lacks(left, l))
    <2>1. CASE Places(q, l) = {}
      <3>1. Within(q, q) /\ Lacks(q, l)
        BY <1>1, <2>1 DEF Within, Lacks, Places
      <3> QED BY <1>1, <2>1, <3>1
    <2>2. CASE Places(q, l) # {}
      <3> HIDE DEF q, gone
      <3> QED BY <1>1, <1>4, <2>2, Removes
    <2> QED BY <2>1, <2>2
  <1> HIDE DEF left, gone
  <1>6. \A s \in gone : Lacks(left, s[2])
    BY <1>3, <1>5
  <1> QED
    BY <1>2, <1>3, <1>5, <1>6, RemovalChanges

LEMMA RemoveAllChanges ==
    ASSUME Typed, NEW type \in Types, NEW before,
           DOMAIN before \subseteq Types \X Listeners, NotListening(DOMAIN before),
           RemoveAllListeners(type, before)
    PROVE  Changed(before)
  <1> DEFINE gone == Subscribed \cap ({type} \X Listeners)
  <1>1. listeners' = [listeners EXCEPT ![type] = <<>>] /\ Removed(gone, before)
    BY DEF RemoveAllListeners
  <1>2. gone \subseteq {type} \X Listeners
    OBVIOUS
  <1> DEFINE left == << >>
  <1>3. left \in Seq(Listeners) /\ Len(left) = 0
    BY EmptySeq
  <1>4. Leaves(type, left)
    BY <1>1 DEF Leaves
  <1> HIDE DEF gone, left
  <1>5. Within(left, listeners[type]) /\ \A s \in gone : Lacks(left, s[2])
    BY <1>3 DEF Within, Lacks
  <1> QED
    BY <1>1, <1>2, <1>3, <1>4, <1>5, RemovalChanges

LEMMA ChangeChanges ==
    ASSUME Typed, NEW before,
           DOMAIN before \subseteq Types \X Listeners, NotListening(DOMAIN before),
           Change(before)
    PROVE  Changed(before)
  BY SubscribeChanges, RemoveListenerChanges, RemoveAllChanges DEF Change

----------------------------------------------------------------------------
(* The steps. *)

LEMMA InitIInv == Init => IInv
  <1> SUFFICES ASSUME Init PROVE IInv
    OBVIOUS
  <1>1. << >> \in Seq(Listeners) /\ DOMAIN late = {}
    BY EmptySeq DEF Init
  <1> QED
    BY <1>1 DEF Init, IInv, Typed, NotListening

LEMMA UpdateKeeps ==
    ASSUME IInv, NEW rooms \in Answers, Update(rooms) PROVE IInv'
  <1>1. calling = <<>> /\ calling' = <<>> /\ listeners' = listeners /\ late' = late
    BY DEF Update, Idle
  <1> QED
    BY <1>1 DEF IInv, Typed, NotListening, Listens, HeardOne

LEMMA EmitKeeps ==
    ASSUME IInv, Emit PROVE IInv'
  <1>1. /\ calling = <<>> /\ event' = <<Head(events)>>
        /\ calling' = listeners[Head(events).type]
        /\ listeners' = listeners /\ late' = late
    BY DEF Emit, subscriptions
  <1>2. event'[1] = Head(events)
    BY <1>1
  <1>3. Typed'
    BY <1>1, <1>2 DEF IInv, Typed
  <1>4. ASSUME NEW s \in DOMAIN late, event'[1].type = s[1] PROVE ~ToBeCalled(s[2])'
    <2>1. calling' = listeners[s[1]]
      BY <1>1, <1>2, <1>4
    <2>2. ~Listens(s[1], s[2])
      BY DEF IInv, NotListening
    <2> QED BY <2>1, <2>2 DEF ToBeCalled, Listens
  <1>5. \A s \in DOMAIN late : HeardOne(s, late[s])'
    BY <1>1, <1>4 DEF IInv, HeardOne
  <1> QED
    BY <1>1, <1>3, <1>5 DEF IInv, NotListening, Listens

LEMMA ApplicationKeeps ==
    ASSUME IInv, Application PROVE IInv'
  <1>1. calling = <<>> /\ calling' = <<>> /\ Change(late)
    BY DEF Application, Idle, dispatch
  <1>2. Changed(late)
    BY <1>1, ChangeChanges DEF IInv, Typed
  <1>3. \A s \in DOMAIN late' : HeardOne(s, late[s])'
    <2> SUFFICES ASSUME NEW s \in DOMAIN late' PROVE \E e : late'[s] \subseteq {e}
      BY <1>1 DEF HeardOne
    <2> QED BY <1>2 DEF Changed, IInv, HeardOne
  <1> QED
    BY <1>1, <1>2, <1>3 DEF IInv, Typed, NotListening, Changed

LEMMA CallKeeps ==
    ASSUME IInv, Call PROVE IInv'
  <1> DEFINE l == Head(calling)
             before == HeardLate(l)
  <1>1. /\ calling # <<>> /\ calling' = Tail(calling) /\ event' = event
        /\ Change(before) \/ (late' = before /\ listeners' = listeners)
    BY DEF Call
  <1>2. /\ DOMAIN before = DOMAIN late
        /\ \A s \in DOMAIN late : before[s] =
              IF s = <<event[1].type, l>> THEN late[s] \cup {event[1]} ELSE late[s]
    BY DEF HeardLate
  <1>3. DOMAIN before \subseteq Types \X Listeners /\ NotListening(DOMAIN before)
    BY <1>2 DEF IInv, Typed
  <1> HIDE DEF before
  <1>4. Changed(before)
    <2>1. CASE Change(before)
      BY <1>3, <2>1, ChangeChanges DEF IInv
    <2>2. CASE late' = before /\ listeners' = listeners
      BY <1>3, <2>2 DEF Changed, NotListening, Listens, IInv, Typed
    <2> QED BY <1>1, <2>1, <2>2
  <1>5. event[1].type \in Types =>
          /\ calling \in Seq(Listeners) /\ Tail(calling) \in Seq(Listeners)
          /\ Len(Tail(calling)) = Len(calling) - 1
          /\ ToBeCalled(l)
          /\ \A x : ToBeCalled(x)' => ToBeCalled(x)
    <2> SUFFICES ASSUME event[1].type \in Types
                 PROVE  /\ calling \in Seq(Listeners) /\ Tail(calling) \in Seq(Listeners)
                        /\ Len(Tail(calling)) = Len(calling) - 1
                        /\ ToBeCalled(l)
                        /\ \A x : ToBeCalled(x)' => ToBeCalled(x)
      OBVIOUS
    <2>1. calling \in Seq(Listeners)
      BY <1>1 DEF IInv, Typed
    <2>2. /\ Tail(calling) \in Seq(Listeners) /\ Len(Tail(calling)) = Len(calling) - 1
          /\ \A i \in 1..Len(Tail(calling)) : Tail(calling)[i] = calling[i + 1]
          /\ Len(calling) \in Nat /\ Len(calling) >= 1 /\ l = calling[1]
      BY <1>1, <2>1, HeadTailProperties
    <2>3. ToBeCalled(l)
      BY <2>2 DEF ToBeCalled
    <2>4. ASSUME NEW x, ToBeCalled(x)' PROVE ToBeCalled(x)
      <3>1. PICK i \in 1..Len(Tail(calling)) : Tail(calling)[i] = x
        BY <1>1, <2>4 DEF ToBeCalled
      <3>2. i + 1 \in 1..Len(calling) /\ calling[i + 1] = x
        BY <2>2, <3>1
      <3> QED BY <3>2 DEF ToBeCalled
    <2> QED BY <2>1, <2>2, <2>3, <2>4
  <1>6. ASSUME NEW s \in DOMAIN before
        PROVE  /\ \E e : before[s] \subseteq {e}
               /\ event[1].type = s[1] /\ ToBeCalled(s[2])' => before[s] \subseteq {event[1]}
    <2>1. HeardOne(s, late[s]) /\ s \in Types \X Listeners
      BY <1>2, <1>6 DEF IInv, Typed
    <2>2. CASE s = <<event[1].type, l>>
      <3>1. s[1] = event[1].type /\ s[2] = l /\ event[1].type \in Types
        BY <2>1, <2>2
      <3>2. late[s] \subseteq {event[1]}
        BY <1>1, <1>5, <2>1, <3>1 DEF HeardOne
      <3>3. before[s] \subseteq {event[1]}
        BY <1>2, <1>6, <2>2, <3>2
      <3> QED BY <3>3
    <2>3. CASE s # <<event[1].type, l>>
      <3>1. before[s] = late[s]
        BY <1>2, <1>6, <2>3
      <3>2. event[1].type = s[1] /\ ToBeCalled(s[2])' => ToBeCalled(s[2])
        BY <1>5, <2>1
      <3> QED BY <1>1, <2>1, <3>1, <3>2 DEF HeardOne
    <2> QED BY <2>2, <2>3
  <1>7. \A s \in DOMAIN late' : HeardOne(s, late[s])'
    <2> SUFFICES ASSUME NEW s \in DOMAIN late'
                 PROVE  /\ \E e : late'[s] \subseteq {e}
                        /\ event[1].type = s[1] /\ ToBeCalled(s[2])' => late'[s] \subseteq {event[1]}
      BY <1>1 DEF HeardOne
    <2> QED BY <1>4, <1>6 DEF Changed
  <1>8. Typed'
    BY <1>1, <1>4, <1>5 DEF Typed, Changed
  <1> QED
    BY <1>4, <1>7, <1>8 DEF IInv, NotListening, Changed

LEMMA RestartKeeps ==
    ASSUME Restart PROVE IInv'
  <1>1. /\ calling' = <<>> /\ late' = <<>> /\ listeners' = [type \in Types |-> <<>>]
    BY DEF Restart
  <1>2. << >> \in Seq(Listeners) /\ DOMAIN late' = {}
    BY <1>1, EmptySeq
  <1> QED
    BY <1>1, <1>2 DEF IInv, Typed, NotListening

LEMMA StutterKeeps ==
    ASSUME IInv, UNCHANGED vars PROVE IInv'
  BY DEF IInv, Typed, NotListening, Listens, ToBeCalled, HeardOne, vars, dispatch, subscriptions

----------------------------------------------------------------------------
\* The inductive invariant holds in every reachable state
\* (MatrixClientEventEmitter.onStateChanged, MatrixClient.unsubscribe).
THEOREM Invariance == Spec => []IInv
  <1>1. IInv /\ [Next]_vars => IInv'
    BY UpdateKeeps, EmitKeeps, CallKeeps, ApplicationKeeps, RestartKeeps, StutterKeeps DEF Next
  <1> QED
    BY InitIInv, <1>1, PTL DEF Spec

\* Once a listener is unsubscribed, even by another in the middle of an
\* update, it is called for the event being emitted at most
\* (MatrixClient.unsubscribe).
THEOREM LateOnce == Spec => []LateAtMostOnce
  <1>1. IInv => LateAtMostOnce
    <2> SUFFICES ASSUME IInv, NEW s \in DOMAIN late PROVE Cardinality(late[s]) <= 1
      BY DEF LateAtMostOnce
    <2>1. PICK e : late[s] \subseteq {e}
      BY DEF IInv, HeardOne
    <2>2. IsFiniteSet({e}) /\ Cardinality({e}) = 1
      BY FS_Singleton
    <2> QED BY <2>1, <2>2, FS_Subset
  <1> QED
    BY <1>1, Invariance, PTL

----------------------------------------------------------------------------
(* What an update tells of the rooms of an answer. *)

\* The invitations, then the messages; each once, those of a room in order.
Tells(all, rooms, token) ==
    /\ all \in Seq(Event)
    /\ \A a \in 1..Len(all) : all[a].token = token
    /\ \A a, b \in 1..Len(all) : all[a] = all[b] => a = b
    /\ \A a, b \in 1..Len(all) : a < b /\ all[b].type = "invite" => all[a].type = "invite"
    /\ \A a \in 1..Len(all) : all[a].type = "invite" =>
          \E i \in DOMAIN rooms : /\ rooms[i].status = "invited"
                                  /\ all[a] = InviteEvent(token, rooms[i].id)
    /\ \A a \in 1..Len(all) : all[a].type = "message" =>
          \E i \in DOMAIN rooms : \E n \in 1..rooms[i].messages :
             all[a] = MessageEvent(token, rooms[i].id, n)
    /\ \A i \in DOMAIN rooms : rooms[i].status = "invited" =>
          \E a \in 1..Len(all) : all[a] = InviteEvent(token, rooms[i].id)
    /\ \A i \in DOMAIN rooms : \A n \in 1..rooms[i].messages :
          \E a \in 1..Len(all) : all[a] = MessageEvent(token, rooms[i].id, n)
    /\ \A a, b \in 1..Len(all) :
          a < b /\ all[a].type = "message" /\ all[b].type = "message"
          /\ all[a].room = all[b].room => all[a].place < all[b].place

LEMMA TypesAre == Types = {"invite", "message"}
  <1>1. DOMAIN MatrixClientEventType = {1, 2}
    BY DEF MatrixClientEventType
  <1>2. MatrixClientEventType[1] = "invite" /\ MatrixClientEventType[2] = "message"
    BY DEF MatrixClientEventType
  <1> QED
    BY <1>1, <1>2 DEF Types, ToSet

\* Rooms of an answer, or none.
Answerable(rooms) ==
    /\ rooms \in Seq(RoomUpdate)
    /\ \A i, j \in DOMAIN rooms : rooms[i].id = rooms[j].id => i = j

LEMMA AnswersAnswerable == \A rooms \in Answers : Answerable(rooms)
  <1> SUFFICES ASSUME NEW rooms \in Answers PROVE Answerable(rooms)
    OBVIOUS
  <1>1. /\ rooms \in Seq(RoomUpdate)
        /\ \A i, j \in DOMAIN rooms : i < j => rooms[i].id # rooms[j].id
    BY AnswersAssumption
  <1>2. DOMAIN rooms = 1..Len(rooms) /\ Len(rooms) \in Nat
    BY <1>1, LenProperties
  <1>3. ASSUME NEW i \in DOMAIN rooms, NEW j \in DOMAIN rooms, rooms[i].id = rooms[j].id
        PROVE  i = j
    <2>1. ~(i < j) /\ ~(j < i)
      BY <1>1, <1>3
    <2> QED BY <1>2, <2>1
  <1> QED
    BY <1>1, <1>3 DEF Answerable

Open(rooms) == {i \in DOMAIN rooms : rooms[i].status = "invited"}

\* The invitations in the order of their rooms, w.
ListsInvites(v, rooms, token, w) ==
    /\ w \in [1..Len(v) -> Open(rooms)] /\ Increases(w) /\ Covers(w, Open(rooms))
    /\ \A a \in 1..Len(v) : v[a] = InviteEvent(token, rooms[w[a]].id)

LEMMA EmitInviteTells ==
    ASSUME NEW rooms, Answerable(rooms), NEW token \in Nat \ {0}
    PROVE  /\ EmitInvite(token, rooms) \in Seq(Event)
           /\ \E w : ListsInvites(EmitInvite(token, rooms), rooms, token, w)
  <1> DEFINE P == Open(rooms)
             picked == Pick(rooms, P)
             v == EmitInvite(token, rooms)
             w == InOrder(P)
             n == Cardinality(P)
  <1>1. rooms \in Seq(RoomUpdate) /\ P \subseteq DOMAIN rooms
    BY DEF Answerable, Open
  <1>2. \A i \in DOMAIN rooms : rooms[i].id \in Rooms
    <2>1. \A i \in DOMAIN rooms : rooms[i] \in RoomUpdate
      BY <1>1, ElementOfSeq, LenProperties
    <2> QED BY <2>1 DEF RoomUpdate
  <1>3. v = [i \in DOMAIN picked |-> InviteEvent(token, picked[i].id)]
    BY DEF EmitInvite, Open
  <1> HIDE DEF P
  <1>4. /\ picked \in Seq(RoomUpdate) /\ Len(picked) = n /\ n \in Nat
        /\ w \in [1..n -> P] /\ Increases(w) /\ Covers(w, P)
        /\ \A i \in 1..n : picked[i] = rooms[w[i]]
    BY <1>1, PickProperties
  <1>5. DOMAIN picked = 1..n
    BY <1>4, LenProperties
  <1> HIDE DEF picked, v, w, n
  <1>6. \A i \in 1..n : v[i] = InviteEvent(token, rooms[w[i]].id) /\ w[i] \in DOMAIN rooms
    BY <1>1, <1>3, <1>4, <1>5
  <1>7. ASSUME NEW i \in 1..n PROVE v[i] \in Event
    <2>1. rooms[w[i]].id \in Rooms /\ "invite" \in Types
      BY <1>2, <1>6, TypesAre
    <2>2. InviteEvent(token, rooms[w[i]].id) \in Event
      BY <2>1 DEF InviteEvent, Event
    <2> QED BY <1>6, <2>2
  <1>8. v \in [1..n -> Event]
    BY <1>3, <1>5, <1>7
  <1>9. v \in Seq(Event) /\ Len(v) = n
    BY <1>4, <1>8
  <1>10. ListsInvites(v, rooms, token, w)
    BY <1>4, <1>6, <1>9 DEF ListsInvites, P
  <1> QED
    BY <1>9, <1>10 DEF v

\* The messages in the order of their rooms, r, and of their places, p.
ListsMessages(v, rooms, token, r, p) ==
    /\ r \in [1..Len(v) -> DOMAIN rooms]
    /\ \A a \in 1..Len(v) : /\ p[a] \in 1..rooms[r[a]].messages
                            /\ v[a] = MessageEvent(token, rooms[r[a]].id, p[a])
    /\ \A a, b \in 1..Len(v) : a < b => r[a] < r[b] \/ (r[a] = r[b] /\ p[a] < p[b])
    /\ \A i \in DOMAIN rooms : \A n \in 1..rooms[i].messages :
          \E a \in 1..Len(v) : r[a] = i /\ p[a] = n

LEMMA EmitMessageTells ==
    ASSUME NEW rooms, Answerable(rooms), NEW token \in Nat \ {0}
    PROVE  /\ EmitMessage(token, rooms) \in Seq(Event)
           /\ \E r, p : ListsMessages(EmitMessage(token, rooms), rooms, token, r, p)
  <1> DEFINE P == {i \in DOMAIN rooms : rooms[i].messages > 0}
             picked == Pick(rooms, P)
             v == EmitMessage(token, rooms)
             w == InOrder(P)
             n == Cardinality(P)
             ss == [i \in DOMAIN picked |->
                      [k \in 1..picked[i].messages |-> MessageEvent(token, picked[i].id, k)]]
  <1>1. rooms \in Seq(RoomUpdate) /\ P \subseteq DOMAIN rooms
    BY DEF Answerable
  <1>2. /\ DOMAIN rooms = 1..Len(rooms) /\ Len(rooms) \in Nat
        /\ \A i \in DOMAIN rooms : rooms[i].id \in Rooms /\ rooms[i].messages \in Nat
    <2>1. /\ \A i \in DOMAIN rooms : rooms[i] \in RoomUpdate
          /\ DOMAIN rooms = 1..Len(rooms) /\ Len(rooms) \in Nat
      BY <1>1, ElementOfSeq, LenProperties
    <2> QED BY <2>1 DEF RoomUpdate
  <1>3. v = FlattenSeq(ss)
    BY DEF EmitMessage
  <1>4. \A i \in DOMAIN rooms : \A k \in 1..rooms[i].messages : i \in P
    BY <1>2
  <1> HIDE DEF P
  <1>5. /\ picked \in Seq(RoomUpdate) /\ Len(picked) = n /\ n \in Nat
        /\ w \in [1..n -> P] /\ Increases(w) /\ Covers(w, P)
        /\ \A i \in 1..n : picked[i] = rooms[w[i]]
    BY <1>1, PickProperties
  <1>6. DOMAIN picked = 1..n /\ \A i \in 1..n : w[i] \in DOMAIN rooms
    BY <1>1, <1>5, LenProperties
  <1> HIDE DEF picked, v, w, n
  <1>7. DOMAIN ss = 1..n /\ \A i \in 1..n :
            ss[i] = [k \in 1..rooms[w[i]].messages |-> MessageEvent(token, rooms[w[i]].id, k)]
    BY <1>5, <1>6
  <1> HIDE DEF ss
  <1>8. ASSUME NEW i \in 1..n PROVE ss[i] \in Seq(Event) /\ Len(ss[i]) = rooms[w[i]].messages
    <2>1. rooms[w[i]].messages \in Nat /\ rooms[w[i]].id \in Rooms
      BY <1>2, <1>6
    <2>2. \A k \in 1..rooms[w[i]].messages : MessageEvent(token, rooms[w[i]].id, k) \in Event
      BY <2>1, TypesAre DEF MessageEvent, Event
    <2>3. ss[i] \in [1..rooms[w[i]].messages -> Event]
      BY <1>7, <2>2
    <2> QED BY <2>1, <2>3
  <1>9. ss \in [1..n -> Seq(Event)]
    <2>1. ss = [i \in 1..n |-> ss[i]]
      BY <1>5, <1>6 DEF ss
    <2> QED BY <1>8, <2>1
  <1>10. ss \in Seq(Seq(Event)) /\ Len(ss) = n
    BY <1>5, <1>9
  <1>11. v \in Seq(Event) /\ \E block, place : Flattened(v, ss, n, block, place)
    BY <1>3, <1>10, FlattenProperties
  <1>12. PICK block, p : Flattened(v, ss, n, block, p)
    BY <1>11
  <1>13. Len(v) \in Nat
    BY <1>11, LenProperties
  <1>14. /\ block \in [1..Len(v) -> 1..n] /\ p \in [1..Len(v) -> Nat]
         /\ \A a \in 1..Len(v) : p[a] \in 1..Len(ss[block[a]]) /\ v[a] = ss[block[a]][p[a]]
         /\ \A a, b \in 1..Len(v) :
               a < b => block[a] < block[b] \/ (block[a] = block[b] /\ p[a] < p[b])
         /\ \A b \in 1..n : \A k \in 1..Len(ss[b]) :
               \E a \in 1..Len(v) : block[a] = b /\ p[a] = k
    BY <1>12 DEF Flattened
  <1> DEFINE r == [a \in 1..Len(v) |-> w[block[a]]]
  <1>15. r \in [1..Len(v) -> DOMAIN rooms]
    BY <1>6, <1>14
  <1>16. ASSUME NEW a \in 1..Len(v)
         PROVE  /\ p[a] \in 1..rooms[r[a]].messages
                /\ v[a] = MessageEvent(token, rooms[r[a]].id, p[a])
    <2>1. block[a] \in 1..n /\ p[a] \in 1..Len(ss[block[a]]) /\ v[a] = ss[block[a]][p[a]]
      BY <1>14
    <2>2. p[a] \in 1..rooms[w[block[a]]].messages
      BY <1>8, <2>1
    <2>3. ss[block[a]][p[a]] = MessageEvent(token, rooms[w[block[a]]].id, p[a])
      BY <1>7, <2>1, <2>2
    <2> QED BY <2>1, <2>2, <2>3
  <1>17. ASSUME NEW a \in 1..Len(v), NEW b \in 1..Len(v), a < b
         PROVE  r[a] < r[b] \/ (r[a] = r[b] /\ p[a] < p[b])
    <2>1. block[a] < block[b] => w[block[a]] < w[block[b]]
      BY <1>5, <1>14 DEF Increases
    <2> QED BY <1>14, <1>17, <2>1
  <1>18. ASSUME NEW i \in DOMAIN rooms, NEW k \in 1..rooms[i].messages
         PROVE  \E a \in 1..Len(v) : r[a] = i /\ p[a] = k
    <2>1. i \in P
      BY <1>4
    <2>2. PICK b \in 1..n : w[b] = i
      BY <1>5, <2>1 DEF Covers
    <2>3. k \in 1..Len(ss[b])
      BY <1>8, <2>2
    <2>4. PICK a \in 1..Len(v) : block[a] = b /\ p[a] = k
      BY <1>14, <2>3
    <2> QED BY <2>2, <2>4
  <1> HIDE DEF r
  <1>19. ListsMessages(v, rooms, token, r, p)
    BY <1>15, <1>16, <1>17, <1>18 DEF ListsMessages
  <1> QED
    BY <1>11, <1>19 DEF v

LEMMA OnStateChangedConcat ==
    ASSUME NEW token, NEW rooms
    PROVE  OnStateChanged(token, rooms) = EmitInvite(token, rooms) \o EmitMessage(token, rooms)
  <1> DEFINE ss == [k \in DOMAIN MatrixClientEventType |->
                      EmitIfEvent(MatrixClientEventType[k], token, rooms)]
  <1>1. /\ DOMAIN MatrixClientEventType = 1..2
        /\ MatrixClientEventType[1] = "invite" /\ MatrixClientEventType[2] = "message"
    BY DEF MatrixClientEventType
  <1>2. ss[1] = EmitInvite(token, rooms) /\ ss[2] = EmitMessage(token, rooms)
    BY <1>1 DEF EmitIfEvent
  <1>3. DOMAIN ss = 1..2
    BY <1>1
  <1>4. Len(ss) = 2
    <2>1. ss \in [1..2 -> {ss[1], ss[2]}]
      BY <1>1
    <2> HIDE DEF ss
    <2> QED BY <2>1
  <1>5. OnStateChanged(token, rooms) = FlattenSeq(ss)
    BY DEF OnStateChanged
  <1> HIDE DEF ss
  <1> DEFINE m == 2
  <1>8. m \in Nat \ {0} /\ Len(ss) = m /\ m \in 2..m /\ m - 1 = 1
    BY <1>4
  <1> HIDE DEF m
  <1>6. PICK f : /\ f[1] = ss[1] /\ \A i \in 2..m : f[i] = f[i - 1] \o ss[i]
                 /\ FlattenSeq(ss) = f[m]
    BY <1>8, FlattenRecursion
  <1>7. f[m] = f[1] \o ss[2]
    <2>1. f[m] = f[m - 1] \o ss[m]
      BY <1>6, <1>8
    <2> QED BY <1>8, <2>1 DEF m
  <1> QED
    BY <1>2, <1>5, <1>6, <1>7

LEMMA OnStateChangedTells ==
    ASSUME NEW rooms, Answerable(rooms), NEW token \in Nat \ {0}
    PROVE  Tells(OnStateChanged(token, rooms), rooms, token)
  <1> DEFINE v == EmitInvite(token, rooms)
             u == EmitMessage(token, rooms)
             all == OnStateChanged(token, rooms)
             P == Open(rooms)
             m == Len(v)
  <1>1. all = v \o u
    BY OnStateChangedConcat
  <1>2. v \in Seq(Event)
    BY EmitInviteTells
  <1>23. PICK w : ListsInvites(v, rooms, token, w)
    BY EmitInviteTells
  <1>3. /\ w \in [1..Len(v) -> P] /\ Increases(w) /\ Covers(w, P)
        /\ \A a \in 1..Len(v) : v[a] = InviteEvent(token, rooms[w[a]].id)
    BY <1>23 DEF ListsInvites
  <1>4. u \in Seq(Event)
    BY EmitMessageTells
  <1>5. PICK r, p : ListsMessages(u, rooms, token, r, p)
    BY EmitMessageTells
  <1>6. /\ r \in [1..Len(u) -> DOMAIN rooms]
        /\ \A a \in 1..Len(u) : /\ p[a] \in 1..rooms[r[a]].messages
                                /\ u[a] = MessageEvent(token, rooms[r[a]].id, p[a])
        /\ \A a, b \in 1..Len(u) : a < b => r[a] < r[b] \/ (r[a] = r[b] /\ p[a] < p[b])
        /\ \A i \in DOMAIN rooms : \A n \in 1..rooms[i].messages :
              \E a \in 1..Len(u) : r[a] = i /\ p[a] = n
    BY <1>5 DEF ListsMessages
  <1>7. /\ rooms \in Seq(RoomUpdate) /\ DOMAIN rooms = 1..Len(rooms) /\ Len(rooms) \in Nat
        /\ \A i, j \in DOMAIN rooms : rooms[i].id = rooms[j].id => i = j
    BY LenProperties DEF Answerable
  <1>8. \A i \in P : i \in DOMAIN rooms /\ rooms[i].status = "invited"
    BY DEF Open
  <1>9. \A i \in DOMAIN rooms : rooms[i].status = "invited" => i \in P
    BY DEF Open
  <1> HIDE DEF v, u, all, P, m
  <1>10. /\ all \in Seq(Event) /\ m \in Nat /\ Len(u) \in Nat /\ Len(all) = m + Len(u)
         /\ \A a \in 1..Len(all) : all[a] = IF a <= m THEN v[a] ELSE u[a - m]
    BY <1>1, <1>2, <1>4, ConcatProperties, LenProperties DEF m
  <1>11. \A a \in 1..Len(all) : (a <= m => a \in 1..m) /\ (~(a <= m) => a - m \in 1..Len(u))
    BY <1>10
  <1>12. \A a \in 1..m : /\ v[a].type = "invite" /\ v[a].token = token
                         /\ v[a].room = rooms[w[a]].id /\ w[a] \in P
                         /\ v[a] = InviteEvent(token, rooms[w[a]].id)
    BY <1>3 DEF InviteEvent, m
  <1>13. \A a \in 1..Len(u) : /\ u[a].type = "message" /\ u[a].token = token
                              /\ u[a].room = rooms[r[a]].id /\ u[a].place = p[a]
                              /\ r[a] \in DOMAIN rooms /\ p[a] \in 1..rooms[r[a]].messages
                              /\ u[a] = MessageEvent(token, rooms[r[a]].id, p[a])
    BY <1>6 DEF MessageEvent
  <1>14. \A a \in 1..Len(all) : /\ all[a].type = "invite" <=> a <= m
                                /\ all[a].type = "message" <=> ~(a <= m)
                                /\ all[a].token = token
    BY <1>10, <1>11, <1>12, <1>13
  <1>15. ASSUME NEW a \in 1..Len(all), NEW b \in 1..Len(all), a < b
         PROVE  all[a] # all[b]
    <2>1. CASE b <= m
      <3>1. a \in 1..m /\ b \in 1..m /\ all[a] = v[a] /\ all[b] = v[b]
        BY <1>10, <1>15, <2>1
      <3>2. w[a] < w[b]
        BY <1>3, <1>15, <3>1 DEF Increases, m
      <3>3. w[a] \in DOMAIN rooms /\ w[b] \in DOMAIN rooms
        BY <1>8, <1>12, <3>1
      <3>4. rooms[w[a]].id # rooms[w[b]].id
        BY <1>7, <3>2, <3>3
      <3> QED BY <1>12, <3>1, <3>4
    <2>2. CASE a <= m /\ ~(b <= m)
      BY <1>14, <2>2
    <2>3. CASE ~(a <= m)
      <3>1. /\ ~(b <= m) /\ a - m \in 1..Len(u) /\ b - m \in 1..Len(u) /\ a - m < b - m
            /\ all[a] = u[a - m] /\ all[b] = u[b - m]
        BY <1>10, <1>11, <1>15, <2>3
      <3>2. \/ r[a - m] < r[b - m]
            \/ (r[a - m] = r[b - m] /\ p[a - m] < p[b - m])
        BY <1>6, <3>1
      <3>3. /\ r[a - m] \in DOMAIN rooms /\ r[b - m] \in DOMAIN rooms
            /\ p[a - m] \in Nat /\ p[b - m] \in Nat
            /\ u[a - m].room = rooms[r[a - m]].id /\ u[b - m].room = rooms[r[b - m]].id
            /\ u[a - m].place = p[a - m] /\ u[b - m].place = p[b - m]
        BY <1>13, <3>1
      <3>4. CASE r[a - m] < r[b - m]
        <4>1. rooms[r[a - m]].id # rooms[r[b - m]].id
          BY <1>7, <3>3, <3>4
        <4> QED BY <3>1, <3>3, <4>1
      <3>5. CASE r[a - m] = r[b - m] /\ p[a - m] < p[b - m]
        BY <3>1, <3>3, <3>5
      <3> QED BY <3>2, <3>4, <3>5
    <2> QED BY <2>1, <2>2, <2>3
  <1>16. \A a, b \in 1..Len(all) : all[a] = all[b] => a = b
    <2> SUFFICES ASSUME NEW a \in 1..Len(all), NEW b \in 1..Len(all), all[a] = all[b] PROVE a = b
      OBVIOUS
    <2>1. ~(a < b) /\ ~(b < a)
      BY <1>15
    <2> QED BY <2>1
  <1>17. ASSUME NEW a \in 1..Len(all), NEW b \in 1..Len(all), a < b, all[b].type = "invite"
         PROVE  all[a].type = "invite"
    BY <1>10, <1>14, <1>17
  <1>18. ASSUME NEW a \in 1..Len(all), all[a].type = "invite"
         PROVE  \E i \in DOMAIN rooms : /\ rooms[i].status = "invited"
                                        /\ all[a] = InviteEvent(token, rooms[i].id)
    BY <1>8, <1>10, <1>11, <1>12, <1>14, <1>18
  <1>19. ASSUME NEW a \in 1..Len(all), all[a].type = "message"
         PROVE  \E i \in DOMAIN rooms : \E n \in 1..rooms[i].messages :
                   all[a] = MessageEvent(token, rooms[i].id, n)
    <2>1. ~(a <= m) /\ a - m \in 1..Len(u) /\ all[a] = u[a - m]
      BY <1>10, <1>11, <1>14, <1>19
    <2>2. /\ r[a - m] \in DOMAIN rooms /\ p[a - m] \in 1..rooms[r[a - m]].messages
          /\ all[a] = MessageEvent(token, rooms[r[a - m]].id, p[a - m])
      BY <1>13, <2>1
    <2> QED BY <2>2
  <1>20. ASSUME NEW i \in DOMAIN rooms, rooms[i].status = "invited"
         PROVE  \E a \in 1..Len(all) : all[a] = InviteEvent(token, rooms[i].id)
    <2>1. PICK a \in 1..m : w[a] = i
      BY <1>3, <1>9, <1>20 DEF Covers, m
    <2>2. a \in 1..Len(all) /\ all[a] = v[a]
      BY <1>10
    <2> QED BY <1>12, <2>1, <2>2
  <1>21. ASSUME NEW i \in DOMAIN rooms, NEW n \in 1..rooms[i].messages
         PROVE  \E a \in 1..Len(all) : all[a] = MessageEvent(token, rooms[i].id, n)
    <2>1. PICK a \in 1..Len(u) : r[a] = i /\ p[a] = n
      BY <1>6
    <2>2. a + m \in 1..Len(all) /\ all[a + m] = u[a]
      BY <1>10
    <2>3. u[a] = MessageEvent(token, rooms[i].id, n)
      BY <1>13, <2>1
    <2> QED BY <2>2, <2>3
  <1>22. ASSUME NEW a \in 1..Len(all), NEW b \in 1..Len(all), a < b,
                all[a].type = "message", all[b].type = "message", all[a].room = all[b].room
         PROVE  all[a].place < all[b].place
    <2>1. /\ ~(a <= m) /\ ~(b <= m) /\ a - m \in 1..Len(u) /\ b - m \in 1..Len(u)
          /\ a - m < b - m /\ all[a] = u[a - m] /\ all[b] = u[b - m]
      BY <1>10, <1>11, <1>14, <1>22
    <2>2. /\ r[a - m] \in DOMAIN rooms /\ r[b - m] \in DOMAIN rooms
          /\ rooms[r[a - m]].id = rooms[r[b - m]].id
          /\ all[a].place = p[a - m] /\ all[b].place = p[b - m]
      BY <1>13, <1>22, <2>1
    <2>3. r[a - m] = r[b - m]
      BY <1>7, <2>2
    <2>4. ~(r[a - m] < r[b - m])
      BY <1>7, <2>2, <2>3
    <2> QED BY <1>6, <2>1, <2>2, <2>4
  <1> QED
    BY <1>10, <1>14, <1>16, <1>17, <1>18, <1>19, <1>20, <1>21, <1>22 DEF Tells, all

LEMMA NothingTold ==
    ASSUME NEW token
    PROVE  OnStateChanged(token, <<>>) = <<>>
  <1> DEFINE none == << >>
  <1>1. none \in Seq({}) /\ Len(none) = 0 /\ DOMAIN none = {}
    BY EmptySeq
  <1> HIDE DEF none
  <1>2. \A P : P \subseteq DOMAIN none => Pick(none, P) = none
    <2> SUFFICES ASSUME NEW P, P \subseteq DOMAIN none PROVE Pick(none, P) = none
      OBVIOUS
    <2>1. P = {} /\ Cardinality(P) = 0
      BY <1>1, FS_EmptySet
    <2>2. DOMAIN Pick(none, P) = 1..0
      BY <2>1 DEF Pick
    <2>3. Pick(none, P) \in [1..0 -> {}]
      BY <2>1 DEF Pick
    <2> QED BY <1>1, <2>3 DEF none
  <1>3. EmitInvite(token, none) = none
    <2>1. {i \in DOMAIN none : none[i].status = "invited"} \subseteq DOMAIN none
      OBVIOUS
    <2>2. EmitInvite(token, none) = [i \in DOMAIN none |-> InviteEvent(token, none[i].id)]
      BY <1>2, <2>1 DEF EmitInvite
    <2>3. EmitInvite(token, none) \in [1..0 -> {}]
      BY <1>1, <2>2
    <2> QED BY <2>3 DEF none
  <1>4. EmitMessage(token, none) = none
    <2>1. {i \in DOMAIN none : none[i].messages > 0} \subseteq DOMAIN none
      OBVIOUS
    <2> DEFINE ss == [i \in DOMAIN none |->
                [n \in 1..none[i].messages |-> MessageEvent(token, none[i].id, n)]]
    <2>2. EmitMessage(token, none) = FlattenSeq(ss)
      <3>1. Pick(none, {i \in DOMAIN none : none[i].messages > 0}) = none
        BY <1>2, <2>1
      <3> QED BY <3>1 DEF EmitMessage
    <2>3. ss \in [1..0 -> {}]
      BY <1>1
    <2>4. ss = none
      <3> HIDE DEF ss
      <3> QED BY <2>3 DEF none
    <2>5. FlattenSeq(none) = none
      BY <1>1 DEF FlattenSeq
    <2> QED BY <2>2, <2>4, <2>5
  <1>5. none \o none = none
    BY <1>1, ConcatEmptySeq DEF none
  <1> QED
    BY <1>3, <1>4, <1>5, OnStateChangedConcat DEF none

----------------------------------------------------------------------------
(* The type invariant. *)

LEMMA InitTypeOK == Init => TypeOK
  <1> SUFFICES ASSUME Init PROVE TypeOK
    OBVIOUS
  <1>1. /\ << >> \in Seq(Event) /\ << >> \in Seq(Listeners) /\ DOMAIN late = {}
    BY EmptySeq DEF Init
  <1>2. state.token = 0 /\ state.rooms \in [Rooms -> Room]
    BY DEF Init, Room, Statuses
  <1>3. 0 \in 0..MaxAnswers /\ 0 \in 0..MaxChanges /\ 0 \in 0..MaxRestarts
    BY BoundsAssumption
  <1> QED
    BY <1>1, <1>2, <1>3 DEF Init, TypeOK

\* What a change of the subscriptions leaves in its place.
ChangeTyped(before) ==
    /\ Changed(before)
    /\ steady' \subseteq steady
    /\ changes' \in 0..MaxChanges

LEMMA ChangeTypes ==
    ASSUME TypeOK, NEW before,
           DOMAIN before \subseteq Types \X Listeners, NotListening(DOMAIN before),
           Change(before)
    PROVE  ChangeTyped(before)
  <1>1. Typed
    BY DEF TypeOK, Typed
  <1>2. Changed(before)
    BY <1>1, ChangeChanges
  <1>3. changes' \in 0..MaxChanges
    BY BoundsAssumption DEF Change, TypeOK
  <1>4. steady' \subseteq steady
    BY DEF Change, Subscribe, RemoveListener, RemoveAllListeners
  <1> QED
    BY <1>2, <1>3, <1>4 DEF ChangeTyped

----------------------------------------------------------------------------
(* What is told and heard. *)

\* The events of the present update, and how many of them were emitted.
All == OnStateChanged(state.token, answer)
Done == Len(All) - Len(events)

\* The event being emitted, and those still to be, are the rest of them.
Remaining ==
    /\ state.token = storage
    /\ Len(events) <= Len(All)
    /\ \A k \in 1..Len(events) : events[k] = All[Done + k]
    /\ calling # <<>> => Done >= 1 /\ event = <<All[Done]>>

\* A listener heard some of those emitted, in their order.
HeardOf(l) ==
    /\ \A k \in DOMAIN heard[l] : \E a \in 1..Done : heard[l][k] = All[a]
    /\ \A i, j \in DOMAIN heard[l] : i < j =>
          \A a, b \in 1..Len(All) : heard[l][i] = All[a] /\ heard[l][j] = All[b] => a <= b

OnceAt(q, l) == \E i \in 1..Len(q) : q[i] = l /\ \A j \in 1..Len(q) : q[j] = l => j = i
AtMostOnce(q, l) == \A i, j \in 1..Len(q) : q[i] = l /\ q[j] = l => i = j

\* The last event that a subscription must have led to a call for.
Reach(s) == IF ToBeCalled(s[2]) /\ event[1].type = s[1] THEN Done - 1 ELSE Done

\* An untouched subscription is there once, and so in the copy; its listener
\* was called for each event of its type up to Reach, once.
Steady(s) ==
    /\ OnceAt(listeners[s[1]], s[2])
    /\ calling # <<>> /\ event[1].type = s[1] => AtMostOnce(calling, s[2])
    /\ \A a \in 1..Done : All[a].type = s[1] =>
          (a <= Reach(s) <=> \E k \in DOMAIN heard[s[2]] : heard[s[2]][k] = All[a])
    /\ \A i, j \in DOMAIN heard[s[2]] :
          heard[s[2]][i].type = s[1] /\ heard[s[2]][i] = heard[s[2]][j] => i = j

\* What was emitted is no event that is still to be.
Emitted ==
    /\ IsInjective(emitted)
    /\ \A k \in DOMAIN emitted : /\ emitted[k].token <= state.token
                                 /\ \A a \in (Done + 1)..Len(All) : emitted[k] # All[a]

\* The store has what the events tell, and what this process was told before.
Stored ==
    /\ \A a \in 1..Len(All) :
          /\ All[a].type = "invite" => state.rooms[All[a].room].status = "invited"
          /\ All[a].type = "message" => All[a] \in state.rooms[All[a].room].messages
    /\ \A k \in DOMAIN emitted : emitted[k].type = "message" /\ emitted[k].token > since
          => emitted[k] \in state.rooms[emitted[k].room].messages

Telling ==
    /\ Tells(All, answer, state.token)
    /\ Remaining
    /\ \A l \in Listeners : HeardOf(l)
    /\ \A s \in steady : Steady(s)
    /\ Emitted
    /\ Stored

----------------------------------------------------------------------------
(* Subscriptions that nobody touches. *)

LEMMA OnceAppended ==
    ASSUME NEW q \in Seq(Listeners), NEW l, NEW x \in Listeners, x # l, OnceAt(q, l)
    PROVE  OnceAt(Append(q, x), l)
  <1> DEFINE r == Append(q, x)
  <1>1. /\ Len(q) \in Nat /\ Len(r) = Len(q) + 1 /\ r[Len(q) + 1] = x
        /\ \A i \in 1..Len(q) : r[i] = q[i]
    BY AppendProperties, LenProperties
  <1> HIDE DEF r
  <1>2. PICK i \in 1..Len(q) : q[i] = l /\ \A j \in 1..Len(q) : q[j] = l => j = i
    BY DEF OnceAt
  <1>3. i \in 1..Len(r) /\ r[i] = l
    BY <1>1, <1>2
  <1>4. ASSUME NEW j \in 1..Len(r), r[j] = l PROVE j = i
    <2>1. j # Len(q) + 1
      BY <1>1, <1>4
    <2>2. j \in 1..Len(q)
      BY <1>1, <2>1
    <2> QED BY <1>1, <1>2, <1>4, <2>2
  <1> QED
    BY <1>3, <1>4 DEF OnceAt, r

LEMMA OnceRemoved ==
    ASSUME NEW q \in Seq(Listeners), NEW l, OnceAt(q, l), NEW m \in 1..Len(q), q[m] # l
    PROVE  OnceAt(RemoveAt(q, m), l)
  <1> DEFINE r == RemoveAt(q, m)
  <1>1. /\ Len(q) \in Nat /\ Len(r) = Len(q) - 1
        /\ \A k \in 1..(Len(q) - 1) : r[k] = IF k < m THEN q[k] ELSE q[k + 1]
    BY RemoveAtElements, LenProperties
  <1> HIDE DEF r
  <1>2. PICK i \in 1..Len(q) : q[i] = l /\ \A j \in 1..Len(q) : q[j] = l => j = i
    BY DEF OnceAt
  <1>3. i # m
    BY <1>2
  <1> DEFINE n == IF i < m THEN i ELSE i - 1
  <1>4. n \in 1..Len(r) /\ r[n] = l
    <2>1. CASE i < m
      BY <1>1, <1>2, <2>1
    <2>2. CASE ~(i < m)
      <3>1. i - 1 \in 1..(Len(q) - 1) /\ ~(i - 1 < m) /\ (i - 1) + 1 = i
        BY <1>1, <1>3, <2>2
      <3> QED BY <1>1, <1>2, <2>2, <3>1
    <2> QED BY <2>1, <2>2
  <1>5. ASSUME NEW j \in 1..Len(r), r[j] = l PROVE j = n
    <2>1. CASE j < m
      <3>1. j \in 1..Len(q) /\ q[j] = l
        BY <1>1, <1>5, <2>1
      <3> QED BY <1>2, <2>1, <3>1
    <2>2. CASE ~(j < m)
      <3>1. j + 1 \in 1..Len(q) /\ q[j + 1] = l
        BY <1>1, <1>5, <2>2
      <3>2. j + 1 = i
        BY <1>2, <3>1
      <3> QED BY <2>2, <3>2, <1>1
    <2> QED BY <2>1, <2>2
  <1> HIDE DEF n
  <1> QED
    BY <1>4, <1>5 DEF OnceAt, r

LEMMA ChangeSteady ==
    ASSUME Typed, NEW before, Change(before), NEW s \in Types \X Listeners, s \in steady',
           OnceAt(listeners[s[1]], s[2])
    PROVE  s \in steady /\ OnceAt(listeners'[s[1]], s[2])
  <1>1. PICK type \in Types :
          \/ \E l \in Listeners : Subscribe(type, l, before) \/ RemoveListener(type, l, before)
          \/ RemoveAllListeners(type, before)
    BY DEF Change
  <1>2. /\ listeners \in [Types -> Seq(Listeners)]
        /\ listeners[type] \in Seq(Listeners) /\ listeners[s[1]] \in Seq(Listeners)
    BY DEF Typed
  <1>3. ASSUME NEW l \in Listeners, Subscribe(type, l, before)
        PROVE  s \in steady /\ OnceAt(listeners'[s[1]], s[2])
    <2>1. /\ listeners' = [listeners EXCEPT ![type] = Append(@, l)]
          /\ s \in steady /\ s # <<type, l>>
      BY <1>3 DEF Subscribe
    <2>2. CASE s[1] = type
      <3>1. l # s[2] /\ listeners'[s[1]] = Append(listeners[s[1]], l)
        BY <1>2, <2>1, <2>2
      <3> QED BY <1>2, <2>1, <3>1, OnceAppended
    <2>3. CASE s[1] # type
      BY <1>2, <2>1, <2>3
    <2> QED BY <2>2, <2>3
  <1>4. ASSUME NEW l \in Listeners, RemoveListener(type, l, before)
        PROVE  s \in steady /\ OnceAt(listeners'[s[1]], s[2])
    <2> DEFINE X == Occurrences(type, l)
    <2>1. /\ listeners' = [listeners EXCEPT ![type] = IF X = {} THEN @ ELSE RemoveAt(@, Max(X))]
          /\ s \in steady /\ s # <<type, l>>
      BY <1>4 DEF RemoveListener
    <2>2. CASE s[1] = type /\ X # {}
      <3>1. l # s[2] /\ listeners'[s[1]] = RemoveAt(listeners[s[1]], Max(X))
        BY <1>2, <2>1, <2>2
      <3>2. X \subseteq 1..Len(listeners[type]) /\ Len(listeners[type]) \in Nat
        BY <1>2, LenProperties DEF Occurrences
      <3>3. \A i \in X : listeners[type][i] = l
        BY DEF Occurrences
      <3> HIDE DEF X
      <3>4. \E k \in X : \A j \in X : j <= k
        BY <2>2, <3>2, Greatest
      <3>5. \A j, k \in X : j <= k <=> k >= j
        BY <3>2
      <3>6. Max(X) \in X
        BY <3>4, <3>5 DEF Max
      <3>7. Max(X) \in 1..Len(listeners[s[1]]) /\ listeners[s[1]][Max(X)] # s[2]
        BY <2>2, <3>1, <3>2, <3>3, <3>6
      <3> QED BY <1>2, <2>1, <3>1, <3>7, OnceRemoved
    <2>3. CASE ~(s[1] = type /\ X # {})
      BY <1>2, <2>1, <2>3
    <2> QED BY <2>2, <2>3
  <1>5. ASSUME RemoveAllListeners(type, before)
        PROVE  s \in steady /\ OnceAt(listeners'[s[1]], s[2])
    <2>1. /\ listeners' = [listeners EXCEPT ![type] = <<>>]
          /\ s \in steady /\ s \notin {type} \X Listeners
      BY <1>5 DEF RemoveAllListeners
    <2>2. s[1] # type
      BY <2>1
    <2> QED BY <1>2, <2>1, <2>2
  <1> QED
    BY <1>1, <1>3, <1>4, <1>5

----------------------------------------------------------------------------
(* The steps, one by one. *)

AllInv == IInv /\ TypeOK /\ Telling

LEMMA NoneTold ==
    ASSUME NEW token PROVE Tells(OnStateChanged(token, <<>>), <<>>, token)
  <1> DEFINE none == << >>
  <1>1. OnStateChanged(token, <<>>) = none
    BY NothingTold
  <1>2. none \in Seq(Event) /\ Len(none) = 0 /\ DOMAIN none = {}
    BY EmptySeq
  <1>3. Tells(none, none, token)
    <2> HIDE DEF none
    <2> QED BY <1>2 DEF Tells
  <1> QED
    BY <1>1, <1>3 DEF none

\* Before the first update, and after a restart.
Afresh ==
    /\ answer = <<>> /\ events = <<>> /\ calling = <<>> /\ state.token = storage
    /\ heard = [l \in Listeners |-> <<>>] /\ steady = {}
    /\ IsInjective(emitted)
    /\ \A k \in DOMAIN emitted :
          emitted[k].token <= state.token /\ ~(emitted[k].token > since)

LEMMA FreshTelling == Afresh => Telling
  <1> SUFFICES ASSUME Afresh PROVE Telling
    OBVIOUS
  <1> USE DEF Afresh
  <1>1. All = <<>> /\ Tells(All, answer, state.token)
    BY NothingTold, NoneTold DEF All
  <1>2. Len(All) = 0 /\ Len(events) = 0 /\ Done = 0
    BY <1>1 DEF Done
  <1>3. Remaining
    BY <1>2 DEF Remaining
  <1>4. \A l \in Listeners : HeardOf(l)
    <2>1. \A l \in Listeners : DOMAIN heard[l] = {}
      OBVIOUS
    <2> QED BY <2>1 DEF HeardOf
  <1>5. Emitted
    <2>1. (Done + 1)..Len(All) = {}
      BY <1>2
    <2> QED BY <2>1 DEF Emitted
  <1>6. Stored
    <2>1. 1..Len(All) = {}
      BY <1>2
    <2> QED BY <2>1 DEF Stored
  <1> QED
    BY <1>1, <1>3, <1>4, <1>5, <1>6 DEF Telling

LEMMA InitTelling == Init => Telling
  <1> SUFFICES ASSUME Init PROVE Telling
    OBVIOUS
  <1>1. DOMAIN emitted = {} /\ IsInjective(emitted)
    BY EmptySeq DEF Init, IsInjective
  <1>2. state.token = storage
    BY DEF Init
  <1> QED
    BY <1>1, <1>2, FreshTelling DEF Init, Afresh

LEMMA RestartTells ==
    ASSUME AllInv, Restart PROVE TypeOK' /\ Telling'
  <1>1. /\ restarts < MaxRestarts /\ restarts' = restarts + 1
        /\ since' = storage /\ storage' = storage /\ emitted' = emitted /\ changes' = changes
        /\ state' = [token |-> storage,
                     rooms |-> [id \in Rooms |-> [state.rooms[id] EXCEPT !.messages = {}]]]
        /\ listeners' = [type \in Types |-> <<>>]
        /\ answer' = <<>> /\ events' = <<>> /\ event' = <<>> /\ calling' = <<>>
        /\ heard' = [l \in Listeners |-> <<>>] /\ steady' = {} /\ late' = <<>>
    BY DEF Restart
  <1>2. TypeOK /\ Telling
    BY DEF AllInv
  <1>3. storage \in 0..MaxAnswers /\ state.token = storage
    BY <1>2 DEF TypeOK, Telling, Remaining
  <1>4. emitted \in Seq(Event) /\ \A k \in DOMAIN emitted : emitted[k] \in Event
    BY <1>2, LenProperties, ElementOfSeq DEF TypeOK
  <1>5. \A k \in DOMAIN emitted : emitted[k].token \in Nat
    BY <1>4 DEF Event
  <1>6. IsInjective(emitted) /\ \A k \in DOMAIN emitted : emitted[k].token <= storage
    BY <1>2, <1>3 DEF Telling, Emitted
  <1>7. \A k \in DOMAIN emitted : ~(emitted[k].token > storage)
    BY <1>3, <1>5, <1>6, BoundsAssumption
  <1>8. state'.token = storage'
    BY <1>1
  <1>9. Telling'
    <2>1. Afresh'
      BY <1>1, <1>3, <1>5, <1>6, <1>7, <1>8 DEF Afresh
    <2>2. Afresh' => Telling'
      BY FreshTelling, PTL
    <2> QED BY <2>1, <2>2
  <1>10. state'.rooms \in [Rooms -> Room]
    BY <1>1, <1>2 DEF TypeOK, Room
  <1>11. << >> \in Seq(Event) /\ << >> \in Seq(Listeners) /\ DOMAIN late' = {}
    BY <1>1, EmptySeq
  <1>12. since' \in 0..storage' /\ restarts' \in 0..MaxRestarts
    BY <1>1, <1>2, <1>3, BoundsAssumption DEF TypeOK
  <1>13. TypeOK'
    BY <1>1, <1>2, <1>3, <1>8, <1>10, <1>11, <1>12 DEF TypeOK
  <1> QED
    BY <1>9, <1>13

LEMMA MergeTypes ==
    ASSUME NEW rooms, Answerable(rooms), NEW token \in Nat \ {0}, NEW old \in [Rooms -> Room]
    PROVE  MergeRooms(old, rooms, token) \in [Rooms -> Room]
  <1> SUFFICES ASSUME NEW id \in Rooms
               PROVE  (IF \E i \in DOMAIN rooms : rooms[i].id = id
                       THEN Merge(old[id], rooms[CHOOSE i \in DOMAIN rooms : rooms[i].id = id], token)
                       ELSE old[id]) \in Room
    BY DEF MergeRooms
  <1>1. CASE \E i \in DOMAIN rooms : rooms[i].id = id
    <2> DEFINE i == CHOOSE i \in DOMAIN rooms : rooms[i].id = id
    <2>1. i \in DOMAIN rooms
      BY <1>1
    <2> HIDE DEF i
    <2>2. rooms[i] \in RoomUpdate
      BY <2>1, LenProperties, ElementOfSeq DEF Answerable
    <2>3. /\ rooms[i].id \in Rooms /\ rooms[i].status \in Statuses /\ "message" \in Types
          /\ rooms[i].messages \in Nat
      BY <2>2, TypesAre DEF RoomUpdate
    <2>4. \A n \in 1..rooms[i].messages : MessageEvent(token, rooms[i].id, n) \in Event
      BY <2>3 DEF MessageEvent, Event
    <2>5. old[id].messages \subseteq Event
      BY DEF Room
    <2>6. Merge(old[id], rooms[i], token) \in Room
      BY <2>3, <2>4, <2>5 DEF Merge, Room
    <2> QED BY <1>1, <2>6 DEF i
  <1>2. CASE ~(\E i \in DOMAIN rooms : rooms[i].id = id)
    BY <1>2
  <1> QED
    BY <1>1, <1>2

\* A room of the answer, as the store has it from now on.
LEMMA MergedRoom ==
    ASSUME NEW rooms, Answerable(rooms), NEW token, NEW old, NEW i \in DOMAIN rooms
    PROVE  MergeRooms(old, rooms, token)[rooms[i].id] = Merge(old[rooms[i].id], rooms[i], token)
  <1>1. rooms[i].id \in Rooms
    <2>1. rooms[i] \in RoomUpdate
      BY LenProperties, ElementOfSeq DEF Answerable
    <2> QED BY <2>1 DEF RoomUpdate
  <1>2. (CHOOSE j \in DOMAIN rooms : rooms[j].id = rooms[i].id) = i
    BY DEF Answerable
  <1> QED
    BY <1>1, <1>2 DEF MergeRooms

LEMMA UpdateTells ==
    ASSUME AllInv, NEW rooms \in Answers, Update(rooms) PROVE TypeOK' /\ Telling'
  <1> DEFINE token == state.token + 1
  <1>1. /\ events = <<>> /\ calling = <<>> /\ state.token < MaxAnswers
        /\ state' = [token |-> token, rooms |-> MergeRooms(state.rooms, rooms, token)]
        /\ storage' = token /\ events' = OnStateChanged(token, rooms)
        /\ answer' = rooms /\ event' = <<>>
        /\ heard' = [l \in Listeners |-> <<>>] /\ steady' = Once
        /\ calling' = calling /\ listeners' = listeners /\ late' = late /\ changes' = changes
        /\ since' = since /\ emitted' = emitted /\ restarts' = restarts
    BY DEF Update, Idle
  <1>2. TypeOK /\ Telling
    BY DEF AllInv
  <1>3. Answerable(rooms)
    BY AnswersAnswerable
  <1>4. token \in Nat \ {0} /\ token \in 0..MaxAnswers
    BY <1>1, <1>2, BoundsAssumption DEF TypeOK
  <1>5. All' = events' /\ state'.token = token /\ state'.rooms = MergeRooms(state.rooms, rooms, token)
    BY <1>1 DEF All
  <1>6. Tells(All', answer', token)
    BY <1>1, <1>3, <1>4, <1>5, OnStateChangedTells
  <1> HIDE DEF token
  <1>7. events' \in Seq(Event) /\ Len(events') \in Nat
    BY <1>5, <1>6, LenProperties DEF Tells
  <1>8. Done' = 0
    BY <1>5, <1>7 DEF Done
  <1>9. Remaining'
    BY <1>1, <1>5, <1>7, <1>8 DEF Remaining
  <1>10. \A l \in Listeners : HeardOf(l)'
    <2>1. \A l \in Listeners : DOMAIN heard'[l] = {}
      BY <1>1
    <2> QED BY <2>1 DEF HeardOf
  <1>11. \A s \in Once : s \in Types \X Listeners /\ OnceAt(listeners[s[1]], s[2])
    <2> SUFFICES ASSUME NEW s \in Once PROVE s \in Types \X Listeners /\ OnceAt(listeners[s[1]], s[2])
      OBVIOUS
    <2>1. s \in Types \X Listeners /\ Cardinality(Occurrences(s[1], s[2])) = 1
      BY DEF Once
    <2>2. listeners[s[1]] \in Seq(Listeners)
      BY <1>2, <2>1 DEF TypeOK
    <2>3. /\ DOMAIN listeners[s[1]] = 1..Len(listeners[s[1]]) /\ Len(listeners[s[1]]) \in Nat
          /\ Occurrences(s[1], s[2]) \subseteq 1..Len(listeners[s[1]])
      BY <2>2, LenProperties DEF Occurrences
    <2>4. IsFiniteSet(Occurrences(s[1], s[2]))
      BY <2>3, FiniteRange
    <2>5. PICK i : Occurrences(s[1], s[2]) = {i}
      BY <2>1, <2>4, FS_Singleton
    <2> QED BY <2>1, <2>3, <2>5 DEF OnceAt, Occurrences
  <1>12. \A s \in steady' : Steady(s)'
    <2> SUFFICES ASSUME NEW s \in Once PROVE Steady(s)'
      BY <1>1
    <2>1. s[2] \in Listeners
      BY <1>11
    <2>2. DOMAIN heard'[s[2]] = {} /\ 1..Done' = {}
      BY <1>1, <1>8, <2>1
    <2> QED BY <1>1, <1>11, <2>2 DEF Steady
  <1>13. emitted \in Seq(Event) /\ \A k \in DOMAIN emitted : emitted[k] \in Event
    BY <1>2, LenProperties, ElementOfSeq DEF TypeOK
  <1>14. Emitted'
    <2>1. \A k \in DOMAIN emitted : emitted[k].token \in Nat /\ emitted[k].token <= state.token
      BY <1>2, <1>13 DEF Telling, Emitted, Event
    <2>2. state.token \in Nat /\ token = state.token + 1
      BY <1>2 DEF TypeOK, token
    <2>3. \A a \in 1..Len(All') : All'[a].token = token
      BY <1>6 DEF Tells
    <2>4. \A k \in DOMAIN emitted : /\ emitted[k].token <= token
                                    /\ \A a \in 1..Len(All') : emitted[k] # All'[a]
      BY <2>1, <2>2, <2>3
    <2>5. IsInjective(emitted)
      BY <1>2 DEF Telling, Emitted
    <2> QED BY <1>1, <1>5, <1>8, <2>4, <2>5 DEF Emitted
  <1>15. Stored'
    <2>1. ASSUME NEW a \in 1..Len(All')
          PROVE  /\ All'[a].type = "invite" => state'.rooms[All'[a].room].status = "invited"
                 /\ All'[a].type = "message" => All'[a] \in state'.rooms[All'[a].room].messages
      <3>1. CASE All'[a].type = "invite"
        <4>1. PICK i \in DOMAIN rooms : /\ rooms[i].status = "invited"
                                        /\ All'[a] = InviteEvent(token, rooms[i].id)
          BY <1>1, <1>6, <3>1 DEF Tells
        <4>2. All'[a].room = rooms[i].id
          BY <4>1 DEF InviteEvent
        <4>3. state'.rooms[rooms[i].id] = Merge(state.rooms[rooms[i].id], rooms[i], token)
          BY <1>3, <1>5, MergedRoom
        <4> QED BY <3>1, <4>1, <4>2, <4>3 DEF Merge
      <3>2. CASE All'[a].type = "message"
        <4>1. PICK i \in DOMAIN rooms : \E n \in 1..rooms[i].messages :
                                           All'[a] = MessageEvent(token, rooms[i].id, n)
          BY <1>1, <1>6, <3>2 DEF Tells
        <4>2. All'[a].room = rooms[i].id
          BY <4>1 DEF MessageEvent
        <4>3. state'.rooms[rooms[i].id] = Merge(state.rooms[rooms[i].id], rooms[i], token)
          BY <1>3, <1>5, MergedRoom
        <4>4. All'[a] \in state'.rooms[rooms[i].id].messages
          BY <4>1, <4>3 DEF Merge
        <4> QED BY <3>2, <4>2, <4>4
      <3> QED BY <3>1, <3>2
    <2>2. ASSUME NEW k \in DOMAIN emitted, emitted[k].type = "message", emitted[k].token > since
          PROVE  emitted[k] \in state'.rooms[emitted[k].room].messages
      <3>1. emitted[k] \in state.rooms[emitted[k].room].messages /\ emitted[k].room \in Rooms
        BY <1>2, <1>13, <2>2 DEF Telling, Stored, Event
      <3>2. CASE \E i \in DOMAIN rooms : rooms[i].id = emitted[k].room
        <4>1. PICK i \in DOMAIN rooms : rooms[i].id = emitted[k].room
          BY <3>2
        <4>2. state'.rooms[rooms[i].id] = Merge(state.rooms[rooms[i].id], rooms[i], token)
          BY <1>3, <1>5, MergedRoom
        <4> QED BY <3>1, <4>1, <4>2 DEF Merge
      <3>3. CASE ~(\E i \in DOMAIN rooms : rooms[i].id = emitted[k].room)
        BY <1>5, <3>1, <3>3 DEF MergeRooms
      <3> QED BY <3>2, <3>3
    <2> QED BY <1>1, <2>1, <2>2 DEF Stored
  <1>16. Telling'
    BY <1>5, <1>6, <1>9, <1>10, <1>12, <1>14, <1>15 DEF Telling
  <1>17. steady' \subseteq Subscribed'
    <2> SUFFICES ASSUME NEW s \in Once PROVE s \in Types \X Listeners /\ Occurrences(s[1], s[2]) # {}
      BY <1>1 DEF Subscribed, Occurrences
    <2>1. s \in Types \X Listeners /\ OnceAt(listeners[s[1]], s[2])
      BY <1>11
    <2>2. DOMAIN listeners[s[1]] = 1..Len(listeners[s[1]])
      BY <1>2, <2>1, LenProperties DEF TypeOK
    <2> QED BY <2>1, <2>2 DEF OnceAt, Occurrences
  <1>18. state'.rooms \in [Rooms -> Room]
    BY <1>2, <1>3, <1>4, <1>5, MergeTypes DEF TypeOK
  <1>19. heard' \in [Listeners -> Seq(Event)]
    BY <1>1, EmptySeq
  <1>20. since' \in 0..storage' /\ state'.token \in 0..MaxAnswers /\ storage' \in 0..MaxAnswers
    BY <1>1, <1>2, <1>4, <1>5, BoundsAssumption DEF TypeOK, Telling, Remaining, token
  <1>21. TypeOK'
    BY <1>1, <1>2, <1>7, <1>17, <1>18, <1>19, <1>20 DEF TypeOK
  <1> QED
    BY <1>16, <1>21

LEMMA EmitTells ==
    ASSUME AllInv, Emit PROVE TypeOK' /\ Telling'
  <1>1. /\ calling = <<>> /\ events # <<>>
        /\ event' = <<Head(events)>> /\ events' = Tail(events)
        /\ calling' = listeners[Head(events).type]
        /\ emitted' = Append(emitted, Head(events))
        /\ state' = state /\ storage' = storage /\ answer' = answer /\ listeners' = listeners
        /\ steady' = steady /\ late' = late /\ changes' = changes /\ heard' = heard
        /\ since' = since /\ restarts' = restarts
    BY DEF Emit, subscriptions
  <1>2. TypeOK /\ Telling
    BY DEF AllInv
  <1>3. /\ All \in Seq(Event) /\ Len(All) \in Nat
        /\ \A a \in 1..Len(All) : All[a].token = state.token
        /\ \A a, b \in 1..Len(All) : All[a] = All[b] => a = b
    BY <1>2, LenProperties DEF Telling, Tells
  <1>4. /\ events \in Seq(Event) /\ Len(events) \in Nat /\ Len(events) >= 1
        /\ Head(events) \in Event /\ Head(events) = events[1]
        /\ Tail(events) \in Seq(Event) /\ Len(Tail(events)) = Len(events) - 1
        /\ \A k \in 1..(Len(events) - 1) : Tail(events)[k] = events[k + 1]
    BY <1>1, <1>2, HeadTailProperties, LenProperties DEF TypeOK
  <1>5. /\ Len(events) <= Len(All) /\ \A k \in 1..Len(events) : events[k] = All[Done + k]
        /\ state.token = storage
    BY <1>2 DEF Telling, Remaining
  <1>6. Done \in Nat /\ Done + 1 \in 1..Len(All) /\ Len(events) = Len(All) - Done
    BY <1>3, <1>4, <1>5 DEF Done
  <1>7. All' = All /\ Done' = Done + 1
    BY <1>1, <1>3, <1>4 DEF All, Done
  <1> DEFINE e == Head(events)
  <1>8. e = All[Done + 1] /\ event'[1] = e /\ e.type \in Types
    BY <1>1, <1>4, <1>5 DEF Event
  <1>9. Remaining'
    <2>1. \A k \in 1..Len(Tail(events)) : Tail(events)[k] = All[(Done + 1) + k]
      <3> SUFFICES ASSUME NEW k \in 1..Len(Tail(events)) PROVE Tail(events)[k] = All[(Done + 1) + k]
        OBVIOUS
      <3>1. k \in 1..(Len(events) - 1) /\ k + 1 \in 1..Len(events) /\ Done + (k + 1) = (Done + 1) + k
        BY <1>4, <1>6
      <3> QED BY <1>4, <1>5, <3>1
    <2>2. Len(Tail(events)) <= Len(All) /\ Done + 1 >= 1
      BY <1>3, <1>4, <1>5, <1>6
    <2> QED BY <1>1, <1>5, <1>7, <1>8, <2>1, <2>2 DEF Remaining
  <1> HIDE DEF e
  <1>10. ASSUME NEW l \in Listeners PROVE HeardOf(l)'
    <2>1. HeardOf(l)
      BY <1>2 DEF Telling
    <2>2. 1..Done \subseteq 1..(Done + 1)
      BY <1>6
    <2> QED BY <1>1, <1>7, <2>1, <2>2 DEF HeardOf
  <1>11. ASSUME NEW s \in steady PROVE Steady(s)'
    <2>1. s \in Types \X Listeners /\ Steady(s) /\ listeners[s[1]] \in Seq(Listeners)
      BY <1>2 DEF TypeOK, Telling, Subscribed
    <2>2. PICK i \in 1..Len(listeners[s[1]]) :
            /\ listeners[s[1]][i] = s[2]
            /\ \A j \in 1..Len(listeners[s[1]]) : listeners[s[1]][j] = s[2] => j = i
      BY <2>1 DEF Steady, OnceAt
    <2>3. e.type = s[1] => ToBeCalled(s[2])' /\ AtMostOnce(calling', s[2])
      BY <1>1, <2>2 DEF ToBeCalled, AtMostOnce, e
    <2>4. Reach(s) = Done
      <3>1. Len(calling) = 0
        BY <1>1
      <3> QED BY <3>1 DEF Reach, ToBeCalled
    <2>5. Reach(s)' = IF e.type = s[1] THEN Done ELSE Done + 1
      BY <1>6, <1>7, <1>8, <2>3 DEF Reach
    <2>6. HeardOf(s[2])
      BY <1>2, <2>1 DEF Telling
    <2>7. ASSUME NEW a \in 1..(Done + 1), All[a].type = s[1]
          PROVE  a <= Reach(s)' <=> \E k \in DOMAIN heard[s[2]] : heard[s[2]][k] = All[a]
      <3>1. CASE a \in 1..Done
        <4>1. \E k \in DOMAIN heard[s[2]] : heard[s[2]][k] = All[a]
          BY <1>6, <2>1, <2>4, <2>7, <3>1 DEF Steady
        <4>2. a <= Done /\ a <= Done + 1
          BY <1>6, <3>1
        <4> QED BY <2>5, <4>1, <4>2
      <3>2. CASE a = Done + 1
        <4>1. e.type = s[1]
          BY <1>8, <2>7, <3>2
        <4>2. ~(a <= Reach(s)')
          BY <1>6, <2>5, <3>2, <4>1
        <4>3. ASSUME NEW k \in DOMAIN heard[s[2]], heard[s[2]][k] = All[a] PROVE FALSE
          <5>1. PICK b \in 1..Done : heard[s[2]][k] = All[b]
            BY <2>6 DEF HeardOf
          <5>2. b \in 1..Len(All) /\ a \in 1..Len(All) /\ b # a
            BY <1>3, <1>6, <3>2
          <5> QED BY <1>3, <4>3, <5>1, <5>2
        <4> QED BY <4>2, <4>3
      <3> QED BY <1>6, <3>1, <3>2
    <2>8. OnceAt(listeners[s[1]], s[2])
      BY <2>1 DEF Steady
    <2>9. \A i2, j \in DOMAIN heard[s[2]] :
             heard[s[2]][i2].type = s[1] /\ heard[s[2]][i2] = heard[s[2]][j] => i2 = j
      BY <2>1 DEF Steady
    <2> QED BY <1>1, <1>7, <1>8, <2>3, <2>7, <2>8, <2>9 DEF Steady
  <1>12. /\ emitted \in Seq(Event) /\ Append(emitted, e) \in Seq(Event)
         /\ DOMAIN emitted = 1..Len(emitted) /\ Len(emitted) \in Nat
         /\ DOMAIN Append(emitted, e) = 1..(Len(emitted) + 1)
         /\ \A i \in 1..Len(emitted) : Append(emitted, e)[i] = emitted[i]
         /\ Append(emitted, e)[Len(emitted) + 1] = e
    <2>1. emitted \in Seq(Event) /\ e \in Event
      BY <1>2, <1>4 DEF TypeOK, e
    <2>2. Append(emitted, e) \in Seq(Event) /\ Len(Append(emitted, e)) = Len(emitted) + 1
      BY <2>1, AppendProperties
    <2> QED BY <2>1, <2>2, AppendProperties, LenProperties
  <1>13. emitted' = Append(emitted, e)
    BY <1>1 DEF e
  <1>14. Emitted'
    <2>1. IsInjective(emitted) /\ \A k \in DOMAIN emitted :
             /\ emitted[k].token <= state.token
             /\ \A a \in (Done + 1)..Len(All) : emitted[k] # All[a]
      BY <1>2 DEF Telling, Emitted
    <2>2. e.token = state.token /\ state.token \in Nat
      BY <1>2, <1>3, <1>6, <1>8 DEF TypeOK
    <2>3. \A k \in DOMAIN emitted : emitted[k] # e
      BY <1>6, <1>8, <2>1
    <2>4. ASSUME NEW i \in DOMAIN emitted', NEW j \in DOMAIN emitted', emitted'[i] = emitted'[j]
          PROVE  i = j
      <3>1. CASE i \in DOMAIN emitted /\ j \in DOMAIN emitted
        BY <1>12, <1>13, <2>1, <2>4, <3>1 DEF IsInjective
      <3>2. CASE i = Len(emitted) + 1 \/ j = Len(emitted) + 1
        BY <1>12, <1>13, <2>3, <2>4, <3>2
      <3> QED BY <1>12, <1>13, <3>1, <3>2
    <2>5. IsInjective(emitted')
      BY <2>4 DEF IsInjective
    <2>6. ASSUME NEW k \in DOMAIN emitted'
          PROVE  /\ emitted'[k].token <= state.token
                 /\ \A a \in ((Done + 1) + 1)..Len(All) : emitted'[k] # All[a]
      <3>1. CASE k \in DOMAIN emitted
        <4>1. \A a \in ((Done + 1) + 1)..Len(All) : a \in (Done + 1)..Len(All)
          BY <1>3, <1>6
        <4> QED BY <1>12, <1>13, <2>1, <3>1, <4>1
      <3>2. CASE k = Len(emitted) + 1
        <4>1. emitted'[k] = e
          BY <1>12, <1>13, <3>2
        <4>2. \A a \in ((Done + 1) + 1)..Len(All) : a \in 1..Len(All) /\ a # Done + 1
          BY <1>3, <1>6
        <4>3. \A a \in ((Done + 1) + 1)..Len(All) : e # All[a]
          BY <1>3, <1>6, <1>8, <4>2
        <4> QED BY <2>2, <4>1, <4>3
      <3> QED BY <1>12, <1>13, <3>1, <3>2
    <2> QED BY <1>1, <1>7, <2>5, <2>6 DEF Emitted
  <1>15. Stored'
    <2>1. /\ \A a \in 1..Len(All) :
                /\ All[a].type = "invite" => state.rooms[All[a].room].status = "invited"
                /\ All[a].type = "message" => All[a] \in state.rooms[All[a].room].messages
          /\ \A k \in DOMAIN emitted : emitted[k].type = "message" /\ emitted[k].token > since
                => emitted[k] \in state.rooms[emitted[k].room].messages
      BY <1>2 DEF Telling, Stored
    <2>2. e.type = "message" => e \in state.rooms[e.room].messages
      BY <1>6, <1>8, <2>1
    <2>3. ASSUME NEW k \in DOMAIN emitted', emitted'[k].type = "message", emitted'[k].token > since
          PROVE  emitted'[k] \in state.rooms[emitted'[k].room].messages
      <3>1. CASE k \in DOMAIN emitted
        <4>1. emitted'[k] = emitted[k]
          BY <1>12, <1>13, <3>1
        <4> QED BY <2>1, <2>3, <3>1, <4>1
      <3>2. CASE k = Len(emitted) + 1
        <4>1. emitted'[k] = e
          BY <1>12, <1>13, <3>2
        <4> QED BY <2>2, <2>3, <4>1
      <3> QED BY <1>12, <1>13, <3>1, <3>2
    <2> QED BY <1>1, <1>7, <2>1, <2>3 DEF Stored
  <1>16. Tells(All, answer, state.token)'
    BY <1>1, <1>2, <1>7 DEF Telling
  <1>17. Telling'
    BY <1>1, <1>9, <1>10, <1>11, <1>14, <1>15, <1>16 DEF Telling
  <1>18. calling' \in Seq(Listeners)
    BY <1>1, <1>2, <1>8 DEF TypeOK, e
  <1>19. event' \in [1..1 -> Event]
    BY <1>1, <1>4
  <1>20. events' \in Seq(Event) /\ emitted' \in Seq(Event)
    BY <1>1, <1>4, <1>12, <1>13
  <1>21. TypeOK'
    BY <1>1, <1>2, <1>18, <1>19, <1>20 DEF TypeOK, Subscribed, Occurrences
  <1> QED
    BY <1>17, <1>21

\* What an untouched subscription means to TypeOK.
LEMMA SteadySubscribed ==
    ASSUME listeners' \in [Types -> Seq(Listeners)],
           \A s \in steady' : s \in Types \X Listeners /\ OnceAt(listeners'[s[1]], s[2])
    PROVE  steady' \subseteq Subscribed'
  <1> SUFFICES ASSUME NEW s \in steady'
               PROVE  s \in Types \X Listeners /\ Occurrences(s[1], s[2])' # {}
    BY DEF Subscribed
  <1>1. s \in Types \X Listeners /\ OnceAt(listeners'[s[1]], s[2])
    OBVIOUS
  <1>2. DOMAIN listeners'[s[1]] = 1..Len(listeners'[s[1]])
    BY <1>1, LenProperties
  <1> QED
    BY <1>1, <1>2 DEF OnceAt, Occurrences

LEMMA ApplicationTells ==
    ASSUME AllInv, Application PROVE TypeOK' /\ Telling'
  <1>1. /\ events = <<>> /\ calling = <<>> /\ Change(late)
        /\ state' = state /\ storage' = storage /\ answer' = answer /\ events' = events
        /\ event' = event /\ calling' = calling /\ heard' = heard /\ since' = since
        /\ emitted' = emitted /\ restarts' = restarts
    BY DEF Application, Idle, dispatch
  <1>2. TypeOK /\ Telling /\ Typed /\ NotListening(DOMAIN late)
    BY DEF AllInv, IInv
  <1>3. ChangeTyped(late)
    BY <1>1, <1>2, ChangeTypes DEF Typed
  <1>4. ASSUME NEW s \in steady'
        PROVE  s \in Types \X Listeners /\ s \in steady /\ OnceAt(listeners'[s[1]], s[2])
    <2>1. s \in steady /\ s \in Types \X Listeners
      BY <1>2, <1>3 DEF ChangeTyped, TypeOK, Subscribed
    <2>2. OnceAt(listeners[s[1]], s[2])
      BY <1>2, <2>1 DEF Telling, Steady
    <2> QED BY <1>1, <1>2, <1>4, <2>1, <2>2, ChangeSteady
  <1>5. All' = All /\ Done' = Done
    BY <1>1 DEF All, Done
  <1>6. \A s \in steady' : Steady(s)'
    <2> SUFFICES ASSUME NEW s \in steady' PROVE Steady(s)'
      OBVIOUS
    <2>1. Steady(s) /\ OnceAt(listeners'[s[1]], s[2])
      BY <1>2, <1>4 DEF Telling
    <2>2. Reach(s)' = Reach(s)
      BY <1>1, <1>5 DEF Reach, ToBeCalled
    <2> QED BY <1>1, <1>5, <2>1, <2>2 DEF Steady
  <1>7. Telling'
    BY <1>1, <1>2, <1>5, <1>6 DEF Telling, Remaining, HeardOf, Emitted, Stored
  <1>8. \A s \in DOMAIN late' : s \in Types \X Listeners /\ late'[s] \subseteq Event
    BY <1>2, <1>3 DEF ChangeTyped, Changed, TypeOK
  <1>9. listeners' \in [Types -> Seq(Listeners)]
    BY <1>3 DEF ChangeTyped, Changed
  <1>10. steady' \subseteq Subscribed'
    BY <1>4, <1>9, SteadySubscribed
  <1>11. TypeOK'
    BY <1>1, <1>2, <1>3, <1>8, <1>9, <1>10 DEF TypeOK, ChangeTyped
  <1> QED
    BY <1>7, <1>11

LEMMA CallTells ==
    ASSUME AllInv, Call PROVE TypeOK' /\ Telling'
  <1> DEFINE l == Head(calling)
             e == event[1]
             before == HeardLate(l)
  <1>1. /\ calling # <<>> /\ calling' = Tail(calling)
        /\ heard' = [heard EXCEPT ![l] = Append(@, e)]
        /\ Change(before) \/ (late' = before /\ listeners' = listeners
                              /\ steady' = steady /\ changes' = changes)
        /\ state' = state /\ storage' = storage /\ answer' = answer /\ events' = events
        /\ event' = event /\ since' = since /\ emitted' = emitted /\ restarts' = restarts
    BY DEF Call
  <1>2. TypeOK /\ Telling /\ Typed /\ NotListening(DOMAIN late)
    BY DEF AllInv, IInv
  <1>3. /\ All \in Seq(Event) /\ Len(All) \in Nat
        /\ \A a, b \in 1..Len(All) : All[a] = All[b] => a = b
    BY <1>2, LenProperties DEF Telling, Tells
  <1>4. /\ Done \in Nat /\ Done \in 1..Len(All) /\ event = <<All[Done]>> /\ e = All[Done]
    <2>1. /\ Done >= 1 /\ event = <<All[Done]>> /\ Len(events) <= Len(All)
      BY <1>1, <1>2 DEF Telling, Remaining
    <2>2. Len(events) \in Nat
      BY <1>2, LenProperties DEF TypeOK
    <2> QED BY <1>3, <2>1, <2>2 DEF Done
  <1>5. e \in Event /\ e.type \in Types
    <2>1. e \in Event
      BY <1>3, <1>4, ElementOfSeq
    <2> QED BY <2>1 DEF Event
  <1>6. /\ calling \in Seq(Listeners) /\ Len(calling) \in Nat /\ Len(calling) >= 1
        /\ l \in Listeners /\ l = calling[1]
        /\ Tail(calling) \in Seq(Listeners) /\ Len(Tail(calling)) = Len(calling) - 1
        /\ \A k \in 1..(Len(calling) - 1) : Tail(calling)[k] = calling[k + 1]
    BY <1>1, <1>2, HeadTailProperties, LenProperties DEF TypeOK
  <1>7. /\ DOMAIN before = DOMAIN late
        /\ \A s \in DOMAIN late : before[s] =
              IF s = <<e.type, l>> THEN late[s] \cup {e} ELSE late[s]
    BY DEF HeardLate
  <1>8. \A s \in DOMAIN before : s \in Types \X Listeners /\ before[s] \subseteq Event
    BY <1>2, <1>5, <1>7 DEF TypeOK
  <1>9. DOMAIN before \subseteq Types \X Listeners /\ NotListening(DOMAIN before)
    BY <1>2, <1>7, <1>8
  <1>10. /\ heard[l] \in Seq(Event) /\ Append(heard[l], e) \in Seq(Event)
         /\ Len(heard[l]) \in Nat /\ DOMAIN heard[l] = 1..Len(heard[l])
         /\ DOMAIN Append(heard[l], e) = 1..(Len(heard[l]) + 1)
         /\ \A k \in 1..Len(heard[l]) : Append(heard[l], e)[k] = heard[l][k]
         /\ Append(heard[l], e)[Len(heard[l]) + 1] = e
    <2>1. heard[l] \in Seq(Event)
      BY <1>2, <1>6 DEF TypeOK
    <2>2. Append(heard[l], e) \in Seq(Event) /\ Len(Append(heard[l], e)) = Len(heard[l]) + 1
      BY <1>5, <2>1, AppendProperties
    <2> QED BY <1>5, <2>1, <2>2, AppendProperties, LenProperties
  <1>11. /\ heard' \in [Listeners -> Seq(Event)] /\ heard'[l] = Append(heard[l], e)
         /\ \A x \in Listeners : x # l => heard'[x] = heard[x]
    BY <1>1, <1>2, <1>6, <1>10 DEF TypeOK
  <1> HIDE DEF before, l, e
  <1>12. ASSUME NEW s \in steady'
         PROVE  s \in Types \X Listeners /\ s \in steady /\ OnceAt(listeners'[s[1]], s[2])
    <2>1. CASE Change(before)
      <3>1. ChangeTyped(before)
        BY <1>2, <1>9, <2>1, ChangeTypes
      <3>2. s \in steady /\ s \in Types \X Listeners
        BY <1>2, <3>1 DEF ChangeTyped, TypeOK, Subscribed
      <3>3. OnceAt(listeners[s[1]], s[2])
        BY <1>2, <3>2 DEF Telling, Steady
      <3> QED BY <1>2, <1>12, <2>1, <3>2, <3>3, ChangeSteady
    <2>2. CASE listeners' = listeners /\ steady' = steady
      <3>1. s \in steady /\ s \in Types \X Listeners
        BY <1>2, <2>2 DEF TypeOK, Subscribed
      <3> QED BY <1>2, <2>2, <3>1 DEF Telling, Steady
    <2> QED BY <1>1, <2>1, <2>2
  <1>13. All' = All /\ Done' = Done
    BY <1>1 DEF All, Done
  <1>14. ASSUME NEW x \in Listeners PROVE HeardOf(x)'
    <2>1. HeardOf(x)
      BY <1>2 DEF Telling
    <2>2. CASE x # l
      <3>1. heard'[x] = heard[x]
        BY <1>11, <2>2
      <3> QED BY <1>13, <2>1, <3>1 DEF HeardOf
    <2>3. CASE x = l
      <3> DEFINE h == heard[l]
                 g == Append(heard[l], e)
                 n == Len(heard[l])
      <3>1. /\ \A k \in 1..n : \E a \in 1..Done : h[k] = All[a]
            /\ \A i, j \in 1..n : i < j =>
                 \A a, b \in 1..Len(All) : h[i] = All[a] /\ h[j] = All[b] => a <= b
        <4>1. HeardOf(l) /\ DOMAIN h = 1..n
          BY <1>10, <2>1, <2>3
        <4> QED BY <4>1 DEF HeardOf
      <3>2. DOMAIN g = 1..(n + 1) /\ n \in Nat /\ g[n + 1] = e /\ \A k \in 1..n : g[k] = h[k]
        BY <1>10
      <3> HIDE DEF g, h, n
      <3>3. ASSUME NEW k \in 1..(n + 1) PROVE \E a \in 1..Done : g[k] = All[a]
        <4>1. CASE k \in 1..n
          BY <3>1, <3>2, <4>1
        <4>2. CASE k = n + 1
          BY <1>4, <3>2, <4>2
        <4> QED BY <3>2, <4>1, <4>2
      <3>4. ASSUME NEW i \in 1..(n + 1), NEW j \in 1..(n + 1), i < j,
                   NEW a \in 1..Len(All), NEW b \in 1..Len(All), g[i] = All[a], g[j] = All[b]
            PROVE  a <= b
        <4>1. i \in 1..n
          BY <3>2, <3>4
        <4>2. CASE j \in 1..n
          BY <3>1, <3>2, <3>4, <4>1, <4>2
        <4>3. CASE j = n + 1
          <5>1. b = Done
            BY <1>3, <1>4, <3>2, <3>4, <4>3
          <5>2. PICK c \in 1..Done : h[i] = All[c]
            BY <3>1, <4>1
          <5>3. c \in 1..Len(All) /\ All[a] = All[c]
            BY <1>3, <1>4, <3>2, <3>4, <4>1, <5>2
          <5>4. a = c
            BY <1>3, <5>3
          <5> QED BY <1>4, <5>1, <5>2, <5>4
        <4> QED BY <3>2, <4>2, <4>3
      <3>5. heard'[x] = g
        BY <1>11, <2>3 DEF g
      <3> QED BY <1>13, <3>2, <3>3, <3>4, <3>5 DEF HeardOf
    <2> QED BY <2>2, <2>3
  <1>15. \A x : ToBeCalled(x)' => ToBeCalled(x)
    <2> SUFFICES ASSUME NEW x, ToBeCalled(x)' PROVE ToBeCalled(x)
      OBVIOUS
    <2>1. PICK i \in 1..Len(Tail(calling)) : Tail(calling)[i] = x
      BY <1>1 DEF ToBeCalled
    <2>2. i + 1 \in 1..Len(calling) /\ calling[i + 1] = x
      BY <1>6, <2>1
    <2> QED BY <2>2 DEF ToBeCalled
  <1>16. \A x : x # l /\ ToBeCalled(x) => ToBeCalled(x)'
    <2> SUFFICES ASSUME NEW x, x # l, ToBeCalled(x) PROVE ToBeCalled(x)'
      OBVIOUS
    <2>1. PICK i \in 1..Len(calling) : calling[i] = x
      BY DEF ToBeCalled
    <2>2. i # 1
      BY <1>6, <2>1
    <2>3. i - 1 \in 1..(Len(calling) - 1) /\ (i - 1) + 1 = i
      BY <1>6, <2>1, <2>2
    <2>4. Tail(calling)[i - 1] = x
      BY <1>6, <2>1, <2>3
    <2> QED BY <1>1, <1>6, <2>3, <2>4 DEF ToBeCalled
  <1>17. ToBeCalled(l)
    BY <1>6 DEF ToBeCalled
  <1>18. ASSUME NEW s \in steady' PROVE Steady(s)'
    <2> DEFINE h == heard[s[2]]
               g == heard'[s[2]]
    <2>1. /\ s \in Types \X Listeners /\ s \in steady /\ OnceAt(listeners'[s[1]], s[2])
          /\ s[2] \in Listeners /\ Steady(s) /\ HeardOf(s[2])
      BY <1>2, <1>12 DEF Telling
    <2>2. /\ e.type = s[1] => AtMostOnce(calling, s[2])
          /\ \A a \in 1..Done : All[a].type = s[1] =>
                (a <= Reach(s) <=> \E k \in DOMAIN h : h[k] = All[a])
          /\ \A i, j \in DOMAIN h : h[i].type = s[1] /\ h[i] = h[j] => i = j
      BY <1>1, <2>1 DEF Steady, e
    <2>3. e.type = s[1] => AtMostOnce(calling', s[2])
      <3> SUFFICES ASSUME e.type = s[1],
                          NEW i \in 1..Len(Tail(calling)), NEW j \in 1..Len(Tail(calling)),
                          Tail(calling)[i] = s[2], Tail(calling)[j] = s[2]
                   PROVE  i = j
        BY <1>1 DEF AtMostOnce
      <3>1. /\ i + 1 \in 1..Len(calling) /\ j + 1 \in 1..Len(calling)
            /\ calling[i + 1] = s[2] /\ calling[j + 1] = s[2]
        BY <1>6
      <3>2. i + 1 = j + 1
        BY <2>2, <3>1 DEF AtMostOnce
      <3> QED BY <1>6, <3>2
    <2>4. CASE s[2] # l
      <3>1. g = h
        BY <1>11, <2>1, <2>4
      <3>2. Reach(s)' = Reach(s)
        BY <1>1, <1>13, <1>15, <1>16, <2>4 DEF Reach
      <3> HIDE DEF g, h
      <3>3. /\ OnceAt(listeners'[s[1]], s[2])
            /\ calling' # <<>> /\ event'[1].type = s[1] => AtMostOnce(calling', s[2])
        BY <1>1, <2>1, <2>3 DEF e
      <3>4. /\ \A a \in 1..Done' : All'[a].type = s[1] =>
                (a <= Reach(s)' <=> \E k \in DOMAIN g : g[k] = All'[a])
            /\ \A i, j \in DOMAIN g : g[i].type = s[1] /\ g[i] = g[j] => i = j
        BY <1>13, <2>2, <3>1, <3>2
      <3> QED BY <3>3, <3>4 DEF Steady, g
    <2>5. CASE s[2] = l
      <3> DEFINE n == Len(h)
      <3>1. /\ DOMAIN h = 1..n /\ n \in Nat /\ DOMAIN g = 1..(n + 1)
            /\ \A k \in 1..n : g[k] = h[k]
            /\ g[n + 1] = e
        BY <1>10, <1>11, <2>5
      <3>2. \A k \in 1..n : \E a \in 1..Done : h[k] = All[a]
        BY <2>1, <3>1 DEF HeardOf
      <3> HIDE DEF h, g, n
      <3>3. CASE e.type = s[1]
        <4>1. ~ToBeCalled(s[2])'
          <5> SUFFICES ASSUME NEW i \in 1..Len(Tail(calling)), Tail(calling)[i] = s[2] PROVE FALSE
            BY <1>1 DEF ToBeCalled
          <5>1. i + 1 \in 1..Len(calling) /\ 1 \in 1..Len(calling) /\ i + 1 # 1
            BY <1>6
          <5>2. calling[i + 1] = s[2] /\ calling[1] = s[2]
            BY <1>6, <2>5
          <5> QED BY <2>2, <3>3, <5>1, <5>2 DEF AtMostOnce
        <4>2. Reach(s)' = Done /\ Reach(s) = Done - 1
          BY <1>13, <1>17, <2>5, <3>3, <4>1 DEF Reach, e
        <4>3. ASSUME NEW a \in 1..Done, All[a].type = s[1]
              PROVE  \E k \in DOMAIN g : g[k] = All[a]
          <5>1. CASE a = Done
            BY <1>4, <3>1, <5>1
          <5>2. CASE a # Done
            <6>1. a <= Done - 1
              BY <1>4, <5>2
            <6>2. PICK k \in 1..n : h[k] = All[a]
              BY <2>2, <3>1, <4>2, <4>3, <6>1
            <6> QED BY <3>1, <6>2
          <5> QED BY <5>1, <5>2
        <4>4. ASSUME NEW k \in 1..n PROVE h[k] # e
          <5>1. ~(Done <= Reach(s))
            BY <1>4, <4>2
          <5> QED BY <1>4, <2>2, <3>1, <3>3, <5>1
        <4>5. ASSUME NEW i \in DOMAIN g, NEW j \in DOMAIN g, g[i].type = s[1], g[i] = g[j]
              PROVE  i = j
          <5>1. CASE i \in 1..n /\ j \in 1..n
            BY <2>2, <3>1, <4>5, <5>1
          <5>2. CASE i = n + 1 \/ j = n + 1
            BY <3>1, <4>4, <4>5, <5>2
          <5> QED BY <3>1, <5>1, <5>2
        <4>6. \A a \in 1..Done : a <= Done
          BY <1>4
        <4> QED BY <1>1, <1>13, <2>1, <2>3, <4>2, <4>3, <4>5, <4>6 DEF Steady, e, g
      <3>4. CASE e.type # s[1]
        <4>1. Reach(s)' = Reach(s)
          BY <1>1, <1>13, <3>4 DEF Reach, e
        <4>2. ASSUME NEW a \in 1..Done, All[a].type = s[1]
              PROVE  (\E k \in DOMAIN g : g[k] = All[a]) <=> (\E k \in DOMAIN h : h[k] = All[a])
          <5>1. e # All[a]
            BY <3>4, <4>2
          <5>2. ASSUME NEW k \in DOMAIN g, g[k] = All[a] PROVE \E k2 \in DOMAIN h : h[k2] = All[a]
            BY <3>1, <5>1, <5>2
          <5>3. ASSUME NEW k \in DOMAIN h, h[k] = All[a] PROVE \E k2 \in DOMAIN g : g[k2] = All[a]
            BY <3>1, <5>3
          <5> QED BY <5>2, <5>3
        <4>3. ASSUME NEW i \in DOMAIN g, NEW j \in DOMAIN g, g[i].type = s[1], g[i] = g[j]
              PROVE  i = j
          <5>1. i # n + 1 /\ j # n + 1
            BY <3>1, <3>4, <4>3
          <5>2. i \in 1..n /\ j \in 1..n
            BY <3>1, <5>1
          <5> QED BY <2>2, <3>1, <4>3, <5>2
        <4>4. ASSUME NEW a \in 1..Done, All[a].type = s[1]
              PROVE  a <= Reach(s)' <=> \E k \in DOMAIN g : g[k] = All[a]
          BY <2>2, <4>1, <4>2, <4>4
        <4> QED BY <1>1, <1>13, <2>1, <2>3, <4>3, <4>4 DEF Steady, e, g
      <3> QED BY <3>3, <3>4
    <2> QED BY <2>4, <2>5
  <1>19. Remaining'
    <2>1. calling' # <<>> => Done >= 1
      BY <1>4
    <2> QED BY <1>1, <1>2, <1>4, <1>13, <2>1 DEF Telling, Remaining
  <1>20. Telling'
    BY <1>1, <1>2, <1>13, <1>14, <1>18, <1>19 DEF Telling, Emitted, Stored
  <1>21. /\ listeners' \in [Types -> Seq(Listeners)] /\ changes' \in 0..MaxChanges
         /\ \A s \in DOMAIN late' : s \in Types \X Listeners /\ late'[s] \subseteq Event
    <2>1. CASE Change(before)
      BY <1>2, <1>8, <1>9, <2>1, ChangeTypes DEF ChangeTyped, Changed
    <2>2. CASE late' = before /\ listeners' = listeners /\ changes' = changes
      BY <1>2, <1>8, <2>2 DEF TypeOK
    <2> QED BY <1>1, <2>1, <2>2
  <1>22. steady' \subseteq Subscribed'
    BY <1>12, <1>21, SteadySubscribed
  <1>23. TypeOK'
    BY <1>1, <1>2, <1>6, <1>11, <1>21, <1>22 DEF TypeOK
  <1> QED
    BY <1>20, <1>23

LEMMA StutterTells ==
    ASSUME AllInv, UNCHANGED vars PROVE TypeOK' /\ Telling'
  <1>1. /\ state' = state /\ storage' = storage /\ answer' = answer /\ events' = events
        /\ event' = event /\ calling' = calling /\ listeners' = listeners /\ heard' = heard
        /\ steady' = steady /\ late' = late /\ since' = since /\ emitted' = emitted
        /\ changes' = changes /\ restarts' = restarts
    BY DEF vars, dispatch, subscriptions
  <1>2. All' = All /\ Done' = Done
    BY <1>1 DEF All, Done
  <1>3. TypeOK'
    BY <1>1 DEF AllInv, TypeOK, Subscribed, Occurrences
  <1>4. \A s \in steady : Steady(s)' <=> Steady(s)
    BY <1>1, <1>2 DEF Steady, Reach, ToBeCalled
  <1>5. \A l \in Listeners : HeardOf(l)' <=> HeardOf(l)
    BY <1>1, <1>2 DEF HeardOf
  <1>6. Remaining' /\ Emitted' /\ Stored'
    BY <1>1, <1>2 DEF AllInv, Telling, Remaining, Emitted, Stored
  <1>7. Tells(All, answer, state.token)'
    BY <1>1, <1>2 DEF AllInv, Telling
  <1> QED
    BY <1>1, <1>3, <1>4, <1>5, <1>6, <1>7 DEF AllInv, Telling

LEMMA StepTells == ASSUME AllInv, [Next]_vars PROVE AllInv'
  <1>1. IInv'
    BY UpdateKeeps, EmitKeeps, CallKeeps, ApplicationKeeps, RestartKeeps, StutterKeeps
       DEF Next, AllInv
  <1>2. TypeOK' /\ Telling'
    BY UpdateTells, EmitTells, CallTells, ApplicationTells, RestartTells, StutterTells DEF Next
  <1> QED
    BY <1>1, <1>2 DEF AllInv

\* What is told and heard, in every reachable state
\* (MatrixClientEventEmitter.onStateChanged, MatrixClientStore.update).
THEOREM AllInvariant == Spec => []AllInv
  <1>1. Init => AllInv
    BY InitIInv, InitTypeOK, InitTelling DEF AllInv
  <1> QED
    BY <1>1, StepTells, PTL DEF Spec

\* Every variable has its type (MatrixClientStore, MatrixClient.subscribe).
THEOREM TypeCorrect == Spec => []TypeOK
  <1>1. AllInv => TypeOK
    BY DEF AllInv
  <1> QED BY <1>1, AllInvariant, PTL

\* No event is ever emitted twice, whenever the process ends
\* (MatrixClientStore.update, which stores before it tells).
THEOREM NothingTwice == Spec => []EmittedOnce
  <1>1. AllInv => EmittedOnce
    BY DEF AllInv, Telling, Emitted, EmittedOnce
  <1> QED BY <1>1, AllInvariant, PTL

\* A listener hears of the invitations of an answer before its messages
\* (the order of MatrixClientEventType's keys).
THEOREM InvitationsLead == Spec => []InvitesFirst
  <1>1. AllInv => InvitesFirst
    <2> SUFFICES ASSUME AllInv, NEW l \in Listeners,
                        NEW i \in DOMAIN heard[l], NEW j \in DOMAIN heard[l],
                        heard[l][i].type = "message", heard[l][j].type = "invite"
                 PROVE  j < i
      BY DEF InvitesFirst
    <2>1. HeardOf(l) /\ Tells(All, answer, state.token) /\ heard[l] \in Seq(Event)
      BY DEF AllInv, Telling, TypeOK
    <2>2. i \in Nat /\ j \in Nat
      BY <2>1, LenProperties
    <2>3. Len(All) \in Nat /\ Len(events) \in Nat /\ Done \in Nat /\ Done <= Len(All)
      BY LenProperties DEF AllInv, TypeOK, Telling, Remaining, Tells, Done
    <2>4. PICK a \in 1..Done : heard[l][i] = All[a]
      BY <2>1 DEF HeardOf
    <2>5. PICK b \in 1..Done : heard[l][j] = All[b]
      BY <2>1 DEF HeardOf
    <2>6. a \in 1..Len(All) /\ b \in 1..Len(All)
      BY <2>3
    <2>7. ~(a < b) /\ a # b
      BY <2>1, <2>4, <2>5, <2>6 DEF Tells
    <2>8. i # j
      BY <2>4, <2>5
    <2>9. ~(i < j)
      <3> SUFFICES ASSUME i < j PROVE FALSE
        OBVIOUS
      <3>1. a <= b
        BY <2>1, <2>4, <2>5, <2>6 DEF HeardOf
      <3> QED BY <2>3, <2>7, <3>1
    <2> QED BY <2>2, <2>8, <2>9
  <1> QED BY <1>1, AllInvariant, PTL

\* A listener finds the room of its event in the store as the event, and every
\* earlier one, told it (MatrixClientStore.update, MatrixClient.getRoomById).
THEOREM StoreFirst == Spec => []SeenInStore
  <1>1. AllInv => SeenInStore
    <2> SUFFICES ASSUME AllInv, NEW i \in DOMAIN event, calling # <<>>
                 PROVE  LET room == state.rooms[event[i].room]
                        IN  /\ event[i].type = "invite" => room.status = "invited"
                            /\ event[i].type = "message" =>
                                  {e \in ToSet(emitted) : e.type = "message"
                                      /\ e.room = event[i].room /\ e.token > since}
                                    \subseteq room.messages
      BY DEF SeenInStore
    <2>1. Remaining /\ Stored /\ All \in Seq(Event) /\ events \in Seq(Event)
      BY DEF AllInv, Telling, Tells, TypeOK
    <2>2. Len(All) \in Nat /\ Len(events) \in Nat
      BY <2>1, LenProperties
    <2>3. Done \in 1..Len(All) /\ event = <<All[Done]>>
      BY <2>1, <2>2 DEF Remaining, Done
    <2>4. event[i] = All[Done]
      BY <2>3
    <2>5. event[i].type = "invite" => state.rooms[event[i].room].status = "invited"
      BY <2>1, <2>3, <2>4 DEF Stored
    <2>6. ASSUME NEW e \in ToSet(emitted), e.type = "message", e.room = event[i].room, e.token > since
          PROVE  e \in state.rooms[event[i].room].messages
      <3>1. PICK k \in DOMAIN emitted : e = emitted[k]
        BY DEF ToSet
      <3> QED BY <2>1, <2>6, <3>1 DEF Stored
    <2> QED BY <2>5, <2>6
  <1> QED BY <1>1, AllInvariant, PTL

\* The numbers up to m, in order.
LEMMA InOrderInterval ==
    ASSUME NEW m \in Nat PROVE InOrder(1..m) = [n \in 1..m |-> n]
  <1> DEFINE w == [n \in 1..m |-> n]
  <1>1. w \in Seq(1..m) /\ DOMAIN w = 1..m
    OBVIOUS
  <1>2. Increases(w) /\ Covers(w, 1..m)
    BY DEF Increases, Covers
  <1> HIDE DEF w
  <1>3. w = InOrder(1..m)
    BY <1>1, <1>2, InOrderUnique
  <1> QED
    BY <1>3 DEF w

\* What a steady subscription heard when all was emitted.
LEMMA SteadyHears ==
    ASSUME AllInv, Idle, NEW s \in steady
    PROVE  /\ s \in Types \X Listeners /\ heard[s[2]] \in Seq(Event)
           /\ Tells(All, answer, state.token)
           /\ \A k \in DOMAIN heard[s[2]] : \E a \in 1..Len(All) : heard[s[2]][k] = All[a]
           /\ \A i, j \in DOMAIN heard[s[2]] : i < j =>
                 \A a, b \in 1..Len(All) :
                    heard[s[2]][i] = All[a] /\ heard[s[2]][j] = All[b] => a <= b
           /\ \A a \in 1..Len(All) : All[a].type = s[1] =>
                 \E k \in DOMAIN heard[s[2]] : heard[s[2]][k] = All[a]
           /\ \A i, j \in DOMAIN heard[s[2]] :
                 heard[s[2]][i].type = s[1] /\ heard[s[2]][i] = heard[s[2]][j] => i = j
  <1>1. s \in Types \X Listeners
    BY DEF AllInv, TypeOK, Subscribed
  <1>2. /\ heard[s[2]] \in Seq(Event) /\ Tells(All, answer, state.token)
        /\ HeardOf(s[2]) /\ Steady(s) /\ Len(All) \in Nat
    BY <1>1, LenProperties DEF AllInv, TypeOK, Telling, Tells
  <1>3. Len(events) = 0 /\ Len(calling) = 0
    BY DEF Idle
  <1>4. Done = Len(All)
    BY <1>2, <1>3 DEF Done
  <1>5. Reach(s) = Len(All)
    BY <1>3, <1>4 DEF Reach, ToBeCalled
  <1>6. \A a \in 1..Len(All) : a <= Len(All)
    BY <1>2
  <1> QED
    BY <1>1, <1>2, <1>4, <1>5, <1>6 DEF HeardOf, Steady

\* The indices P hold the messages 1 to m of a room, in that order.
AreMessages(h, P, m, token, room) ==
    /\ \A k \in P : \E n \in 1..m : h[k] = MessageEvent(token, room, n)
    /\ \A n \in 1..m : \E k \in P : h[k] = MessageEvent(token, room, n)
    /\ \A i, j \in P : i < j => h[i].place < h[j].place

\* The messages of a room, picked from what was heard.
LEMMA MessagesPicked ==
    ASSUME NEW h \in Seq(Event), NEW P, P \subseteq DOMAIN h, NEW m \in Nat,
           NEW token, NEW room,
           AreMessages(h, P, m, token, room)
    PROVE  Pick(h, P) = [n \in 1..m |-> MessageEvent(token, room, n)]
  <1> DEFINE c == Cardinality(P)
             w == InOrder(P)
             picked == Pick(h, P)
             g == [i \in 1..c |-> h[w[i]].place]
  <1>1. /\ picked \in Seq(Event) /\ Len(picked) = c /\ c \in Nat
        /\ w \in [1..c -> P] /\ Increases(w) /\ Covers(w, P)
        /\ \A i \in 1..c : picked[i] = h[w[i]]
    BY PickProperties
  <1> HIDE DEF c, w, picked
  <1>2. ASSUME NEW i \in 1..c PROVE g[i] \in 1..m /\ picked[i] = MessageEvent(token, room, g[i])
    <2>1. w[i] \in P
      BY <1>1
    <2>2. PICK n \in 1..m : h[w[i]] = MessageEvent(token, room, n)
      BY <2>1 DEF AreMessages
    <2>3. h[w[i]].place = n
      BY <2>2 DEF MessageEvent
    <2> QED BY <1>1, <2>2, <2>3
  <1>3. g \in Seq(1..m) /\ Len(g) = c
    <2>1. g \in [1..c -> 1..m]
      BY <1>2
    <2> HIDE DEF g
    <2> QED BY <1>1, <2>1
  <1>4. Increases(g)
    <2> SUFFICES ASSUME NEW i \in 1..c, NEW j \in 1..c, i < j PROVE h[w[i]].place < h[w[j]].place
      BY DEF Increases
    <2>1. w[i] < w[j] /\ w[i] \in P /\ w[j] \in P
      BY <1>1 DEF Increases
    <2> QED BY <2>1 DEF AreMessages
  <1>5. Covers(g, 1..m)
    <2> SUFFICES ASSUME NEW n \in 1..m PROVE \E i \in 1..c : h[w[i]].place = n
      BY DEF Covers
    <2>1. PICK k \in P : h[k] = MessageEvent(token, room, n)
      BY DEF AreMessages
    <2>2. PICK i \in 1..c : w[i] = k
      BY <1>1 DEF Covers
    <2> QED BY <2>1, <2>2 DEF MessageEvent
  <1> HIDE DEF g
  <1>6. g = [n \in 1..m |-> n]
    <2>1. 1..m \subseteq Nat
      OBVIOUS
    <2> QED BY <1>3, <1>4, <1>5, <2>1, InOrderUnique, InOrderInterval
  <1>7. c = m
    <2>1. DOMAIN g = 1..c /\ DOMAIN g = 1..m
      BY <1>1, <1>3, <1>6, LenProperties
    <2> QED BY <1>1, <1>3, <1>6
  <1>8. DOMAIN picked = 1..m
    BY <1>1, <1>7, LenProperties
  <1>9. \A n \in 1..m : picked[n] = MessageEvent(token, room, n)
    BY <1>2, <1>6, <1>7
  <1>10. picked = [n \in 1..Len(picked) |-> picked[n]]
    BY <1>1
  <1> QED
    BY <1>1, <1>7, <1>9, <1>10 DEF picked

\* A listener whose subscription nobody touched hears every event of its type
\* once, the messages of a room in order, whatever the others do
\* (MatrixClientEventEmitter.onStateChanged).
THEOREM SteadyListeners == Spec => []SteadyHearAll
  <1>1. AllInv => SteadyHearAll
    <2> SUFFICES ASSUME AllInv, Idle, NEW s \in steady
                 PROVE  LET mine == {k \in DOMAIN heard[s[2]] : heard[s[2]][k].type = s[1]}
                            InRoom(room) == {k \in mine : heard[s[2]][k].room = room}
                        IN  /\ IsInjective(Pick(heard[s[2]], mine))
                            /\ s[1] = "invite" => {heard[s[2]][k].room : k \in mine} = Invited
                            /\ s[1] = "message" =>
                                  \A i \in DOMAIN answer :
                                     Pick(heard[s[2]], InRoom(answer[i].id))
                                       = [n \in 1..answer[i].messages |->
                                            MessageEvent(state.token, answer[i].id, n)]
      BY DEF SteadyHearAll
    <2> DEFINE h == heard[s[2]]
               mine == {k \in DOMAIN h : h[k].type = s[1]}
               InRoom(room) == {k \in mine : h[k].room = room}
    <2>1. /\ s \in Types \X Listeners /\ h \in Seq(Event)
          /\ Tells(All, answer, state.token)
          /\ \A k \in DOMAIN h : \E a \in 1..Len(All) : h[k] = All[a]
          /\ \A i, j \in DOMAIN h : i < j =>
                \A a, b \in 1..Len(All) : h[i] = All[a] /\ h[j] = All[b] => a <= b
          /\ \A a \in 1..Len(All) : All[a].type = s[1] => \E k \in DOMAIN h : h[k] = All[a]
          /\ \A i, j \in DOMAIN h : h[i].type = s[1] /\ h[i] = h[j] => i = j
      BY SteadyHears
    <2> HIDE DEF h
    <2>2. All \in Seq(Event) /\ Len(All) \in Nat /\ DOMAIN h = 1..Len(h) /\ Len(h) \in Nat
      BY <2>1, LenProperties DEF Tells
    <2>3. IsInjective(Pick(h, mine))
      <3> DEFINE picked == Pick(h, mine)
                 w == InOrder(mine)
                 c == Cardinality(mine)
      <3>1. mine \subseteq DOMAIN h
        OBVIOUS
      <3>2. \A k \in mine : k \in DOMAIN h /\ h[k].type = s[1]
        OBVIOUS
      <3> HIDE DEF mine
      <3>3. /\ picked \in Seq(Event) /\ Len(picked) = c /\ c \in Nat
            /\ w \in [1..c -> mine] /\ Increases(w)
            /\ \A i \in 1..c : picked[i] = h[w[i]]
        BY <2>1, <3>1, PickProperties
      <3>4. DOMAIN picked = 1..c
        BY <3>3, LenProperties
      <3> HIDE DEF picked, w, c
      <3>5. ASSUME NEW i \in 1..c, NEW j \in 1..c, picked[i] = picked[j] PROVE i = j
        <4>1. w[i] \in mine /\ w[j] \in mine /\ h[w[i]] = h[w[j]]
          BY <3>3, <3>5
        <4>2. w[i] = w[j] /\ w[i] \in Nat
          BY <2>1, <2>2, <3>2, <4>1
        <4>3. ~(i < j) /\ ~(j < i)
          BY <3>3, <4>2 DEF Increases
        <4> QED BY <4>3
      <3> QED BY <3>4, <3>5 DEF IsInjective, picked
    <2>4. ASSUME s[1] = "invite" PROVE {h[k].room : k \in mine} = Invited
      <3>1. ASSUME NEW k \in mine PROVE h[k].room \in Invited
        <4>1. PICK a \in 1..Len(All) : h[k] = All[a]
          BY <2>1
        <4>2. PICK i \in DOMAIN answer : answer[i].status = "invited"
                                         /\ All[a] = InviteEvent(state.token, answer[i].id)
          BY <2>1, <2>4, <4>1 DEF Tells
        <4> QED BY <4>1, <4>2 DEF Invited, InviteEvent
      <3>2. ASSUME NEW i \in DOMAIN answer, answer[i].status = "invited"
            PROVE  \E k \in mine : h[k].room = answer[i].id
        <4>1. PICK a \in 1..Len(All) : All[a] = InviteEvent(state.token, answer[i].id)
          BY <2>1, <3>2 DEF Tells
        <4>2. All[a].type = "invite" /\ All[a].room = answer[i].id
          BY <4>1 DEF InviteEvent
        <4>3. PICK k \in DOMAIN h : h[k] = All[a]
          BY <2>1, <2>4, <4>2
        <4> QED BY <2>4, <4>2, <4>3
      <3> QED BY <3>1, <3>2 DEF Invited
    <2>5. ASSUME s[1] = "message", NEW i \in DOMAIN answer
          PROVE  Pick(h, InRoom(answer[i].id))
                   = [n \in 1..answer[i].messages |-> MessageEvent(state.token, answer[i].id, n)]
      <3> DEFINE room == answer[i].id
                 m == answer[i].messages
                 P == InRoom(room)
      <3>1. Answerable(answer)
        <4>1. CASE answer = <<>>
          <5>1. << >> \in Seq(RoomUpdate) /\ DOMAIN << >> = {}
            BY EmptySeq
          <5> QED BY <4>1, <5>1 DEF Answerable
        <4>2. CASE answer \in Answers
          BY <4>2, AnswersAnswerable
        <4> QED BY <4>1, <4>2 DEF AllInv, TypeOK
      <3>2. m \in Nat
        <4>1. answer[i] \in RoomUpdate
          BY <3>1, LenProperties, ElementOfSeq DEF Answerable
        <4> QED BY <4>1 DEF RoomUpdate
      <3>3. P \subseteq DOMAIN h /\ \A k \in P : h[k].type = "message" /\ h[k].room = room
        BY <2>5
      <3>4. \A k \in DOMAIN h : h[k].type = "message" /\ h[k].room = room => k \in P
        BY <2>5
      <3> HIDE DEF P, room, m
      <3>5. ASSUME NEW k \in P PROVE \E n \in 1..m : h[k] = MessageEvent(state.token, room, n)
        <4>1. PICK a \in 1..Len(All) : h[k] = All[a]
          BY <2>1, <3>3
        <4>2. PICK j \in DOMAIN answer : \E n \in 1..answer[j].messages :
                  All[a] = MessageEvent(state.token, answer[j].id, n)
          BY <2>1, <3>3, <4>1 DEF Tells
        <4>3. answer[j].id = room
          BY <3>3, <4>1, <4>2 DEF MessageEvent
        <4>4. j = i
          BY <3>1, <4>3 DEF Answerable, room
        <4> QED BY <4>1, <4>2, <4>3, <4>4 DEF m
      <3>6. ASSUME NEW n \in 1..m PROVE \E k \in P : h[k] = MessageEvent(state.token, room, n)
        <4>1. PICK a \in 1..Len(All) : All[a] = MessageEvent(state.token, room, n)
          BY <2>1 DEF Tells, room, m
        <4>2. All[a].type = "message" /\ All[a].room = room
          BY <4>1 DEF MessageEvent
        <4>3. PICK k \in DOMAIN h : h[k] = All[a]
          BY <2>1, <2>5, <4>2
        <4> QED BY <3>4, <4>1, <4>2, <4>3
      <3>7. ASSUME NEW x \in P, NEW y \in P, x < y PROVE h[x].place < h[y].place
        <4>1. PICK a \in 1..Len(All) : h[x] = All[a]
          BY <2>1, <3>3
        <4>2. PICK b \in 1..Len(All) : h[y] = All[b]
          BY <2>1, <3>3
        <4>3. x \in DOMAIN h /\ y \in DOMAIN h /\ x # y
          BY <2>2, <3>3, <3>7
        <4>4. a <= b
          BY <2>1, <3>7, <4>1, <4>2, <4>3
        <4>5. a # b
          BY <2>1, <2>5, <3>3, <4>1, <4>2, <4>3
        <4>6. a < b
          BY <2>2, <4>4, <4>5
        <4>7. /\ All[a].type = "message" /\ All[b].type = "message"
              /\ All[a].room = All[b].room
          BY <3>3, <4>1, <4>2
        <4>8. All[a].place < All[b].place
          BY <2>1, <4>6, <4>7 DEF Tells
        <4> QED BY <4>1, <4>2, <4>8
      <3> DEFINE token == state.token
      <3>8. h \in Seq(Event) /\ P \subseteq DOMAIN h /\ AreMessages(h, P, m, token, room)
        BY <2>1, <3>3, <3>5, <3>6, <3>7 DEF AreMessages
      <3> HIDE DEF token
      <3>9. Pick(h, P) = [n \in 1..m |-> MessageEvent(token, room, n)]
        BY <3>2, <3>8, MessagesPicked
      <3> QED BY <3>9 DEF P, room, m, token
    <2> QED BY <2>3, <2>4, <2>5 DEF h
  <1> QED BY <1>1, AllInvariant, PTL
=============================================================================
