-------------------------- MODULE MatrixSendProofs --------------------------
(***************************************************************************)
(* What MatrixSend promises, for any number of messages, rooms, restarts   *)
(* and errors.  Two messages get one transaction id only when one is       *)
(* numbered while the other waits for its update of the counter: a message *)
(* that waits no longer has an id of the past, by its time or its counter. *)
(***************************************************************************)
EXTENDS MatrixSend, SequenceTheorems, TLAPS

\* A message that has been given its id.
HasId(m) == txnId[m].time > 0

\* The queue is that of the messages being numbered, each one once.
Queued ==
    /\ \A i \in 1..Len(queue) : pc[queue[i]] = "numbered"
    /\ \A m \in Messages : pc[m] = "numbered" => \E i \in 1..Len(queue) : queue[i] = m
    /\ \A i, j \in 1..Len(queue) : queue[i] = queue[j] => i = j

\* A counter that waits is at most one behind the store's, and those that were
\* read first are not above the later ones.
Ordered ==
    /\ \A m \in Messages : pc[m] = "numbered" =>
          txnId[m].counter <= txnNo /\ txnNo <= txnId[m].counter + 1
    /\ \A i, j \in 1..Len(queue) :
          i < j => txnId[queue[i]].counter <= txnId[queue[j]].counter

\* Ids are of the past, and those that wait no longer cannot be drawn again.
Past ==
    \A m \in Messages :
        /\ txnId[m].time <= time
        /\ pc[m] = "unsent" => ~HasId(m)
        /\ pc[m] \in {"numbered", "putting", "accepted", "resolved"} => HasId(m)
        /\ HasId(m) /\ pc[m] # "numbered" =>
              txnId[m].time < time \/ txnId[m].counter < txnNo

\* Messages of one id were being numbered together.
Collide ==
    \A k, m \in Messages :
        k # m /\ HasId(k) /\ txnId[k] = txnId[m] => k \in overlaps[m]

\* An answer the homeserver remembers is that to a message put before.
Remembered ==
    \A e \in cache : \E k \in Messages :
        /\ room[k] = e.room /\ txnId[k] = e.txnId
        /\ pc[k] \in {"accepted", "resolved", "rejected"}

\* A message that was answered is in its room, or lost to an overlap.
Answered ==
    \A m \in Messages :
        pc[m] \in {"accepted", "resolved"} /\ m \notin events[room[m]] =>
            \E k \in overlaps[m] : room[k] = room[m] /\ txnId[k] = txnId[m]

IInv ==
    TypeOK /\ Queued /\ Ordered /\ Past /\ CounterAhead
    /\ Collide /\ Remembered /\ Answered

LEMMA InitIInv == Init => IInv
  <1> SUFFICES ASSUME Init PROVE IInv
    OBVIOUS
  <1>1. TypeOK
    <2>1. NoTxn \in Txn /\ "unsent" \in Labels /\ 1 \in 1..MaxTime
      BY BoundsAreNatural DEF NoTxn, Txn, Labels
    <2>2. queue \in Seq(Messages)
      BY EmptySeq DEF Init
    <2>3. txnId \in [Messages -> Txn] /\ pc \in [Messages -> Labels]
      BY <2>1 DEF Init
    <2>4. /\ overlaps \in [Messages -> SUBSET Messages]
          /\ events \in [Rooms -> SUBSET Messages]
      BY DEF Init
    <2>5. restarts \in 0..MaxRestarts /\ errors \in 0..MaxErrors /\ time \in 1..MaxTime
      BY BoundsAreNatural DEF Init
    <2> QED
      BY <2>2, <2>3, <2>4, <2>5 DEF Init, TypeOK
  <1>2. Queued /\ Ordered
    BY DEF Init, Queued, Ordered
  <1>3. Past /\ CounterAhead /\ Collide /\ Remembered /\ Answered
    BY DEF Init, Past, CounterAhead, Collide, Remembered, Answered, HasId, NoTxn
  <1> QED
    BY <1>1, <1>2, <1>3 DEF IInv

----------------------------------------------------------------------------
(* Types. *)

LEMMA LabelTypes ==
    \A label \in {"numbered", "putting", "accepted", "resolved", "rejected"} : label \in Labels
  BY DEF Labels

\* The call at the head of the queue is one being numbered.
LEMMA HeadOfQueue ==
    ASSUME TypeOK, queue # <<>>
    PROVE  /\ Head(queue) \in Messages /\ Tail(queue) \in Seq(Messages)
           /\ Len(queue) \in Nat /\ Len(queue) >= 1 /\ Head(queue) = queue[1]
           /\ Len(Tail(queue)) = Len(queue) - 1
           /\ \A i \in 1..Len(Tail(queue)) : Tail(queue)[i] = queue[i + 1]
  BY HeadTailProperties DEF TypeOK

LEMMA NextTyped == TypeOK /\ [Next]_vars => TypeOK'
  <1> SUFFICES ASSUME TypeOK, [Next]_vars PROVE TypeOK'
    OBVIOUS
  <1> USE LabelTypes DEF calls, homeserver, limits
  <1>1. CASE Clock
    BY <1>1, BoundsAreNatural DEF Clock, TypeOK
  <1>2. CASE LogIn
    BY <1>2 DEF LogIn, TypeOK
  <1>3. CASE Restart
    <2>1. queue' \in Seq(Messages) /\ pc' \in [Messages -> Labels]
      BY <1>3 DEF Restart, TypeOK
    <2>2. time' \in 1..MaxTime /\ restarts' \in 0..MaxRestarts
      BY <1>3, BoundsAreNatural DEF Restart, TypeOK
    <2> QED
      BY <1>3, <2>1, <2>2 DEF Restart, TypeOK
  <1>4. ASSUME NEW m \in Messages, Unauthorized(m) PROVE TypeOK'
    BY <1>4 DEF Unauthorized, TypeOK
  <1>5. ASSUME NEW m \in Messages, Number(m) PROVE TypeOK'
    <2>1. TxnId \in Txn
      BY BoundsAreNatural DEF TypeOK, TxnId, Txn
    <2>2. queue' \in Seq(Messages)
      BY <1>5, AppendProperties DEF Number, TypeOK
    <2>3. overlaps' \in [Messages -> SUBSET Messages]
      BY <1>5 DEF Number, Numbering, TypeOK
    <2> QED
      BY <1>5, <2>1, <2>2, <2>3 DEF Number, TypeOK
  <1>6. ASSUME NEW m \in Messages, Put(m) PROVE TypeOK'
    <2>1. txnNo' \in Nat
      BY <1>6 DEF Put, Counter, TypeOK, Txn
    <2> QED
      BY <1>6, <2>1, HeadOfQueue DEF Put, TypeOK
  <1>7. ASSUME NEW m \in Messages, Accept(m) PROVE TypeOK'
    <2>1. cache' \subseteq [room : Rooms, txnId : Txn]
      BY <1>7 DEF Accept, TypeOK
    <2>2. events' \in [Rooms -> SUBSET Messages]
      BY <1>7 DEF Accept, TypeOK
    <2> QED
      BY <1>7, <2>1, <2>2 DEF Accept, TypeOK
  <1>8. ASSUME NEW m \in Messages, Resolve(m) PROVE TypeOK'
    BY <1>8 DEF Resolve, TypeOK
  <1>9. ASSUME NEW m \in Messages, Reject(m) PROVE TypeOK'
    BY <1>9, BoundsAreNatural DEF Reject, TypeOK
  <1>10. CASE UNCHANGED vars
    BY <1>10 DEF vars, TypeOK
  <1> QED
    BY <1>1, <1>2, <1>3, <1>4, <1>5, <1>6, <1>7, <1>8, <1>9, <1>10 DEF Next

----------------------------------------------------------------------------
(* The queue. *)

\* A step that numbers nothing and puts nothing leaves the queue and the
\* counter alone, and who waits in it; or it is a restart, which empties it.
LEMMA Elsewhere ==
    ASSUME TypeOK, [Next]_vars,
           ~\E m \in Messages : Number(m) \/ Put(m)
    PROVE  /\ txnId' = txnId /\ overlaps' = overlaps /\ room' = room
           /\ time <= time'
           /\ \/ /\ queue' = queue /\ txnNo' = txnNo
                 /\ \A m \in Messages : pc'[m] = "numbered" <=> pc[m] = "numbered"
              \/ /\ queue' = <<>> /\ txnNo' = 0 /\ time' = time + 1
                 /\ \A m \in Messages : pc'[m] \in {"unsent", "resolved", "rejected"}
           /\ \A m \in Messages :
                 /\ pc'[m] = "unsent" => pc[m] = "unsent"
                 /\ pc'[m] = "putting" => pc[m] = "putting"
                 /\ pc'[m] = "accepted" => pc[m] \in {"putting", "accepted"}
                 /\ pc'[m] = "resolved" => pc[m] \in {"accepted", "resolved"}
  <1> USE DEF calls, homeserver, limits, TypeOK
  <1>1. CASE Clock
    BY <1>1 DEF Clock
  <1>2. CASE LogIn
    BY <1>2 DEF LogIn
  <1>3. CASE Restart
    BY <1>3 DEF Restart
  <1>4. ASSUME NEW m \in Messages, Unauthorized(m) \/ Accept(m) \/ Resolve(m) \/ Reject(m)
        PROVE  /\ UNCHANGED <<time, txnNo, queue, txnId, overlaps, room>>
               /\ pc' = [pc EXCEPT ![m] = pc'[m]]
               /\ \/ pc[m] = "unsent" /\ pc'[m] = "rejected"
                  \/ pc[m] = "putting" /\ pc'[m] \in {"accepted", "rejected"}
                  \/ pc[m] = "accepted" /\ pc'[m] \in {"resolved", "rejected"}
    BY <1>4 DEF Unauthorized, Accept, Resolve, Reject
  <1>5. CASE UNCHANGED vars
    BY <1>5 DEF vars
  <1> QED
    BY <1>1, <1>2, <1>3, <1>4, <1>5 DEF Next

LEMMA NextQueued == TypeOK /\ Queued /\ [Next]_vars => Queued'
  <1> SUFFICES ASSUME TypeOK, Queued, [Next]_vars PROVE Queued'
    OBVIOUS
  <1>1. ASSUME NEW m \in Messages, Number(m) PROVE Queued'
    <2>1. /\ Len(queue') = Len(queue) + 1 /\ Len(queue) \in Nat
          /\ queue'[Len(queue) + 1] = m
          /\ \A i \in 1..Len(queue) : queue'[i] = queue[i] /\ queue[i] \in Messages
      BY <1>1, AppendProperties DEF Number, TypeOK
    <2>2. \A i \in 1..Len(queue) : queue[i] # m
      BY <1>1 DEF Number, Queued
    <2>3. pc' = [pc EXCEPT ![m] = "numbered"]
      BY <1>1 DEF Number
    <2>4. \A i \in 1..Len(queue') : i \in 1..Len(queue) \/ i = Len(queue) + 1
      BY <2>1
    <2>5. \A i \in 1..Len(queue') : pc'[queue'[i]] = "numbered"
      BY <2>1, <2>2, <2>3, <2>4 DEF Queued, TypeOK
    <2>6. ASSUME NEW k \in Messages, pc'[k] = "numbered"
          PROVE  \E i \in 1..Len(queue') : queue'[i] = k
      <3>1. CASE k = m
        <4>1. Len(queue) + 1 \in 1..Len(queue')
          BY <2>1
        <4> QED BY <2>1, <3>1, <4>1
      <3>2. CASE k # m
        <4>1. PICK i \in 1..Len(queue) : queue[i] = k
          BY <2>3, <2>6, <3>2 DEF Queued, TypeOK
        <4>2. i \in 1..Len(queue') /\ queue'[i] = k
          BY <2>1, <4>1
        <4> QED BY <4>2
      <3> QED BY <3>1, <3>2
    <2>7. \A i, j \in 1..Len(queue') : queue'[i] = queue'[j] => i = j
      BY <2>1, <2>2, <2>4 DEF Queued
    <2> QED
      BY <2>5, <2>6, <2>7 DEF Queued
  <1>2. ASSUME NEW m \in Messages, Put(m) PROVE Queued'
    <2>1. /\ m = queue[1] /\ queue' = Tail(queue) /\ queue # <<>>
          /\ pc' = [pc EXCEPT ![m] = "putting"]
      BY <1>2, HeadOfQueue DEF Put
    <2>2. /\ Len(queue') = Len(queue) - 1 /\ Len(queue) \in Nat /\ Len(queue) >= 1
          /\ \A i \in 1..Len(queue') : queue'[i] = queue[i + 1]
      BY <2>1, HeadOfQueue
    <2>3. \A i \in 1..Len(queue) : queue[i] \in Messages
      BY <2>2 DEF TypeOK
    <2>4. \A i \in 1..Len(queue') : queue'[i] \in Messages /\ queue'[i] # m /\ pc'[queue'[i]] = "numbered"
      BY <2>1, <2>2, <2>3 DEF Queued, TypeOK
    <2>5. ASSUME NEW k \in Messages, pc'[k] = "numbered"
          PROVE  \E i \in 1..Len(queue') : queue'[i] = k
      <3>1. pc[k] = "numbered" /\ k # m
        BY <2>1, <2>5 DEF TypeOK
      <3>2. PICK i \in 1..Len(queue) : queue[i] = k
        BY <3>1 DEF Queued
      <3>3. i - 1 \in 1..Len(queue') /\ queue'[i - 1] = k
        BY <2>1, <2>2, <3>1, <3>2
      <3> QED
        BY <3>3
    <2>6. \A i, j \in 1..Len(queue') : queue'[i] = queue'[j] => i = j
      BY <2>2 DEF Queued
    <2> QED
      BY <2>4, <2>5, <2>6 DEF Queued
  <1>3. CASE ~\E m \in Messages : Number(m) \/ Put(m)
    <2>1. CASE queue' = queue
      BY <1>3, <2>1, Elsewhere DEF Queued, TypeOK
    <2>2. CASE queue' = <<>> /\ \A m \in Messages : pc'[m] # "numbered"
      BY <2>2 DEF Queued
    <2> QED
      BY <1>3, <2>1, <2>2, Elsewhere
  <1> QED
    BY <1>1, <1>2, <1>3

LEMMA NextOrdered == TypeOK /\ Queued /\ Ordered /\ [Next]_vars => Ordered'
  <1> SUFFICES ASSUME TypeOK, Queued, Ordered, [Next]_vars PROVE Ordered'
    OBVIOUS
  <1>0. \A m \in Messages : txnId[m].counter \in Nat /\ txnId[m].time \in Nat
    BY DEF TypeOK, Txn
  <1>1. ASSUME NEW m \in Messages, Number(m) PROVE Ordered'
    <2>1. /\ Len(queue') = Len(queue) + 1 /\ Len(queue) \in Nat
          /\ queue'[Len(queue) + 1] = m
          /\ \A i \in 1..Len(queue) : queue'[i] = queue[i] /\ queue[i] \in Messages
      BY <1>1, AppendProperties DEF Number, TypeOK
    <2>2. /\ \A i \in 1..Len(queue) : queue[i] # m /\ pc[queue[i]] = "numbered"
          /\ pc' = [pc EXCEPT ![m] = "numbered"] /\ txnNo' = txnNo
      BY <1>1 DEF Number, Queued
    <2>3. /\ txnId'[m].counter = txnNo
          /\ \A k \in Messages : k # m => txnId'[k] = txnId[k]
      BY <1>1 DEF Number, TxnId, TypeOK
    <2>4. \A k \in Messages : pc'[k] = "numbered" =>
            txnId'[k].counter <= txnNo' /\ txnNo' <= txnId'[k].counter + 1
      BY <1>0, <2>2, <2>3 DEF Ordered, TypeOK
    <2>5. ASSUME NEW i \in 1..Len(queue'), NEW j \in 1..Len(queue'), i < j
          PROVE  txnId'[queue'[i]].counter <= txnId'[queue'[j]].counter
      <3>1. i \in 1..Len(queue) /\ txnId'[queue'[i]] = txnId[queue[i]]
        BY <2>1, <2>2, <2>3, <2>5
      <3>2. CASE j \in 1..Len(queue)
        <4>1. txnId'[queue'[j]] = txnId[queue[j]]
          BY <2>1, <2>2, <2>3, <3>2
        <4> QED BY <2>5, <3>1, <3>2, <4>1 DEF Ordered
      <3>3. CASE j = Len(queue) + 1
        <4>1. txnId[queue[i]].counter <= txnNo
          BY <2>1, <2>2, <3>1 DEF Ordered
        <4> QED BY <2>1, <2>3, <3>1, <3>3, <4>1
      <3> QED BY <2>1, <3>2, <3>3
    <2> QED
      BY <2>4, <2>5 DEF Ordered
  <1>2. ASSUME NEW m \in Messages, Put(m) PROVE Ordered'
    <2>1. /\ m = queue[1] /\ queue' = Tail(queue) /\ queue # <<>>
          /\ pc' = [pc EXCEPT ![m] = "putting"]
          /\ txnNo' = txnId[m].counter + 1 /\ txnId' = txnId
      BY <1>2, HeadOfQueue DEF Put, Counter
    <2>2. /\ Len(queue') = Len(queue) - 1 /\ Len(queue) \in Nat /\ Len(queue) >= 1
          /\ \A i \in 1..Len(queue') : queue'[i] = queue[i + 1]
      BY <2>1, HeadOfQueue
    <2>3. \A i, j \in 1..Len(queue') :
            i < j => txnId'[queue'[i]].counter <= txnId'[queue'[j]].counter
      BY <2>1, <2>2 DEF Ordered
    <2>4. ASSUME NEW k \in Messages, pc'[k] = "numbered"
          PROVE  txnId[k].counter <= txnNo' /\ txnNo' <= txnId[k].counter + 1
      <3>1. pc[k] = "numbered" /\ k # m
        BY <2>1, <2>4 DEF TypeOK
      <3>2. PICK i \in 1..Len(queue) : queue[i] = k
        BY <3>1 DEF Queued
      <3>3. 1 < i
        BY <2>1, <3>1, <3>2
      <3>4. txnId[m].counter <= txnId[k].counter
        BY <2>1, <2>2, <3>2, <3>3 DEF Ordered
      <3>5. pc[m] = "numbered"
        BY <2>1, <2>2 DEF Queued
      <3>6. txnNo <= txnId[m].counter + 1 /\ txnId[k].counter <= txnNo
        BY <3>1, <3>5 DEF Ordered
      <3> QED
        BY <1>0, <2>1, <3>4, <3>6 DEF TypeOK
    <2> QED
      BY <2>1, <2>3, <2>4 DEF Ordered
  <1>3. CASE ~\E m \in Messages : Number(m) \/ Put(m)
    <2>1. CASE queue' = queue
      BY <1>3, <2>1, Elsewhere DEF Ordered, TypeOK
    <2>2. CASE queue' = <<>> /\ \A m \in Messages : pc'[m] # "numbered"
      BY <2>2 DEF Ordered
    <2> QED
      BY <1>3, <2>1, <2>2, Elsewhere
  <1> QED
    BY <1>1, <1>2, <1>3

----------------------------------------------------------------------------
(* Ids. *)

\* What a put does to the counter: it rises over the put's own, by one step.
LEMMA PutRaises ==
    ASSUME TypeOK, Queued, Ordered, NEW m \in Messages, Put(m)
    PROVE  /\ pc[m] = "numbered" /\ pc' = [pc EXCEPT ![m] = "putting"]
           /\ UNCHANGED <<time, txnId, overlaps, room, events, cache>>
           /\ txnId[m].counter < txnNo' /\ txnNo <= txnNo'
  <1>1. /\ m = queue[1] /\ 1 \in 1..Len(queue)
        /\ pc' = [pc EXCEPT ![m] = "putting"] /\ txnNo' = txnId[m].counter + 1
        /\ UNCHANGED <<time, txnId, overlaps, room, events, cache>>
    BY HeadOfQueue DEF Put, Counter, homeserver
  <1>2. pc[m] = "numbered"
    BY <1>1 DEF Queued
  <1>3. txnId[m].counter \in Nat
    BY DEF TypeOK, Txn
  <1> QED
    BY <1>1, <1>2, <1>3 DEF Ordered, TypeOK

\* What numbering does: the new id is of now, and of the present counter.
LEMMA NumberDraws ==
    ASSUME TypeOK, NEW m \in Messages, Number(m)
    PROVE  /\ pc[m] = "unsent" /\ pc' = [pc EXCEPT ![m] = "numbered"]
           /\ txnId' = [txnId EXCEPT ![m] = [time |-> time, counter |-> txnNo]]
           /\ overlaps'[m] = Numbering
           /\ \A k \in Numbering : k # m => overlaps'[k] = overlaps[k] \cup {m}
           /\ \A k \in Messages \ Numbering : k # m => overlaps'[k] = overlaps[k]
           /\ UNCHANGED <<time, txnNo, room, events, cache>>
  BY DEF Number, TxnId, Numbering, homeserver, TypeOK

LEMMA NextPast == TypeOK /\ Queued /\ Ordered /\ Past /\ [Next]_vars => Past'
  <1> SUFFICES ASSUME TypeOK, Queued, Ordered, Past, [Next]_vars,
                      NEW k \in Messages
               PROVE  /\ txnId'[k].time <= time'
                      /\ pc'[k] = "unsent" => ~HasId(k)'
                      /\ pc'[k] \in {"numbered", "putting", "accepted", "resolved"} => HasId(k)'
                      /\ HasId(k)' /\ pc'[k] # "numbered" =>
                            txnId'[k].time < time' \/ txnId'[k].counter < txnNo'
    BY DEF Past
  <1>0. txnId[k].counter \in Nat /\ txnId[k].time \in Nat /\ time \in Nat /\ time > 0 /\ txnNo \in Nat
    BY DEF TypeOK, Txn
  <1>1. CASE \E m \in Messages : Number(m)
    <2>0. PICK m \in Messages : Number(m)
      BY <1>1
    <2>1. CASE k = m
      BY <1>0, <2>0, <2>1, NumberDraws DEF HasId, TypeOK
    <2>2. CASE k # m
      <3>1. txnId'[k] = txnId[k] /\ pc'[k] = pc[k] /\ time' = time /\ txnNo' = txnNo
        BY <2>0, <2>2, NumberDraws DEF TypeOK
      <3> QED BY <3>1 DEF Past, HasId
    <2> QED BY <2>1, <2>2
  <1>2. CASE \E m \in Messages : Put(m)
    <2>0. PICK m \in Messages : Put(m)
      BY <1>2
    <2>1. /\ txnId' = txnId /\ time' = time /\ pc[m] = "numbered"
          /\ pc' = [pc EXCEPT ![m] = "putting"]
          /\ txnId[m].counter < txnNo' /\ txnNo <= txnNo' /\ txnNo' \in Nat
      BY <2>0, PutRaises, NextTyped DEF TypeOK
    <2> QED BY <1>0, <2>1 DEF Past, HasId, TypeOK
  <1>3. CASE ~\E m \in Messages : Number(m) \/ Put(m)
    <2>1. /\ txnId' = txnId /\ time <= time' /\ time' \in Nat
          /\ \/ txnNo' = txnNo /\ (pc'[k] = "numbered" <=> pc[k] = "numbered")
             \/ time' = time + 1 /\ pc'[k] \in {"unsent", "resolved", "rejected"}
          /\ pc'[k] = "unsent" => pc[k] = "unsent"
          /\ pc'[k] = "putting" => pc[k] = "putting"
          /\ pc'[k] = "accepted" => pc[k] \in {"putting", "accepted"}
          /\ pc'[k] = "resolved" => pc[k] \in {"accepted", "resolved"}
      BY <1>3, Elsewhere, NextTyped DEF TypeOK
    <2> QED BY <1>0, <2>1 DEF Past, HasId
  <1> QED
    BY <1>1, <1>2, <1>3

LEMMA NextCounterAhead ==
    TypeOK /\ Queued /\ Ordered /\ CounterAhead /\ [Next]_vars => CounterAhead'
  <1> SUFFICES ASSUME TypeOK, Queued, Ordered, CounterAhead, [Next]_vars,
                      NEW k \in Messages, pc'[k] \in {"putting", "accepted"}
               PROVE  txnId'[k].counter < txnNo'
    BY DEF CounterAhead
  <1>0. txnId[k].counter \in Nat /\ txnNo \in Nat /\ txnNo' \in Nat
    BY NextTyped DEF TypeOK, Txn
  <1>1. CASE \E m \in Messages : Number(m)
    <2>0. PICK m \in Messages : Number(m)
      BY <1>1
    <2> QED BY <2>0, NumberDraws DEF CounterAhead, TypeOK
  <1>2. CASE \E m \in Messages : Put(m)
    <2>0. PICK m \in Messages : Put(m)
      BY <1>2
    <2> QED BY <1>0, <2>0, PutRaises DEF CounterAhead, TypeOK
  <1>3. CASE ~\E m \in Messages : Number(m) \/ Put(m)
    <2>1. /\ txnId' = txnId /\ pc[k] \in {"putting", "accepted"}
          /\ txnNo' = txnNo \/ pc'[k] \in {"unsent", "resolved", "rejected"}
      BY <1>3, Elsewhere DEF TypeOK
    <2> QED BY <2>1 DEF CounterAhead
  <1> QED
    BY <1>1, <1>2, <1>3

\* A new id differs from every older one, but those of the calls that are
\* being numbered.
LEMMA NextCollide == TypeOK /\ Queued /\ Ordered /\ Past /\ Collide /\ [Next]_vars => Collide'
  <1> SUFFICES ASSUME TypeOK, Queued, Ordered, Past, Collide, [Next]_vars,
                      NEW k \in Messages, NEW l \in Messages,
                      k # l, HasId(k)', txnId'[k] = txnId'[l]
               PROVE  k \in overlaps'[l]
    BY DEF Collide
  <1>1. ASSUME NEW m \in Messages, Number(m) PROVE k \in overlaps'[l]
    <2> DEFINE new == [time |-> time, counter |-> txnNo]
    <2>1. \A i \in Messages : i # m /\ txnId[i] = new => i \in Numbering
      <3> SUFFICES ASSUME NEW i \in Messages, i # m, txnId[i] = new PROVE i \in Numbering
        OBVIOUS
      <3>1. txnId[i].time = time /\ txnId[i].counter = txnNo /\ time > 0
        BY DEF TypeOK
      <3>2. HasId(i)
        BY <3>1 DEF HasId
      <3> QED
        BY <3>1, <3>2 DEF Past, Numbering, TypeOK
    <2>2. CASE k = m
      <3>1. txnId[l] = new
        BY <1>1, <2>2, NumberDraws DEF TypeOK
      <3>2. l \in Numbering
        BY <2>1, <2>2, <3>1
      <3> QED BY <1>1, <2>2, <3>2, NumberDraws
    <2>3. CASE l = m
      <3>1. txnId[k] = new
        BY <1>1, <2>3, NumberDraws DEF TypeOK
      <3> QED BY <1>1, <2>1, <2>3, <3>1, NumberDraws
    <2>4. CASE k # m /\ l # m
      <3>1. txnId[k] = txnId[l] /\ HasId(k)
        BY <1>1, <2>4, NumberDraws DEF HasId, TypeOK
      <3>2. k \in overlaps[l]
        BY <3>1 DEF Collide
      <3> QED BY <1>1, <2>4, <3>2, NumberDraws
    <2> QED BY <2>2, <2>3, <2>4
  <1>2. ASSUME NEW m \in Messages, Put(m) PROVE k \in overlaps'[l]
    BY <1>2, PutRaises DEF Collide, HasId
  <1>3. CASE ~\E m \in Messages : Number(m) \/ Put(m)
    BY <1>3, Elsewhere DEF Collide, HasId
  <1> QED
    BY <1>1, <1>2, <1>3

----------------------------------------------------------------------------
(* The homeserver. *)

\* A step in which the homeserver gets no put leaves its answers alone, and
\* what it was asked.
LEMMA Unasked ==
    ASSUME TypeOK, Queued, Ordered, [Next]_vars, ~\E m \in Messages : Accept(m)
    PROVE  /\ UNCHANGED <<room, events, cache>>
           /\ \A k \in Messages :
                 /\ pc[k] \in {"accepted", "resolved", "rejected"} =>
                       /\ pc'[k] \in {"accepted", "resolved", "rejected"}
                       /\ txnId'[k] = txnId[k]
                 /\ pc'[k] \in {"accepted", "resolved"} => pc[k] \in {"accepted", "resolved"}
  <1> USE DEF calls, homeserver, limits, TypeOK
  <1>1. CASE Clock \/ LogIn \/ UNCHANGED vars
    BY <1>1 DEF Clock, LogIn, vars
  <1>2. CASE Restart
    BY <1>2 DEF Restart
  <1>3. ASSUME NEW m \in Messages, Unauthorized(m) \/ Resolve(m) \/ Reject(m)
        PROVE  /\ UNCHANGED <<room, events, cache, txnId>>
               /\ pc' = [pc EXCEPT ![m] = pc'[m]]
               /\ \/ pc'[m] = "rejected"
                  \/ pc[m] = "accepted" /\ pc'[m] = "resolved"
    BY <1>3 DEF Unauthorized, Resolve, Reject
  <1>4. ASSUME NEW m \in Messages, Number(m)
        PROVE  /\ UNCHANGED <<room, events, cache>> /\ pc[m] = "unsent"
               /\ pc' = [pc EXCEPT ![m] = "numbered"]
               /\ \A k \in Messages : k # m => txnId'[k] = txnId[k]
    BY <1>4, NumberDraws
  <1>5. ASSUME NEW m \in Messages, Put(m)
        PROVE  /\ UNCHANGED <<room, events, cache, txnId>> /\ pc[m] = "numbered"
               /\ pc' = [pc EXCEPT ![m] = "putting"]
    BY <1>5, PutRaises
  <1> QED
    BY <1>1, <1>2, <1>3, <1>4, <1>5 DEF Next

LEMMA NextRemembered ==
    TypeOK /\ Queued /\ Ordered /\ Remembered /\ [Next]_vars => Remembered'
  <1> SUFFICES ASSUME TypeOK, Queued, Ordered, Remembered, [Next]_vars, NEW e \in cache'
               PROVE  \E k \in Messages :
                         /\ room'[k] = e.room /\ txnId'[k] = e.txnId
                         /\ pc'[k] \in {"accepted", "resolved", "rejected"}
    BY DEF Remembered
  <1>1. CASE \E m \in Messages : Accept(m)
    <2>0. PICK m \in Messages : Accept(m)
      BY <1>1
    <2>1. /\ cache' = cache \cup {[room |-> room[m], txnId |-> txnId[m]]}
          /\ pc' = [pc EXCEPT ![m] = "accepted"] /\ room' = room /\ txnId' = txnId
      BY <2>0 DEF Accept
    <2>2. CASE e \in cache
      BY <2>1, <2>2 DEF Remembered, TypeOK
    <2>3. CASE e = [room |-> room[m], txnId |-> txnId[m]]
      BY <2>1, <2>3 DEF TypeOK
    <2> QED BY <2>1, <2>2, <2>3
  <1>2. CASE ~\E m \in Messages : Accept(m)
    <2>1. e \in cache /\ room' = room
      BY <1>2, Unasked
    <2>2. PICK k \in Messages : /\ room[k] = e.room /\ txnId[k] = e.txnId
                                /\ pc[k] \in {"accepted", "resolved", "rejected"}
      BY <2>1 DEF Remembered
    <2> QED BY <1>2, <2>1, <2>2, Unasked
  <1> QED
    BY <1>1, <1>2

\* Who a message was being numbered with is known once it has its id.
LEMMA OverlapsStay ==
    ASSUME TypeOK, Queued, Ordered, Past, [Next]_vars,
           NEW m \in Messages, HasId(m), NEW k \in overlaps[m], txnId[k] = txnId[m]
    PROVE  k \in overlaps'[m] /\ txnId'[k] = txnId'[m] /\ k \in Messages
  <1>1. k \in Messages /\ HasId(k)
    BY DEF TypeOK, HasId
  <1>2. CASE \E l \in Messages : Number(l)
    <2>0. PICK l \in Messages : Number(l)
      BY <1>2
    <2>1. k # l /\ m # l
      BY <1>1, <2>0, NumberDraws DEF Past
    <2> QED BY <1>1, <2>0, <2>1, NumberDraws DEF TypeOK
  <1>3. CASE \E l \in Messages : Put(l)
    BY <1>1, <1>3, PutRaises
  <1>4. CASE ~\E l \in Messages : Number(l) \/ Put(l)
    BY <1>1, <1>4, Elsewhere
  <1> QED
    BY <1>2, <1>3, <1>4

LEMMA NextAnswered ==
    TypeOK /\ Queued /\ Ordered /\ Past /\ Collide /\ Remembered /\ Answered /\ [Next]_vars
      => Answered'
  <1> SUFFICES ASSUME TypeOK, Queued, Ordered, Past, Collide, Remembered, Answered, [Next]_vars,
                      NEW m \in Messages, pc'[m] \in {"accepted", "resolved"},
                      m \notin events'[room'[m]]
               PROVE  \E k \in overlaps'[m] : room'[k] = room'[m] /\ txnId'[k] = txnId'[m]
    BY DEF Answered
  <1>1. SUFFICES /\ HasId(m) /\ room' = room
                 /\ \E k \in overlaps[m] : room[k] = room[m] /\ txnId[k] = txnId[m]
    BY OverlapsStay
  <1>2. CASE ~\E l \in Messages : Accept(l)
    BY <1>2, Unasked DEF Answered, Past
  <1>3. CASE \E l \in Messages : Accept(l)
    <2>0. PICK l \in Messages : Accept(l)
      BY <1>3
    <2>1. /\ pc[l] = "putting" /\ pc' = [pc EXCEPT ![l] = "accepted"] /\ room' = room
          /\ events' = IF [room |-> room[l], txnId |-> txnId[l]] \in cache
                       THEN events ELSE [events EXCEPT ![room[l]] = @ \cup {l}]
      BY <2>0 DEF Accept
    <2>2. CASE m = l
      <3>1. HasId(m) /\ room[m] \in Rooms
        BY <2>1, <2>2 DEF Past, TypeOK
      <3>2. [room |-> room[m], txnId |-> txnId[m]] \in cache
        BY <2>1, <2>2, <3>1 DEF TypeOK
      <3>3. PICK k \in Messages : /\ room[k] = room[m] /\ txnId[k] = txnId[m]
                                  /\ pc[k] \in {"accepted", "resolved", "rejected"}
        BY <3>2 DEF Remembered
      <3>4. k # m /\ HasId(k)
        BY <2>1, <2>2, <3>1, <3>3 DEF HasId
      <3>5. k \in overlaps[m]
        BY <3>3, <3>4 DEF Collide
      <3> QED BY <2>1, <3>1, <3>3, <3>5
    <2>3. CASE m # l
      <3>1. pc[m] \in {"accepted", "resolved"} /\ room[m] \in Rooms
        BY <2>1, <2>3 DEF TypeOK
      <3>2. m \notin events[room[m]]
        BY <2>1, <3>1 DEF TypeOK
      <3> QED BY <2>1, <3>1, <3>2 DEF Answered, Past
    <2> QED BY <2>2, <2>3
  <1> QED
    BY <1>2, <1>3

----------------------------------------------------------------------------
\* The inductive invariant holds in every reachable state (MatrixClient's
\* sendTextMessage and createTxnId, MatrixEventService.sendMessage).
THEOREM Invariance == Spec => []IInv
  <1>1. IInv /\ [Next]_vars => IInv'
    BY NextTyped, NextQueued, NextOrdered, NextPast, NextCounterAhead, NextCollide,
       NextRemembered, NextAnswered DEF IInv
  <1> QED
    BY InitIInv, <1>1, PTL DEF Spec

\* Every variable has its type.
THEOREM TypeCorrect == Spec => []TypeOK
  <1>1. IInv => TypeOK
    BY DEF IInv
  <1> QED BY <1>1, Invariance, PTL

\* The counter is ahead of every id in use (MatrixClient.createTxnId).
THEOREM Ahead == Spec => []CounterAhead
  <1>1. IInv => CounterAhead
    BY DEF IInv
  <1> QED BY <1>1, Invariance, PTL

\* A message that resolved is in its room, or shares its id with one whose
\* numbering overlapped with its own (MatrixClient.sendTextMessage).
THEOREM LossHasCause == Spec => []LostOnlyByOverlap
  <1>1. IInv => LostOnlyByOverlap
    BY DEF IInv, Answered, LostOnlyByOverlap
  <1> QED BY <1>1, Invariance, PTL
=============================================================================
