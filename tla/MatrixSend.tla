----------------------------- MODULE MatrixSend -----------------------------
(***************************************************************************)
(* Sending through the matrix client: MatrixClient.sendTextMessage gives   *)
(* each message a transaction id made of the time and of a counter in the  *)
(* store, and MatrixEventService puts it to the homeserver under that id.  *)
(*                                                                         *)
(* The homeserver makes PUT /rooms/R/send/T/ID idempotent: a second put    *)
(* with the id of an earlier one is answered like it and adds no event.    *)
(***************************************************************************)
EXTENDS Naturals, Sequences

CONSTANTS
    Messages,     \* calls of sendTextMessage, each with a text of its own
    Rooms,
    MaxTime,      \* milliseconds the run lasts (a bound)
    MaxRestarts,  \* restarts of the process (a bound)
    MaxErrors     \* requests that fail (a bound)

Labels == {"unsent", "numbered", "putting", "accepted", "resolved", "rejected"}

NoTxn == [time |-> 0, counter |-> 0]

ASSUME BoundsAreNatural ==
    MaxTime \in Nat \ {0} /\ MaxRestarts \in Nat /\ MaxErrors \in Nat

VARIABLES
    time,         \* new Date().getTime()
    accessToken,  \* whether the store has one
    txnNo,        \* the store's counter
    queue,        \* messages whose update of the counter waits, oldest first
    pc,           \* message -> where its call is
    room,         \* message -> the room it is for
    txnId,        \* message -> its transaction id
    overlaps,     \* history: message -> those being numbered when it was
    events,       \* the homeserver's rooms: the messages each one holds
    cache,        \* the homeserver's answers, by room and transaction id
    restarts, errors

calls == <<pc, room, txnId, overlaps>>
homeserver == <<events, cache>>
limits == <<restarts, errors>>
vars == <<time, accessToken, txnNo, queue, pc, room, txnId, overlaps,
          events, cache, restarts, errors>>

Numbering == {m \in Messages : pc[m] = "numbered"}

Clock ==
    /\ time < MaxTime
    /\ time' = time + 1
    /\ UNCHANGED <<accessToken, txnNo, queue, calls, homeserver, limits>>

LogIn ==
    /\ ~accessToken
    /\ accessToken' = TRUE
    /\ UNCHANGED <<time, txnNo, queue, calls, homeserver, limits>>

\* requiresAuthorization rejects without a token.
Unauthorized(m) ==
    /\ pc[m] = "unsent" /\ ~accessToken
    /\ pc' = [pc EXCEPT ![m] = "rejected"]
    /\ UNCHANGED <<time, accessToken, txnNo, queue, room, txnId, overlaps, homeserver, limits>>

SkipsTheTime == [time |-> 0, counter |-> txnNo]                  \* mutant

CountsFromBefore == [time |-> time, counter |-> txnNo - 1]       \* mutant

TxnId == [time |-> time, counter |-> txnNo]

\* sendTextMessage and createTxnId up to the await of the store's update:
\* time and counter are read, the counter is not raised yet.
Number(m) ==
    /\ pc[m] = "unsent" /\ accessToken
    /\ pc' = [pc EXCEPT ![m] = "numbered"]
    /\ txnId' = [txnId EXCEPT ![m] = TxnId]
    /\ overlaps' = [k \in Messages |->
          IF k = m THEN Numbering ELSE IF k \in Numbering THEN overlaps[k] \cup {m} ELSE overlaps[k]]
    /\ queue' = Append(queue, m)
    /\ UNCHANGED <<time, accessToken, txnNo, room, homeserver, limits>>

\* The update of the counter that createTxnId computed before the await.
Counter(m) == txnId[m].counter + 1

PutsInAnyOrder(m) ==                                             \* mutant
    /\ pc[m] = "numbered"
    /\ txnNo' = Counter(m)
    /\ queue' = SelectSeq(queue, LAMBDA k : k # m)
    /\ pc' = [pc EXCEPT ![m] = "putting"]
    /\ UNCHANGED <<time, accessToken, room, txnId, overlaps, homeserver, limits>>

\* Continuations run in order: the update, then the put leaves.
Put(m) ==
    /\ queue # <<>> /\ m = Head(queue)
    /\ txnNo' = Counter(m)
    /\ queue' = Tail(queue)
    /\ pc' = [pc EXCEPT ![m] = "putting"]
    /\ UNCHANGED <<time, accessToken, room, txnId, overlaps, homeserver, limits>>

\* The homeserver gets the put.
Accept(m) ==
    /\ pc[m] = "putting"
    /\ cache' = cache \cup {[room |-> room[m], txnId |-> txnId[m]]}
    /\ events' = IF [room |-> room[m], txnId |-> txnId[m]] \in cache
                 THEN events
                 ELSE [events EXCEPT ![room[m]] = @ \cup {m}]
    /\ pc' = [pc EXCEPT ![m] = "accepted"]
    /\ UNCHANGED <<time, accessToken, txnNo, queue, room, txnId, overlaps, limits>>

\* sendEvent: onSuccess.
Resolve(m) ==
    /\ pc[m] = "accepted"
    /\ pc' = [pc EXCEPT ![m] = "resolved"]
    /\ UNCHANGED <<time, accessToken, txnNo, queue, room, txnId, overlaps, homeserver, limits>>

\* sendEvent: onError, when the put or its answer is lost.
Reject(m) ==
    /\ pc[m] \in {"putting", "accepted"} /\ errors < MaxErrors
    /\ errors' = errors + 1
    /\ pc' = [pc EXCEPT ![m] = "rejected"]
    /\ UNCHANGED <<time, accessToken, txnNo, queue, room, txnId, overlaps, homeserver, restarts>>

\* Another process: txnNo is not among the preserved fields, and it takes a
\* while.
Restart ==
    /\ restarts < MaxRestarts /\ time < MaxTime
    /\ restarts' = restarts + 1
    /\ time' = time + 1
    /\ accessToken' = FALSE /\ txnNo' = 0
    /\ queue' = <<>>
    /\ pc' = [m \in Messages |->
          IF pc[m] \in {"unsent", "resolved"} THEN pc[m] ELSE "rejected"]
    /\ UNCHANGED <<room, txnId, overlaps, homeserver, errors>>

Init ==
    /\ time = 1 /\ accessToken = FALSE /\ txnNo = 0
    /\ queue = <<>>
    /\ pc = [m \in Messages |-> "unsent"]
    /\ room \in [Messages -> Rooms]
    /\ txnId = [m \in Messages |-> NoTxn]
    /\ overlaps = [m \in Messages |-> {}]
    /\ events = [r \in Rooms |-> {}] /\ cache = {}
    /\ restarts = 0 /\ errors = 0

Next ==
    \/ Clock \/ LogIn \/ Restart
    \/ \E m \in Messages :
          \/ Unauthorized(m) \/ Number(m) \/ Put(m)
          \/ Accept(m) \/ Resolve(m) \/ Reject(m)

Spec == Init /\ [][Next]_vars

----------------------------------------------------------------------------
Txn == [time : 0..MaxTime, counter : Nat]

\* Every variable has its type.
TypeOK ==
    /\ time \in 1..MaxTime /\ accessToken \in BOOLEAN /\ txnNo \in Nat
    /\ queue \in Seq(Messages) /\ pc \in [Messages -> Labels]
    /\ room \in [Messages -> Rooms] /\ txnId \in [Messages -> Txn]
    /\ overlaps \in [Messages -> SUBSET Messages]
    /\ events \in [Rooms -> SUBSET Messages]
    /\ cache \subseteq [room : Rooms, txnId : Txn]
    /\ restarts \in 0..MaxRestarts /\ errors \in 0..MaxErrors

\* A message whose sendTextMessage resolved is in its room, unless it has the
\* id of another message for that room whose numbering overlapped with its
\* own: messages sent one after the other, or to different rooms, or before
\* and after a restart that resets the counter, never take each other's id.
LostOnlyByOverlap ==
    \A m \in Messages :
        pc[m] = "resolved" /\ m \notin events[room[m]] =>
            \E k \in overlaps[m] : room[k] = room[m] /\ txnId[k] = txnId[m]

\* The counter never falls behind an id in use: the updates, each computed
\* before its await, are applied in the order they were read in.
CounterAhead ==
    \A m \in Messages :
        pc[m] \in {"putting", "accepted"} => txnId[m].counter < txnNo

\* 'Send a text message' (MatrixClient.sendTextMessage): when the promise
\* resolves, the message is in the room.
Sent ==
    \A m \in Messages : pc[m] = "resolved" => m \in events[room[m]]
=============================================================================
