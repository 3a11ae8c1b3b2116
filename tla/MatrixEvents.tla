---------------------------- MODULE MatrixEvents ----------------------------
(***************************************************************************)
(* The events of the matrix client, one listener call at a time: an update *)
(* of the store with the rooms of a sync answer, the events that           *)
(* MatrixClientEventEmitter makes of it, and the listeners of the          *)
(* application, which subscribe and unsubscribe between updates or in the  *)
(* middle of one, and may throw.  MatrixClient takes an emission for one   *)
(* step, or one cut off, with a listener that stays.                       *)
(*                                                                         *)
(* One loop polls, each room is in one section of an answer, and the       *)
(* Storage outlives the process and has the token before the first event   *)
(* is emitted: MatrixClient has the storages and homeservers of other      *)
(* kinds, and several loops.                                               *)
(*                                                                         *)
(* Emitting is synchronous: nothing else runs between the update and its   *)
(* last listener, except what a listener itself calls.  MatrixClient.ts    *)
(* updates the store from a promise nobody awaits, so a listener that      *)
(* throws ends the process (an unhandled rejection, in Node 15).           *)
(***************************************************************************)
EXTENDS InOrder, SequencesExt

CONSTANTS
    Rooms, Listeners,
    Answers,       \* the rooms of a sync answer: sequences of room updates
    MaxAnswers,    \* answers of the homeserver (a bound)
    MaxChanges,    \* calls of subscribe and unsubscribe (a bound)
    MaxRestarts    \* processes that end and start again (a bound)

Statuses == {"unknown", "joined", "invited", "left"}

MessagesFirst == <<"message", "invite">>                         \* mutant

\* In the order of its keys.
MatrixClientEventType == <<"invite", "message">>

Types == ToSet(MatrixClientEventType)

\* A room of a sync answer: "messages" many of them, none in an invitation.
RoomUpdate == [id : Rooms, status : Statuses \ {"unknown"}, messages : Nat]

\* MatrixRoom.fromSync: joined rooms, then invited ones, then those it left.
Place == [joined |-> 1, invited |-> 2, left |-> 3]

ASSUME AnswersAssumption ==
    \A answer \in Answers :
        /\ answer \in Seq(RoomUpdate)
        /\ \A i, j \in DOMAIN answer : i < j =>
              /\ answer[i].id # answer[j].id
              /\ Place[answer[i].status] <= Place[answer[j].status]
        /\ \A i \in DOMAIN answer :
              answer[i].status = "invited" => answer[i].messages = 0

ASSUME BoundsAssumption == {MaxAnswers, MaxChanges, MaxRestarts} \subseteq Nat

VARIABLES
    state,      \* MatrixClientStore.state: the sync token, and the rooms
    storage,    \* the sync token that outlives the process
    listeners,  \* event type -> the listeners EventEmitter has, in order
    answer,     \* the rooms of the update that is or was last under way
    events,     \* the events it still has to emit
    event,      \* the event being emitted, if any
    calling,    \* the listeners emit still has to call
    heard,      \* history: listener -> the events of this update it was called with
    steady,     \* history: the subscriptions untouched since this update began
    late,       \* history: a removed subscription -> the events heard all the same
    since,      \* history: the token this process began with
    emitted,    \* history: the events ever emitted, by any process
    changes, restarts

dispatch == <<answer, events, event, calling>>
subscriptions == <<listeners, steady, late, changes>>
vars == <<state, storage, dispatch, subscriptions, heard, since, emitted, restarts>>

----------------------------------------------------------------------------
(* What an update is told of.  A message is known by the token of its answer, *)
(* its room, and its place among the room's messages there.                   *)

InviteEvent(token, room) == [type |-> "invite", token |-> token, room |-> room, place |-> 0]
MessageEvent(token, room, n) ==
    [type |-> "message", token |-> token, room |-> room, place |-> n]

EmitInvite(token, rooms) ==
    LET invited == Pick(rooms, {i \in DOMAIN rooms : rooms[i].status = "invited"})
    IN  [i \in DOMAIN invited |-> InviteEvent(token, invited[i].id)]

FirstOfEachRoom(token, rooms) ==                                 \* mutant
    LET written == Pick(rooms, {i \in DOMAIN rooms : rooms[i].messages > 0})
    IN  [i \in DOMAIN written |-> MessageEvent(token, written[i].id, 1)]

EmitMessage(token, rooms) ==
    LET written == Pick(rooms, {i \in DOMAIN rooms : rooms[i].messages > 0})
    IN  FlattenSeq([i \in DOMAIN written |->
            [n \in 1..written[i].messages |-> MessageEvent(token, written[i].id, n)]])

\* emitIfEvent, for each type of event in turn.
EmitIfEvent(type, token, rooms) ==
    IF type = "invite" THEN EmitInvite(token, rooms) ELSE EmitMessage(token, rooms)

OnStateChanged(token, rooms) ==
    FlattenSeq([k \in DOMAIN MatrixClientEventType |->
        EmitIfEvent(MatrixClientEventType[k], token, rooms)])

NewestOnly(old, room, token) ==                                  \* mutant
    [status |-> room.status,
     messages |-> {MessageEvent(token, room.id, n) : n \in 1..room.messages}]

\* MatrixRoom.merge of a room of the answer into the one of the store.
Merge(old, room, token) ==
    [status |-> room.status,
     messages |-> old.messages
                    \cup {MessageEvent(token, room.id, n) : n \in 1..room.messages}]

RoomsOfAnswer(old, rooms, token) ==                              \* mutant
    [id \in {rooms[i].id : i \in DOMAIN rooms} |->
        Merge(old[id], rooms[CHOOSE i \in DOMAIN rooms : rooms[i].id = id], token)]

MergeRooms(old, rooms, token) ==
    [id \in Rooms |->
        IF \E i \in DOMAIN rooms : rooms[i].id = id
        THEN Merge(old[id], rooms[CHOOSE i \in DOMAIN rooms : rooms[i].id = id], token)
        ELSE old[id]]

----------------------------------------------------------------------------
Idle == events = <<>> /\ calling = <<>>

Occurrences(type, listener) ==
    {i \in DOMAIN listeners[type] : listeners[type][i] = listener}

Subscribed == {s \in Types \X Listeners : Occurrences(s[1], s[2]) # {}}
Once == {s \in Types \X Listeners : Cardinality(Occurrences(s[1], s[2])) = 1}

StoredLast(rooms) ==                                             \* mutant
    /\ Idle /\ state.token < MaxAnswers
    /\ LET token == state.token + 1
       IN  /\ state' = [token |-> token, rooms |-> MergeRooms(state.rooms, rooms, token)]
           /\ events' = OnStateChanged(token, rooms)
    /\ storage' = state.token
    /\ answer' = rooms /\ event' = <<>>
    /\ heard' = [l \in Listeners |-> <<>>] /\ steady' = Once
    /\ UNCHANGED <<calling, listeners, late, changes, since, emitted, restarts>>

\* MatrixClientStore.update: the state, then the storage, then the listeners.
Update(rooms) ==
    /\ Idle /\ state.token < MaxAnswers
    /\ LET token == state.token + 1
       IN  /\ state' = [token |-> token, rooms |-> MergeRooms(state.rooms, rooms, token)]
           /\ storage' = token
           /\ events' = OnStateChanged(token, rooms)
    /\ answer' = rooms /\ event' = <<>>
    /\ heard' = [l \in Listeners |-> <<>>] /\ steady' = Once
    /\ UNCHANGED <<calling, listeners, late, changes, since, emitted, restarts>>

\* emit: a copy of the listeners as they are now.
Emit ==
    /\ calling = <<>> /\ events # <<>>
    /\ event' = <<Head(events)>>
    /\ events' = Tail(events)
    /\ calling' = listeners[Head(events).type]
    /\ emitted' = Append(emitted, Head(events))
    /\ UNCHANGED <<state, storage, answer, subscriptions, heard, since, restarts>>

----------------------------------------------------------------------------
(* Subscriptions. *)

\* From here on the subscriptions gone are expected to hear nothing more.
Removed(gone, before) ==
    late' = [s \in DOMAIN before \cup gone |-> IF s \in gone THEN {} ELSE before[s]]

Subscribe(type, listener, before) ==
    /\ listeners' = [listeners EXCEPT ![type] = Append(@, listener)]
    /\ steady' = steady \ {<<type, listener>>}
    /\ late' = Restrict(before, DOMAIN before \ {<<type, listener>>})

\* removeListener: the last of its occurrences, if there is one.
RemoveListener(type, listener, before) ==
    /\ listeners' = [listeners EXCEPT ![type] =
          IF Occurrences(type, listener) = {} THEN @
          ELSE RemoveAt(@, Max(Occurrences(type, listener)))]
    /\ steady' = steady \ {<<type, listener>>}
    /\ Removed(Once \cap {<<type, listener>>}, before)

RemovesNone(type, before) ==                                     \* mutant
    /\ UNCHANGED listeners
    /\ steady' = steady \ ({type} \X Listeners)
    /\ Removed(Subscribed \cap ({type} \X Listeners), before)

RemoveAllListeners(type, before) ==
    /\ listeners' = [listeners EXCEPT ![type] = <<>>]
    /\ steady' = steady \ ({type} \X Listeners)
    /\ Removed(Subscribed \cap ({type} \X Listeners), before)

\* unsubscribe takes one listener, or none for all of them.
Change(before) ==
    /\ changes < MaxChanges
    /\ changes' = changes + 1
    /\ \E type \in Types :
          \/ \E listener \in Listeners :
                \/ Subscribe(type, listener, before)
                \/ RemoveListener(type, listener, before)
          \/ RemoveAllListeners(type, before)

\* The application between two updates.
Application ==
    /\ Idle /\ Change(late)
    /\ UNCHANGED <<state, storage, dispatch, heard, since, emitted, restarts>>

\* late, when the listener of a removed subscription is called all the same.
HeardLate(listener) ==
    [s \in DOMAIN late |->
        IF s = <<event[1].type, listener>> THEN late[s] \cup {event[1]} ELSE late[s]]

\* The next listener is called; it may change the subscriptions.
Call ==
    /\ calling # <<>>
    /\ LET listener == Head(calling)
       IN  /\ heard' = [heard EXCEPT ![listener] = Append(@, event[1])]
           /\ \/ Change(HeardLate(listener))
              \/ /\ late' = HeardLate(listener)
                 /\ UNCHANGED <<listeners, steady, changes>>
    /\ calling' = Tail(calling)
    /\ UNCHANGED <<state, storage, answer, events, event, since, emitted, restarts>>

\* The process ends, killed or by a listener that throws, and starts again
\* with the token of the storage and no listeners.  With the Map of
\* storage/Storage.ts the token would be gone, and the next process would
\* emit old messages again.
Restart ==
    /\ restarts < MaxRestarts
    /\ restarts' = restarts + 1
    /\ since' = storage
    /\ state' = [token |-> storage,
                 rooms |-> [id \in Rooms |-> [state.rooms[id] EXCEPT !.messages = {}]]]
    /\ listeners' = [type \in Types |-> <<>>]
    /\ answer' = <<>> /\ events' = <<>> /\ event' = <<>> /\ calling' = <<>>
    /\ heard' = [l \in Listeners |-> <<>>] /\ steady' = {} /\ late' = <<>>
    /\ UNCHANGED <<storage, emitted, changes>>

Init ==
    /\ state = [token |-> 0,
                rooms |-> [id \in Rooms |-> [status |-> "unknown", messages |-> {}]]]
    /\ storage = 0
    /\ listeners = [type \in Types |-> <<>>]
    /\ answer = <<>> /\ events = <<>> /\ event = <<>> /\ calling = <<>>
    /\ heard = [l \in Listeners |-> <<>>] /\ steady = {} /\ late = <<>>
    /\ since = 0 /\ emitted = <<>>
    /\ changes = 0 /\ restarts = 0

Next ==
    \/ \E rooms \in Answers : Update(rooms)
    \/ Emit
    \/ Call
    \/ Application
    \/ Restart

Spec == Init /\ [][Next]_vars

----------------------------------------------------------------------------
(* Properties. *)

Event == [type : Types, token : Nat \ {0}, room : Rooms, place : Nat]
Room == [status : Statuses, messages : SUBSET Event]

\* Every variable has its type; what is being emitted belongs to the answer.
TypeOK ==
    /\ state.token \in 0..MaxAnswers /\ storage \in 0..MaxAnswers
    /\ since \in 0..storage
    /\ state.rooms \in [Rooms -> Room]
    /\ listeners \in [Types -> Seq(Listeners)]
    /\ answer \in Answers \cup {<<>>}
    /\ events \in Seq(Event) /\ calling \in Seq(Listeners)
    /\ event \in {<<>>} \cup [1..1 -> Event]
    /\ heard \in [Listeners -> Seq(Event)]
    /\ steady \subseteq Subscribed
    /\ \A s \in DOMAIN late : s \in Types \X Listeners /\ late[s] \subseteq Event
    /\ emitted \in Seq(Event)
    /\ changes \in 0..MaxChanges /\ restarts \in 0..MaxRestarts

Invited == {answer[i].id : i \in {j \in DOMAIN answer : answer[j].status = "invited"}}

\* A listener whose subscription nobody touched during an update was called
\* with every event of its type in the answer, once, the messages of a room
\* in order, whatever subscribing and unsubscribing the listeners did
\* meanwhile (MatrixClientEventEmitter.onStateChanged).
SteadyHearAll ==
    Idle => \A s \in steady :
        LET mine == {k \in DOMAIN heard[s[2]] : heard[s[2]][k].type = s[1]}
            InRoom(room) == {k \in mine : heard[s[2]][k].room = room}
        IN  /\ IsInjective(Pick(heard[s[2]], mine))
            /\ s[1] = "invite" => {heard[s[2]][k].room : k \in mine} = Invited
            /\ s[1] = "message" =>
                  \A i \in DOMAIN answer :
                     Pick(heard[s[2]], InRoom(answer[i].id))
                       = [n \in 1..answer[i].messages |->
                            MessageEvent(state.token, answer[i].id, n)]

\* No listener hears of a message before it has heard of the invitations that
\* came in the same answer: joining a room never waits behind the messages of
\* another (the order of MatrixClientEventType's keys).
InvitesFirst ==
    \A l \in Listeners : \A i, j \in DOMAIN heard[l] :
        heard[l][i].type = "message" /\ heard[l][j].type = "invite" => j < i

\* A listener that looks up the room of its event finds it in the store as the
\* event tells it, although several events and updates of the same room may be
\* on their way: the invitation still open, the message already there, with
\* those of every earlier answer this process had (MatrixClientStore.update,
\* MatrixClient.getRoomById).
SeenInStore ==
    \A i \in DOMAIN event : calling # <<>> =>
        LET room == state.rooms[event[i].room]
        IN  /\ event[i].type = "invite" => room.status = "invited"
            /\ event[i].type = "message" =>
                  {e \in ToSet(emitted) : e.type = "message" /\ e.room = event[i].room
                                           /\ e.token > since} \subseteq room.messages

\* No event is ever emitted twice, though a process may end in the middle of
\* an update and the next one go on from the storage: what a throwing listener
\* cut off is lost rather than repeated (MatrixClientStore.ts:110-112).  This
\* is of a Storage that outlives the process, and of one polling loop.
EmittedOnce == IsInjective(emitted)

\* Once a listener is unsubscribed, even by another in the middle of an update
\* with many events, it is called for the event being emitted at most
\* (MatrixClient.unsubscribe).
LateAtMostOnce == \A s \in DOMAIN late : Cardinality(late[s]) <= 1

=============================================================================
