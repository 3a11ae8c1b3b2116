---------------------------- MODULE MatrixClient ----------------------------
(***************************************************************************)
(* The polling loop of the matrix client: MatrixClient.start and poll, the *)
(* MatrixClientStore it updates, the events MatrixClientEventEmitter tells *)
(* the application, and the promise of /sync that MatrixEventService       *)
(* shares among callers.                                                   *)
(*                                                                         *)
(* JavaScript runs a continuation (microtask) before the next timer or     *)
(* network event (macrotask).  MatrixClientStore.update awaits waitReady,  *)
(* so what it does to the state is a continuation of its own: the queue    *)
(* "updates" holds them, and macrotasks wait until it is empty.            *)
(*                                                                         *)
(* The homeserver is a timeline of events.  A sync token is a position in  *)
(* it, 0 standing for the undefined token of a client that never synced.   *)
(* Its answers are taken to be complete: every event since the token, and  *)
(* every room that has one.  A homeserver may shorten a timeline (limited, *)
(* prev_batch) and may leave the rooms of the past out of a first answer;  *)
(* models/api/MatrixSync.ts names prev_batch and nothing reads it.         *)
(*                                                                         *)
(* The messages the store keeps are MatrixRooms's subject: here a room of  *)
(* the store is its status, and the messages of an answer are what the     *)
(* listeners are told.                                                     *)
(***************************************************************************)
EXTENDS Naturals, Sequences, FiniteSets, InOrder

CONSTANTS
    Rooms,
    MaxStarts,   \* calls of start (a bound)
    MaxEvents,   \* length of the homeserver's timeline (a bound)
    MaxErrors,   \* requests to the homeserver that fail (a bound)
    Durable,     \* TRUE: a Storage that outlives the process; FALSE: Storage.ts
    OneSection,  \* TRUE: an answer has a room in one of its sections only
    Patient      \* TRUE: the application starts again only a client that stopped

MAX_POLLING_RETRIES == 3

Starts == 1..MaxStarts
Kinds == {"invited", "joined", "left", "message"}
Statuses == {"unknown", "invited", "joined", "left"}
Event == [room : Rooms, kind : Kinds]

Labels == {"none", "login", "syncing", "timer", "threw", "gaveUp", "stopped"}
Outcomes == {"none", "pending", "resolved", "rejected", "resumed", "refused", "gone"}

ASSUME BoundsAreNatural == MaxStarts \in Nat /\ MaxEvents \in Nat /\ MaxErrors \in Nat
ASSUME SwitchesAreBoolean == 
    /\ Durable \in BOOLEAN /\ OneSection \in BOOLEAN /\ Patient \in BOOLEAN

VARIABLES
    timeline,   \* the homeserver's events
    joining,    \* rooms with a POST /join on its way
    state,      \* MatrixClientStore.state
    storage,    \* what the Storage holds under MATRIX_PRESERVED_STATE
    updates,    \* the updates of the store that wait for their turn
    call,       \* the cached promise of /sync: where it began, what it must answer
    loop,       \* start call -> where its polling loop is
    promise,    \* start call -> what became of the promise start returned
    began,      \* history: the sync token this process found in the storage
    delivered,  \* history: room -> messages this process called the listeners with
    earlier,    \* history: messages of earlier processes, those of an update cut off included
    dropped,    \* history: rooms whose last POST /join by this process failed
    failed,     \* history: failed syncs of this client
    streak,     \* history: failed syncs since the last answered one
    errors

store == <<state, storage, updates>>
told == <<began, delivered, earlier>>
history == <<told, dropped, failed, streak>>
vars == <<timeline, joining, state, storage, updates, call, loop, promise,
          began, delivered, earlier, dropped, failed, streak, errors>>

----------------------------------------------------------------------------
(* The homeserver. *)

\* The events among the first n that change the room's membership, and what
\* the last of them made it.
Changes(room, n) ==
    {k \in 1..n : timeline[k].room = room /\ timeline[k].kind # "message"}

LastEvent(room, n) ==                                            \* mutant
    LET ks == {k \in 1..n : timeline[k].room = room}
    IN  IF ks = {} THEN "unknown" ELSE timeline[CHOOSE k \in ks : \A j \in ks : j <= k].kind

Membership(room, n) ==
    IF Changes(room, n) = {} THEN "unknown"
    ELSE timeline[CHOOSE k \in Changes(room, n) : \A j \in Changes(room, n) : j <= k].kind

\* The room's messages between two tokens, in order.
Written(room, since, until) ==
    {k \in (since + 1)..until : timeline[k].room = room /\ timeline[k].kind = "message"}

Messages(room, since, until) == InOrder(Written(room, since, until))

\* The rooms with an event in a sync answer.
Answered(since, until) ==
    {room \in Rooms : \E k \in (since + 1)..until : timeline[k].room = room}

\* The rooms an answer may list twice: among the invitations, and with the
\* end of the earlier membership among those left.
Relisted(since, until) ==
    {room \in Rooms :
        /\ Membership(room, until) = "invited"
        /\ \E k \in (since + 1)..until :
              timeline[k].room = room /\ timeline[k].kind = "left"}

NoMessages == [room \in Rooms |-> <<>>]

\* MatrixRoom.fromSync: one entry for each room of each section.
FromSync(since, until, twice) ==
    {<<room, Membership(room, until)>> : room \in Answered(since, until)}
        \cup {<<room, "left">> : room \in twice}

MessagesOfJoined(since, until, twice) ==                         \* mutant
    [room \in Rooms |->
        IF Membership(room, until) = "joined" THEN Messages(room, since, until) ELSE <<>>]

\* What the entries carry.  fromInvited makes a room without messages: those
\* of a membership that ended before the invitation are in no other entry,
\* unless the answer lists the room twice.
MessagesFromSync(since, until, twice) ==
    [room \in Rooms |->
        IF Membership(room, until) = "invited" /\ room \notin twice
        THEN <<>> ELSE Messages(room, since, until)]

Present == Len(timeline)

Happens(room, kind) ==
    /\ Present < MaxEvents
    /\ timeline' = Append(timeline, [room |-> room, kind |-> kind])

\* Somebody invites the client, for the first time or again, writes in a room
\* it joined, or removes it.
Invite(room) ==
    /\ Membership(room, Present) \in {"unknown", "left"}
    /\ Happens(room, "invited")
    /\ UNCHANGED <<joining, store, call, loop, promise, history, errors>>

Write(room) ==
    /\ Membership(room, Present) = "joined"
    /\ Happens(room, "message")
    /\ UNCHANGED <<joining, store, call, loop, promise, history, errors>>

Kick(room) ==
    /\ Membership(room, Present) = "joined"
    /\ Happens(room, "left")
    /\ UNCHANGED <<joining, store, call, loop, promise, history, errors>>

----------------------------------------------------------------------------
(* MatrixClientStore. *)

\* A || B on numbers: zero, like undefined, keeps the old value.
Or(new, old) == IF new = 0 THEN old ELSE new

KeepsStatus(room, new, old) ==                                   \* mutant
    IF old # "unknown" THEN old
    ELSE IF <<room, "joined">> \in new THEN "joined"
    ELSE IF <<room, "invited">> \in new THEN "invited"
    ELSE IF <<room, "left">> \in new THEN "left"
    ELSE old

\* mergeRooms: every entry is merged with the old room, so the last counts;
\* fromSync has the joined rooms first and those left last.
MergeRoom(room, new, old) ==
    IF <<room, "left">> \in new THEN "left"
    ELSE IF <<room, "invited">> \in new THEN "invited"
    ELSE IF <<room, "joined">> \in new THEN "joined"
    ELSE old

MergeRooms(old, new) == [room \in Rooms |-> MergeRoom(room, new, old[room])]

\* setState: field by field, partialState.x || this.state.x.
SetState(partial, old) ==
    [isRunning |-> partial.isRunning \/ old.isRunning,
     accessToken |-> partial.accessToken \/ old.accessToken,
     syncToken |-> Or(partial.syncToken, old.syncToken),
     pollingRetries |-> Or(partial.pollingRetries, old.pollingRetries),
     rooms |-> MergeRooms(old.rooms, partial.rooms)]

\* A partial state: FALSE, zero and no rooms stand for what it leaves out.
Nothing ==
    [isRunning |-> FALSE, accessToken |-> FALSE, syncToken |-> 0,
     pollingRetries |-> 0, rooms |-> {}, messages |-> NoMessages]

Fresh ==
    [isRunning |-> FALSE, accessToken |-> FALSE, syncToken |-> 0,
     pollingRetries |-> 0, rooms |-> [room \in Rooms |-> "unknown"]]

\* The preserved fields; prepareData drops the messages.
Preserved(s) ==
    [Nothing EXCEPT
        !.syncToken = s.syncToken,
        !.rooms = {<<room, s.rooms[room]>> : room \in {r \in Rooms : s.rooms[r] # "unknown"}}]

\* joinRooms: a POST for each room the store does not know as joined.
JoinRooms(rooms, s) == {room \in rooms : s.rooms[room] # "joined"}

Join(rooms) ==
    /\ joining' = joining \cup rooms
    /\ dropped' = dropped \ rooms

InvitedRooms == {room \in Rooms : state.rooms[room] = "invited"}

InvitesFirstTime(rooms) ==                                       \* mutant
    {room \in Rooms : <<room, "invited">> \in rooms /\ state.rooms[room] = "unknown"}

\* MatrixClientEventEmitter, emitInvite: the rooms an update invites to.
EmitInvite(rooms) == {room \in Rooms : <<room, "invited">> \in rooms}

\* emitMessage: the listeners get every message of an update.
EmitMessage(messages) == [room \in Rooms |-> delivered[room] \o messages[room]]

\* What MatrixClientStore.update does once waitReady is over, in one go: the
\* state, then the listeners; the application joins the rooms it is invited to.
Update ==
    /\ updates # <<>>
    /\ LET partial == Head(updates) IN
          /\ state' = SetState(partial, state)
          /\ delivered' = EmitMessage(partial.messages)
          /\ Join(JoinRooms(EmitInvite(partial.rooms), state'))
    /\ updates' = Tail(updates)
    /\ UNCHANGED <<timeline, storage, call, loop, promise, began, earlier, failed,
                   streak, errors>>

\* updateStorage does not await storage.set, which takes effect some time
\* after the update of a sync answer (the one that sets isRunning), or never.
Persist ==
    /\ state.isRunning
    /\ storage' = Preserved(state)
    /\ UNCHANGED <<timeline, joining, state, updates, call, loop, promise, history, errors>>

AwaitsStorage == \A s \in Starts : loop[s] \notin {"threw", "gaveUp"} \* mutant

\* Time for the next macrotask; a promise of poll or of onSyncSuccess that was
\* rejected ends the process (an unhandled rejection, in Node 15).
Idle == updates = <<>> /\ \A s \in Starts : loop[s] \notin {"threw", "gaveUp"}

----------------------------------------------------------------------------
(* MatrixClient. *)

\* The sync of a loop: withCache makes it join the call that is under way.
\* The homeserver answers with every event it has when the call arrives.
Sync(s, token) ==
    /\ loop' = [loop EXCEPT ![s] = "syncing"]
    /\ call' = IF call = <<>> THEN <<[since |-> token, atLeast |-> Present]>> ELSE call

Syncing == {s \in Starts : loop[s] = "syncing"}

\* The application starts the client, and again when start's promise was
\* rejected or the process is a new one.
Start(s) ==
    /\ Idle /\ loop[s] = "none"
    /\ \A q \in 1..(s - 1) :
          loop[q] = "stopped" \/ (promise[q] \in {"rejected", "refused"} /\ ~Patient)
    /\ loop' = [loop EXCEPT ![s] = "login"]
    /\ promise' = [promise EXCEPT ![s] = "pending"]
    /\ UNCHANGED <<timeline, joining, store, call, history, errors>>

\* The login answers: its update holds no rooms and nobody waits for it but
\* this loop, which syncs at once.
LoggedIn(s) ==
    /\ Idle /\ loop[s] = "login"
    /\ state' = SetState([Nothing EXCEPT !.accessToken = TRUE], state)
    /\ Sync(s, state.syncToken)
    /\ UNCHANGED <<timeline, joining, storage, updates, promise, history, errors>>

\* MatrixHttpClient.send throws, with the error body of an answer or (a
\* TypeError) without: its callers see a rejected promise either way.
RequestFails ==
    /\ errors < MaxErrors
    /\ errors' = errors + 1

LoginFails(s) ==
    /\ Idle /\ loop[s] = "login" /\ RequestFails
    /\ loop' = [loop EXCEPT ![s] = "stopped"]
    /\ promise' = [promise EXCEPT ![s] = "rejected"]
    /\ UNCHANGED <<timeline, joining, store, call, history>>

\* Every loop that awaits the call does the same: start's promise is settled
\* unless isRunning, then the store is updated, without awaiting it.
Settle(outcome) ==
    promise' = [s \in Starts |->
        IF s \in Syncing /\ promise[s] = "pending" /\ ~state.isRunning
        THEN outcome ELSE promise[s]]

\* One update of the store for each loop that awaits the call.
UpdateForEach(partial) == updates' = [k \in 1..Cardinality(Syncing) |-> partial]

\* The update of onSyncSuccess.
Synced(since, until, twice) ==
    [Nothing EXCEPT !.isRunning = TRUE, !.syncToken = until,
                    !.rooms = FromSync(since, until, twice),
                    !.messages = MessagesFromSync(since, until, twice)]

CachedForEver(until, twice) ==                                   \* mutant
    /\ call # <<>> /\ Idle /\ Syncing # {}
    /\ until = call[1].atLeast /\ twice = {}
    /\ UpdateForEach(Synced(call[1].since, until, twice))
    /\ Settle("resolved")
    /\ loop' = [s \in Starts |-> IF s \in Syncing THEN "timer" ELSE loop[s]]
    /\ streak' = 0
    /\ UNCHANGED <<timeline, joining, state, storage, call, told, dropped, failed, errors>>

\* onSyncSuccess, with everything up to an event the homeserver had.
SyncAnswers(until, twice) ==
    /\ call # <<>> /\ Idle
    /\ until \in call[1].atLeast..Present
    /\ twice \subseteq (IF OneSection THEN {} ELSE Relisted(call[1].since, until))
    /\ UpdateForEach(Synced(call[1].since, until, twice))
    /\ Settle("resolved")
    /\ loop' = [s \in Starts |-> IF s \in Syncing THEN "timer" ELSE loop[s]]
    /\ call' = <<>>
    /\ streak' = 0
    /\ UNCHANGED <<timeline, joining, state, storage, told, dropped, failed, errors>>

\* onSyncSuccess, with an answer that has no rooms or leaves out a section:
\* fromSync throws a TypeError once start's promise is resolved, and nobody
\* awaits the promise of onSyncSuccess.
SyncThrows ==
    /\ call # <<>> /\ Idle /\ RequestFails
    /\ Settle("resolved")
    /\ loop' = [s \in Starts |-> IF s \in Syncing THEN "threw" ELSE loop[s]]
    /\ call' = <<>>
    /\ UNCHANGED <<timeline, joining, store, history>>

RetriesAfterUpdate(retries) == retries + 1 < MAX_POLLING_RETRIES \* mutant

\* The test of poll: pollingRetries as it was before the update of onSyncError,
\* which has not run yet.
ContinueSyncing(retries) == retries < MAX_POLLING_RETRIES

\* onSyncError; a loop that does not continue rejects the promise of poll, not
\* the one of start.
SyncFails ==
    /\ call # <<>> /\ Idle /\ RequestFails
    /\ UpdateForEach([Nothing EXCEPT !.pollingRetries = state.pollingRetries + 1])
    /\ Settle("rejected")
    /\ loop' = [s \in Starts |->
          IF s \notin Syncing THEN loop[s]
          ELSE IF ContinueSyncing(state.pollingRetries) THEN "timer" ELSE "gaveUp"]
    /\ call' = <<>>
    /\ failed' = failed + 1
    /\ streak' = streak + 1
    /\ UNCHANGED <<timeline, joining, state, storage, told, dropped>>

\* setTimeout(pollSync, 0).
Tick(s) ==
    /\ Idle /\ loop[s] = "timer"
    /\ Sync(s, state.syncToken)
    /\ UNCHANGED <<timeline, joining, store, promise, history, errors>>

----------------------------------------------------------------------------
(* The application. *)

\* Once start is settled, resolved or not, it joins the invitedRooms: its
\* continuation may run before the update that onSyncSuccess made after
\* resolving.  joinRooms needs the access token of a login.
Resume(s) ==
    /\ promise[s] \in {"resolved", "rejected"}
    /\ promise' = [promise EXCEPT ![s] =
                      IF @ = "resolved" THEN "resumed" ELSE "refused"]
    /\ Join(IF state.accessToken THEN JoinRooms(InvitedRooms, state) ELSE {})
    /\ UNCHANGED <<timeline, store, call, loop, told, failed, streak, errors>>

\* POST /createRoom, by createTrustedPrivateRoom: a room it is in uninvited.
Create(room) ==
    /\ state.accessToken
    /\ Membership(room, Present) = "unknown"
    /\ Happens(room, "joined")
    /\ UNCHANGED <<joining, store, call, loop, promise, history, errors>>

\* POST /join arrives; joining a room twice, or one it was removed from, is
\* an answer joinRooms ignores.
Joined(room) ==
    /\ room \in joining
    /\ joining' = joining \ {room}
    /\ \/ Membership(room, Present) = "invited" /\ Happens(room, "joined")
       \/ Membership(room, Present) # "invited" /\ UNCHANGED timeline
    /\ UNCHANGED <<store, call, loop, promise, history, errors>>

\* joinRooms warns of a POST that failed, and forgets it.
JoinFails(room) ==
    /\ room \in joining /\ RequestFails
    /\ joining' = joining \ {room}
    /\ dropped' = dropped \cup {room}
    /\ UNCHANGED <<timeline, store, call, loop, promise, told, failed, streak>>

Told(messages) == UNION {{messages[room][i] : i \in DOMAIN messages[room]} : room \in Rooms}

Kept(stored) == IF Durable THEN stored ELSE Nothing

\* The next process makes a new client, initFromStorage: its listeners and
\* its history begin anew.
NewProcess(stored) ==
    /\ storage' = stored
    /\ state' = SetState(stored, Fresh)
    /\ began' = stored.syncToken
    /\ delivered' = NoMessages
    /\ updates' = <<>> /\ call' = <<>> /\ joining' = {} /\ dropped' = {}
    /\ loop' = [s \in Starts |-> IF loop[s] = "none" THEN "none" ELSE "stopped"]
    /\ promise' = [s \in Starts |-> IF loop[s] = "none" THEN "none" ELSE "gone"]
    /\ failed' = 0 /\ streak' = 0
    /\ UNCHANGED <<timeline, errors>>

\* The process is killed, or ends by itself when a loop threw or gave up.
Restart ==
    /\ \E s \in Starts : loop[s] \notin {"none", "stopped"}
    /\ NewProcess(Kept(storage))
    /\ earlier' = earlier \cup Told(delivered)

\* It ends in the middle of an update, killed or by a listener that throws:
\* the storage may already have the sync token of messages that some
\* listeners, or all of them, were not told.
CutOff ==
    /\ updates # <<>>
    /\ LET partial == Head(updates) IN
          /\ \/ NewProcess(Kept(storage))
             \/ partial.isRunning /\ NewProcess(Kept(Preserved(SetState(partial, state))))
          /\ earlier' = earlier \cup Told(delivered) \cup Told(partial.messages)

----------------------------------------------------------------------------
Init ==
    /\ timeline = <<>> /\ joining = {} /\ dropped = {}
    /\ state = Fresh /\ storage = Nothing /\ updates = <<>> /\ call = <<>>
    /\ loop = [s \in Starts |-> "none"] /\ promise = [s \in Starts |-> "none"]
    /\ began = 0 /\ delivered = NoMessages /\ earlier = {}
    /\ failed = 0 /\ streak = 0 /\ errors = 0

Homeserver ==
    \/ \E room \in Rooms : Invite(room) \/ Write(room) \/ Kick(room)
    \/ \E until \in 0..MaxEvents, twice \in SUBSET Rooms : SyncAnswers(until, twice)
    \/ SyncThrows \/ SyncFails

Client ==
    \/ Update \/ Persist
    \/ \E s \in Starts : LoggedIn(s) \/ LoginFails(s) \/ Tick(s)

Application ==
    \/ \E s \in Starts : Start(s) \/ Resume(s)
    \/ \E room \in Rooms : Create(room) \/ Joined(room) \/ JoinFails(room)
    \/ Restart \/ CutOff

Next == Homeserver \/ Client \/ Application

Spec == Init /\ [][Next]_vars

\* The sync under way is answered or fails, or the process ends.
SyncEnds == Idle /\ call # <<>> /\ call' = <<>>

\* The event loop runs every continuation and timer, and a sync is answered
\* or fails: the homeserver keeps it 30 seconds at most.  The client itself
\* sets no timeout, so that this last one rests on the homeserver and on TCP.
Fairness ==
    /\ WF_vars(Update)
    /\ \A s \in Starts : WF_vars(Tick(s))
    /\ WF_call(SyncEnds)

FairSpec == Spec /\ Fairness
=============================================================================
