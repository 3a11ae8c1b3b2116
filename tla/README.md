# Verification of beacon-notification-backend

TLA+ models of the Beacon notification backend, the TLC configurations that
check them on small instances, and TLAPS proofs about them. Paths below are
relative to the repository; `src/` without more is the TypeScript source
directory of the repository.

## 1. The system

The repository is a NestJS service over PostgreSQL, the migrations and
deployment files of its database and pods, and a Matrix client library it
carries for a relay that is switched off (`src/matrix/matrix.service.ts` is
commented out).

| component | source | state | operations |
|---|---|---|---|
| HTTP handlers | `app.controller.ts` | none of its own; local variables across awaits | `GET /challenge`, `POST /register`, `/revoke`, `/send`, `/retrieve-accounts` |
| account service | `services/account.service.ts` | table `account` | `create` (save, or find what is there), `register`, look-ups, `sendNotification` |
| challenge service | `services/challenge.service.ts` | table `challenge` | `create`, `validate`, `remove` |
| account table | `entities/account.entity.ts` | unique (public key, backend URL), unique tokens | constraints |
| validation pipe, DTOs | `main.ts`, `dto/` | - | refuses malformed bodies; installed by `main.ts`, not by the e2e tests |
| currency helpers | `utils/CurrencyHelper.ts`, `utils/crypto.ts`, `utils/tezos`, `utils/substrate` | table of supported protocols | `getCurrencyHelper`, `checkSignature`, `toPlainPubkey`, `prefixPublicKey` |
| token generation | `utils/generate-uuid.ts` | - | fresh access and management tokens |
| keypair service | `services/keypair.service.ts` | - | a key derived from the environment |
| migrations | `src/migrations/`, `ormconfig.js` | the schema, `custom_migration_table` | up, down |
| deployment | `Dockerfile`, `k8s/`, `.gitlab-ci.yml` | pods, the provisioned database | one replica, rolling update without unavailability: two pods may overlap; an init container runs the migrations before the pod serves |
| matrix polling and store | `matrix-client/MatrixClient.ts`, `MatrixClientStore.ts`, `services/MatrixEventService.ts` | `state`, the shared promise of `/sync` | `start`, `poll`, `update`, `joinRooms`, `createTrustedPrivateRoom` |
| matrix events | `MatrixClientEventEmitter.ts`, `MatrixClient.ts` | listeners by type of event | `subscribe`, `unsubscribe`, `onStateChanged`, `emit` |
| matrix sending | `MatrixClient.ts`, `MatrixEventService.ts` | counter `txnNo` | `sendTextMessage`, `createTxnId`, `sendEvent` |
| matrix rooms | `models/MatrixRoom.ts`, `MatrixMessage.ts`, `utils/events.ts` | a room record | `fromSync`, `merge` |
| matrix room service | `services/MatrixRoomService.ts` | - | create, invite, join: single posts |
| storage | `storage/Storage.ts` | a Map in the process | get, set |

How they interact. A wallet gets a challenge, signs it and registers a public
key with the URL of its own backend; it gets an access token for dapps and a
management token for itself. A dapp presents the access token to `/send`, which
posts to the wallet's backend. The management token revokes, or lists the
device's accounts. All handlers share the two tables, without transactions:
each `await` is one statement, and between two awaits any other request, in
this pod or in the other one of a rolling update, may run. The schema of those
tables changes under a pod that serves, when the init container of the next one
migrates. The matrix client shares its store between its polling loops, its
sends and the application's listeners, on one event loop;
`MatrixClientStore.update` awaits before it changes anything, so every value
read before an update may be stale after it.

What is hard here: statements of concurrent requests interleave; the catch of
`AccountService.create` takes every exception for a conflict; a pod may die or
an answer be lost between save and challenge removal; the client retries; a key
has several spellings, which different look-ups compare differently. Migrations
meet rows, old pods meet new schemas, and an init container decides from a list
of migrations it read earlier. In the matrix client: loops that overlap, a
promise they share, updates applied after the values they were computed from,
merges with `||`, restarts, listeners that change the subscriptions while they
are being called. `PROJECT.json` lists these hazards at their lines, each with
the properties that watch it.

## 2. Modules

| module | what it is | lines of code it stands for |
|---|---|---|
| `NotificationBackend` | the handlers, one action per await | `app.controller.ts`, `account.service.ts`, `challenge.service.ts`, the constraints |
| `CurrencyHelpers` | how each helper reads a key in each of its forms | `TezosCurrencyHelper.ts`, `CurrencyHelper.ts`, `crypto.ts` |
| `BackendProperties` | type invariant and promises of the handlers | |
| `BackendInvariant` | the inductive invariant `IInv` | |
| `BackendProofs` | proofs of the promises | |
| `AccountRegistry` | the abstract specification: a registry with atomic operations | |
| `BackendRefinement` | the refinement mapping; `ImplementsRegistry` | |
| `BackendRefinementProofs` | proof of it | |
| `MCBackend` | workloads for TLC | |
| `Migrations`, `MCMigrations` | the migrations as statements, rollouts, reverts, the pod that serves meanwhile | `src/migrations`, `ormconfig.js`, the entities, `deployment.yaml`, the provisioning jobs of `.gitlab-ci.yml` |
| `MigrationsProofs` | proofs of its safety promises | |
| `MatrixClient` | polling loops, store, storage, joins | `MatrixClient.ts`, `MatrixClientStore.ts`, `MatrixEventService.sync` |
| `MatrixClientProperties`, `MCMatrixClient` | its promises, small instances | |
| `MatrixClientProofs` | proofs of its safety promises | |
| `MatrixEvents`, `MCMatrixEvents` | subscriptions and the emission of events, one listener call at a time | `MatrixClientEventEmitter.ts`, `MatrixClientStore.update`, `MatrixClient.subscribe`, `unsubscribe` |
| `MatrixEventsProofs` | proofs of its promises | |
| `MatrixSend`, `MCMatrixSend` | transaction ids and the puts | `sendTextMessage`, `createTxnId`, `sendEvent` |
| `MatrixSendProofs` | proofs of its promises | |
| `MatrixRooms`, `MCMatrixRooms` | room records from sync batches | `MatrixRoom.ts`, `MatrixMessage.ts`, `events.ts` |
| `MatrixRoomsProofs` | proofs of its promises | |
| `InOrder` | sequences in the order of their places: filters, and lists in order of time | `Array.prototype.filter` |
| `InOrderProofs` | lemmas on numbers, sets and sequences that the proofs share | |

Operators whose comment ends in `mutant` are faulty variants of the definition
that follows them, kept to show that a property notices the fault; nothing else
uses them.

### NotificationBackend

`pc[r]` is the await at which the handler of request `r` is:

| label | the handler awaits, or is about to run |
|---|---|
| `received` | its first statement (challenge look-up, or find) |
| `validated` | after `ChallengeService.validate`: signature check and save (register), signature check and remove (retrieve) |
| `refused` | the save threw: `findOne` in the catch of `create` |
| `saved` | `challengeService.remove`, then the answer |
| `found` | a row was read: delete (revoke), checks and post (send) |
| `posting` | `axios.post` to the wallet's backend |
| `proved` | `getAllByDeviceIdAndAddress` |
| `answering` | the answer is on its way; then `done`, or `lost` |

`challenges` and `accounts` are the tables; `found[r]` is the handler's local
variable (`accounts[0]`, `account`, `savedAccount`); `reply[r]` status class
and rows. A register answers with the tokens of `found[r]`; `reply[r].rows`
holds that row. `issued`, `posted` and `prior` are history variables: what
challenges ever existed, what was posted, and which answers a client had before
it sent `r`. Clients present only what the backend could have given them, or
something unknown (`None`); a token that is not even a uuid makes PostgreSQL
throw, hence the two outcomes of `Refuse`.

A key of a body is a spelling: `Owner` says whose key it is, `Form` how it is
written. Rows are stored, and revokes and token look-ups compared, by the
spelling; `retrieve-accounts` goes by the address, which all spellings of a key
share (`OnDevice`).

Data kept abstract: a challenge is its (id, timestamp) pair; a signature is
genuine or not (`genuine`), which for send stands for the recipient and
timestamp checks; an address is a function of protocol and owner that is
injective; a generated id or token is named after the request that drew it
(GUIDs do not collide); names, titles, payloads, HTTP headers and logging are
left out.

Failures: `Fault` is a statement that throws, before or after it took effect
(the connection may break after the commit); `Crash` kills a pod with any set of
requests it serves, so that it also stands for one of two overlapping pods;
`LoseAnswer` is a connection that breaks after the handler is done.
`ValidationPipe` says whether the application runs as `main.ts` starts it, or
as the e2e tests create it.

### CurrencyHelpers

A key is one of a few forms: 64 hexadecimal digits, more of them, a base58 form
of each curve, one with a wrong checksum, something else. `toPlainPubkey` maps
forms to forms; `checkSignature` applies it twice where `retrieve-accounts`
applies it once. The message that `checkSignature` verifies is rebuilt with
`prefixPublicKey(key)`, which spoils a base58 key: `register` accepts one (of tz1)
only from an owner who signs the message as it is rebuilt, and that is
what `genuine` says of the signature of a register. tz2 and tz3 keys are verified by
neither (they decode to 33 bytes). A checksum that is wrong makes bs58check
throw: caught at register, answered with a 500 by `retrieve-accounts`, which
decodes outside its try (`Undecodable`).

### Migrations

A statement of a migration is a record (create or drop a table, add or drop a
column or a constraint), `Run` applies a sequence of them to a database
with rows, and `Upgrade` those of the migrations that were not executed: `Admissible` is what PostgreSQL asks of a statement, `ok` whether all
were admitted. `Up` and `Down` are the four migrations, statement by statement,
`Entities` what the entity decorators say. A rollout creates a pod
(`phase`): its init container reads the executed migrations
(`ReadApplied`), runs the others in one transaction (`RunMigrations`), the
backend starts. The pod before it serves until the new one does (`Stop`), and
stores and revokes registrations with the columns its own image knows
(`NewRow`). A pod may be lost at any point (`Kill`), an older image may be rolled
out, and an operator may revert the last migration once no pod needs it
(`Revert`).

The generated ids and tokens of the migrations default to `uuid_generate_v4()`, which
PostgreSQL has only once the extension uuid-ossp is in the database
(`Callable`). Nothing of a rollout creates it before it is needed: the
connection of `migration:run` creates pgcrypto (`ormconfig.js:12`), that of the
backend, which creates uuid-ossp, opens after the init container is done. The
jobs of the pipeline that provision a database, started by hand (`Provision`),
are to do it: that of production does, that of development does not
(`HasExtension`, section 4).

### MatrixClient

A start call `s` has a loop (`loop[s]`) and the promise `start` returned
(`promise[s]`). `updates` is the queue of continuations of
`MatrixClientStore.update`: `update` awaits `waitReady`, so its effect is a
microtask of its own; `Idle` says that the next macrotask (timer, answer) may
run only when no microtask is left. `call` is the entry `sync` of
`MatrixEventService.cachedPromises`. `Update` does in one step what `update`
does between its await and its end, state and listeners, when nothing stops
it; `CutOff` is the process that ends in the middle of it, killed or by a
listener that throws, with the storage written or not and any number of
listeners told. `storage.set` is not awaited: what it writes is there some time
after the update, or never (`Persist`). `SyncFails` reads
`pollingRetries` before its own update, as `poll` does; a loop that gives up
rejects a promise that nothing catches, which ends the process (Node 15), hence
`Idle` wants no loop at `gaveUp`. `SyncThrows` is an answer without rooms or without one
of their sections, which ends the process the same way. `Restart` is the end of
a process anywhere else; `NewProcess` is the one after it, initialised from the
storage.

`FromSync` gives an entry for each room of each section (joined, invited, left),
and the last entry counts in the store. An answer shows a room in the
section of its last membership, and where the constant `OneSection` is FALSE it may show a room that was
left and invited again among those left too. `MessagesFromSync` is what
the entries carry: `fromInvited` makes a room without messages, so that those
of a membership that ended before the invitation are gone, unless the room
is also among those left. `began` is the token the process found in the storage,
`delivered` what it told its listeners, `earlier` what processes before it told
or were telling.

`Resume` is the application once `start` is settled: it joins the invited rooms
and starts to listen, whether the promise was resolved or rejected.
`joining` are the joins under way, `dropped` those that failed and were only
logged. `Create` makes a room of the client's own.

`Durable` says whether the storage outlives the process (what
`MatrixClientStore` expects of it) or not (`storage/Storage.ts`). `Patient` says
whether the application waits for the process to end before it starts again, or
calls `start` once more when the promise was rejected. The homeserver is
external: a timeline of invitations, joins, messages and removals, a sync token
being a position in it. A room may be left and its invitation repeated; a room
of the store is its status here, its members and messages are in `MatrixRooms`.

### MatrixEvents

`Update` stores an answer and lists the events to emit; `Emit` takes the next one
and copies the listeners of its type, as Node's `EventEmitter` does; `Call` calls
the next listener of the copy, which may subscribe or unsubscribe anyone.
`Application` does so between updates. A listener that throws ends the process,
as nothing awaits the update: `Restart` stands for it and for every other end.
The storage is one that outlives the process and takes effect at once, and one
loop polls: with `storage/Storage.ts` the next process would begin at the
beginning and emit everything again, to listeners that are new as well.
`steady`, `late`, `heard`, `emitted` and `since` are history.

### MatrixSend

`Number` is `sendTextMessage` up to the await in `createTxnId`: time and counter
are read. `Put` is what follows the await, in the order in which the updates were
queued (`queue`): the counter is raised, the put leaves. The homeserver answers a
second put with the same room and transaction id like the first and adds nothing.

### MatrixRooms

`FromSync` and `Merge` are `fromJoined`, `fromInvited`, `fromLeft` and `merge`
over abstract events (type, sender, id). A batch has one or more new events, of any
section; it may begin with state that repeats earlier events, and have an event
of its own twice (`MaxRepeats` of each): the homeserver may cut the room's events
anywhere. `GetUniqueEvents`, `RemoveDuplicates` and the
filters are sets of places with `Pick`, which takes what a sequence has there.

## 3. What is checked

Bounds: constants named `Max...`, and the small sets of each cfg. Requests,
challenges, rooms, messages, users and listeners are symmetric in the runs
without liveness.

| run | instance | what it shows |
|---|---|---|
| `backend` | 3 requests, 1 challenge, 1 crash, no pipe; two wallets, two devices, two spellings of a key, all five operations | `RegistrationDurable`, `TokensStable`, `FailsOnlyByRace`, `ReplayRefused`, `RevocationFinal`, `RetrievesOnlyOwn`, `TokenRetrieves`, `OnlyRevokeRemoves`, `ImplementsRegistry` |
| `served` | 2 requests, 2 challenges, 1 crash, 1 fault, with the pipe; bad signatures, unknown protocols, keys of every form; fairness | `TypeOK`, `AccountsAuthorised`, `RegistrationDurable`, `TokensStable`, `RetrievesAll`, `Served` |
| `matrix_poll` | 2 rooms, 4 events, 2 processes, 2 errors, a storage that outlives them, one section for a room, patient application | `TypeOK`, `ExactlyOnce`, `NoneSkipped`, `StoreAgrees`, `NoInvitationForgotten` |
| `matrix_overlap` | 1 room, 3 events, 2 starts, 4 errors, a storage that outlives the process, rooms listed twice, impatient application, fairness | `RetriesBeforeGivingUp`, `Arrives` |
| `matrix_send` | 3 messages, 2 rooms, 1 restart, 1 error | `TypeOK`, `LostOnlyByOverlap`, `CounterAhead` |
| `matrix_rooms` | 2 users, 3 events in batches of 1 to 3, 1 repeat of earlier state and 1 of its own in a batch, 1 restart | `TypeOK`, `BatchingIrrelevant`, `RoomExact` |
| `migrations` | images with 1, 2 or 4 migrations, 3 rollouts, 2 registrations at two backends, 1 lost pod, 2 reverts, a database that is provisioned (production) at any time or never, fairness | `TypeOK`, `SchemaOfApplied`, `EntityFits`, `RefusedOnlyForPeer`, `UpgradeKeepsRegistrations`, `RolloutServes` |
| `events` | 2 listeners, 2 rooms, 5 kinds of answer, 2 answers, 5 changes of the subscriptions, 1 restart | `TypeOK`, `SteadyHearAll`, `InvitesFirst`, `SeenInStore`, `EmittedOnce`, `LateAtMostOnce` |

Why the bounds are enough. Each backend property speaks of at most two requests
besides the one that sets the scene (a register that made the row, a revoke that
races it), and three are enough for one to run between any two statements of
another; one crash and one fault fall at every place where one can; two
challenges tell a reused from a fresh one. The safety properties are proved for
all bounds anyway (section 5). For polling, four failures are what it takes to
give up, and the first of them rejects `start`, which gives the second loop; two
starts give overlapping loops or a restarted process; four events are enough
for a room made by the client, a message, a removal and an invitation, in one
answer or in several, or for an invitation repeated beside events of another
room; with overlapping loops three leave the room made, left and invited again, or
with two messages. That loops which overlap skip nothing and keep the store's status
right, with rooms listed twice, is proved (`Complete`, `Agreement`), the runs
have one loop for that. A storage that is never written, which both runs include, is what
`storage/Storage.ts` is to the next process. For
sending, two messages collide and a third shows that nothing else does. For
rooms, three events with repeats give batches of several events, some twice, that
overlap, change section and restart. For migrations, image 1 to 2 is an upgrade that fills a column of rows
that exist, 1 or 2 to 4 is the one that a row stops, and the way back and forth
again takes three rollouts and two reverts; two backends with one device are the
rows about which the constraints of different schemas disagree. For events, the
answers have two messages in one room, messages before an invitation of the same
answer, two invitations, and messages of a room that was left; two listeners are
enough for one to remove the other.

`CHECK_DEADLOCK FALSE` stands in the matrix cfgs, where the client may give up and
the bounded homeserver runs out of events, and in that of the migrations, where
rollouts run out. The backend runs check deadlock; `Exhausted` is the only idling
step, when every request of the bound is over.

## 4. What the code does otherwise than it says

Four runs expect a violation; each refutes one statement of the repository.

- `token_retrieval`: with the global pipe, `RetrieveAccountsDTO.challenge`
  (`@IsNotEmpty`, `dto/RetrieveAccounts.dto.ts:11`) makes a retrieval by
  management token a 400; the e2e test expects 200 because it starts without
  the pipe. The branch at `app.controller.ts:222` cannot be reached in
  production.
- `second_device`: 'Account registered!' (`app.controller.ts:147`), but the
  device and protocol of a second register for the same key and backend are
  stored nowhere.
- `matrix_streak`: `pollingRetries: 0` (`MatrixClient.ts:125`) never takes effect,
  because `setState` merges with `||`; the fourth failure ever, not the fourth in a row,
  ends polling.
- `matrix_same_id`: `createTxnId` reads the counter before an await and raises
  it after: two messages of one millisecond share an id and the second is lost
  although its promise resolves.

Other behaviour a reader may not expect, visible in the models without a run of
its own:

- The notification goes to the address of the access token's row, never to
  `recipient` (`SendPost`, `account.service.ts:127`).
- `register` takes a base58 tz1 key only from an owner who signs a message with
  the key spoilt by `prefixPublicKey` (section 2, `CurrencyHelpers`), while
  `retrieve-accounts` takes it as it is written.
- `removePublic` adds a NOT NULL column without a default: on a table with a row
  it is refused, every time. The rollout does not progress, the old pod keeps
  serving and no registration is lost (`UpgradeKeepsRegistrations`; the second
  disjunct of `RolloutServes`). On an empty table it succeeds, and from then on
  the old pod's inserts, which leave `deviceId` out, are refused.
- The job that provisions the database of development asks for an extension
  `uuid_ossp` (`.gitlab-ci.yml:197`), which does not exist, in the database
  `postgres`, and ignores the error; that of production creates `uuid-ossp` in the
  service's database (`:220`). The first migration needs it for its defaults and
  is refused each time the init container runs it, so that on a database nobody
  helped otherwise no rollout serves: `RolloutServes` holds with
  `Environment = "production"` (the run `migrations`) and is false with
  `"development"`.
- `start` rejects at the first failed sync though its loop goes on, so an
  application that starts again has two loops which merge each answer twice
  (`MatrixRoom.merge` keeps duplicate messages). A second `start` whose answer
  comes when `isRunning` is set is never settled.
- `start` resolves before `invitedRooms` lists what was received; the INVITE event
  covers the gap (`NoInvitationForgotten`).
- A listener that throws, or a process that dies, in the middle of an answer
  loses the rest of its events over a storage that has its token already
  (`earlier` in `NoneSkipped`; `EmittedOnce` is the other side of this). Nor do
  invitations come back: the next process reads them from its stored rooms only.
- With `Storage.ts`, a new process tells its listeners all old messages:
  `ExactlyOnce` is a promise of each process.
- What a room said before the client left it and was invited again, within one
  answer, is never delivered (`InvitedAgain` in `ExactlyOnce` and `NoneSkipped`).
- A room that an answer lists among the invitations and among those left is "left"
  in the store: `invitedRooms` does not show it, only the INVITE event does
  (`Agrees`).
- An answer without rooms, or without one of the three sections, is a TypeError
  that ends the process (`SyncThrows`).

## 5. What is proved

Seven modules hold theorems about a specification, and `InOrderProofs` the lemmas
on sequences they share; each theorem holds for every value of the constants.

| module | theorem | states |
|---|---|---|
| `BackendProofs` | `Invariance` | `Spec => []IInv` |
| | `TypeCorrect`, `Authorisation`, `Durability`, `Stability`, `FailureHasCause`, `NoReplay`, `Revocation`, `Retrieval`, `CompleteRetrieval` | `[]` of `TypeOK`, `AccountsAuthorised`, `RegistrationDurable`, `TokensStable`, `FailsOnlyByRace`, `ReplayRefused`, `RevocationFinal`, `RetrievesOnlyOwn`, `RetrievesAll` |
| | `TokenRetrieval` | `[]TokenRetrieves`, when `~ValidationPipe` |
| | `Removal` | `OnlyRevokeRemoves` |
| `BackendRefinementProofs` | `Refinement` | `Spec => ImplementsRegistry` |
| `MatrixClientProofs` | `Invariance` | `Spec => []IInv` |
| | `Types`, `Agreement`, `Retries`, `Invitations`, `Complete` | `[]` of `TypeOK`, `StoreAgrees`, `RetriesBeforeGivingUp`, `NoInvitationForgotten`, `NoneSkipped` |
| | `Deliveries` | `[]ExactlyOnce`, when `Patient` |
| `MatrixEventsProofs` | `Invariance` | `Spec => []IInv` |
| | `LateOnce` | `[]LateAtMostOnce` |
| | `AllInvariant` | `Spec => []AllInv` |
| | `TypeCorrect`, `NothingTwice`, `InvitationsLead`, `StoreFirst`, `SteadyListeners` | `[]` of `TypeOK`, `EmittedOnce`, `InvitesFirst`, `SeenInStore`, `SteadyHearAll` |
| `MatrixRoomsProofs` | `Invariance` | `Spec => []IInv` |
| | `TypeCorrect`, `Batching`, `Exact` | `[]` of `TypeOK`, `BatchingIrrelevant`, `RoomExact` |
| `MatrixSendProofs` | `Invariance` | `Spec => []IInv` |
| | `TypeCorrect`, `Ahead`, `LossHasCause` | `[]` of `TypeOK`, `CounterAhead`, `LostOnlyByOverlap` |
| `MigrationsProofs` | `Invariance` | `Spec => []IInv` |
| | `TypeCorrect`, `SchemaKnown`, `EntitiesFit`, `OnlyForPeer` | `[]` of `TypeOK`, `SchemaOfApplied`, `EntityFits`, `RefusedOnlyForPeer` |
| | `RegistrationsKept` | `UpgradeKeepsRegistrations` |

Assumptions are named in the modules that declare the constants, and TLC
evaluates them. In `NotificationBackend`: templates are bodies, supported
protocols are protocols, every key has a form, the switch is a
Boolean, the bounds are naturals, `None` is no row, challenge, token or body.
In the matrix modules: bounds are naturals, there is a time, switches are
Booleans. In `Migrations`: bounds are naturals, an image carries one to four
migrations. Nothing is assumed of the number of requests, rooms or messages,
which may be infinite. `TokenRetrieval` has the hypothesis that the pipe is
absent, without which the run `token_retrieval` refutes it. `Deliveries` has the
hypothesis that the application starts one loop at a time: two loops over one
client deliver an answer twice. The run `matrix_poll` sets it. The storage is any:
one that forgets, one that outlives the process, one that never writes.

**Backend.** None of the promises is inductive. `IInv` adds what a handler has
established at each await (`Control`: a request at `saved` had its challenge
issued, its signature checked, its protocol supported), where rows come from
(`Provenance`: every row in the table or in a handler's variable is the row a
register request built after its checks, so a row determines its tokens and
ids), the unique constraint (`UniquePeer`), what becomes of a row that a register
holds (`Kept`), why a conflict may have vanished (`Cause`), and what is over for
good (`Spent`: a challenge that proved something is out of the table and
whoever came later with it is stuck before its proof; `Gone`: a revoked row
never comes back). The proof goes by lemmas about `Next` used by all parts:
`NextTyped`, `NextControlled`, `Stable` (what no step changes),
`AccountsChange` (a step inserts one row that conflicts with none, deletes the
row a revoke holds, or leaves the table alone), `NextMoves` and `NextAnswers`
(which action brings a request where). Then each conjunct has its own lemma.

**Refinement.** The registry's rows are the account table, what a request holds
is `found`, what it shows is the rows of its reply. An insertion is `Enrol`
(the tokens are new because every other row is that of a request past its save),
a look-up is `Hold`, a delete by id is `Withdraw` (the id determines the row, by
`Provenance`), a post is `Notify`, an answer with rows is `Show`; every other
step, faults and crashes included, changes nothing the registry sees. The
invariant that a reply without status has no rows (`Silent`) is needed besides
`IInv`.

**Polling.** `StoreAgrees` says what the store shows; to keep it, one must
know what the pending updates will make of it. `Waiting`: the continuations in
the queue are copies of one update (loops that shared a call), which holds the
membership of the rooms that changed between some token not after the store's
and its own, or an error; `Called`: a call under way began at the token the
store has; `Stored`: what a restart reads is faithful to the homeserver, at a token
the store once had. Entries of one room are merged one by one, so `Spoken` says
what entries there can be: the membership, or "left" beside an invitation. That an
answer applied twice, or after an equal one, changes nothing is
`Membership` of a room without events staying the same. `Membership` picks the
last event of a set of numbers, which needs a greatest element (lemma
`Greatest`, by well-foundedness of strict inclusion). `Counted` bounds the
retries in state and queue by the failures of the process. `Remembers` is the
promise about invitations said of the store's status, and `Authorized` (a loop
that polls has an access token, a promise is settled by such a loop or a failed
login) is why `Resume` joins what it finds.

Two promises are about what was delivered. `NoneSkipped` is inductive only
for both tokens, the store's and the one in the storage, which a restart takes up
(`Covering`): every message up to either was delivered, is `earlier`, or was said
before a re-invitation. An update that waits may start before the store's token
(it is applied late, or twice) but not after it, so it leaves no gap, though it
may deliver again; what its answer leaves out, its room was invited to again
(`AnswerCovers`, `InvitedLater`). A process that ends in the middle of an update counts
its messages among the `earlier` ones, told or not, whether the token was
written or not. `ExactlyOnce` needs that an update starts nowhere but at the
store's token: `OneLoop` (when the application is patient, one loop is alive) and
`Alone` (then an update that waits is the only one, of a sync that began at the
token the store still has). `ToldOnce` is what an answer adds: its messages are
all after what was delivered before, in order.

**Events.** A listener that was removed is not among the listeners any more
(`NotListening`: `unsubscribe` counts as a removal only if it takes the last
occurrence away), so no copy made from then on has it; if it still is in the
present copy, what it heard since is the event being emitted (`HeardOne`).

For the other promises `All` is the list of events that `OnStateChanged` makes of
the answer being applied, and `Done` how many of it were emitted. `Tells` says what
that list is: every invitation and every message of the answer once, invitations
first, the messages of a room in order; it is proved of the filters and the
flattening that make the list. `Telling` relates it to the state: what remains is the end of the
list (`Remaining`), what a listener heard is part of the beginning, in order
(`HeardOf`), an untouched subscription heard every event of its type up to the one
being emitted (`Steady`; the case that matters is a listener that unsubscribes
another one, which may or may not be in the present copy), what was emitted is
disjoint from what will be, as tokens grow (`Emitted`), and the store holds what
the list tells (`Stored`). A restart empties the list but keeps `Emitted`.

**Rooms.** `GetMembersFromEvents` filters, drops repeated ids, maps to senders and
drops repeated senders. In one step: it picks the senders at the places where
somebody enters first (`MembersAre`). That needs `Identified` (events of one id are
equal), without which dropping a repeated id would lose a member, and a least place (`Least`).
Two sequences one after the other then give the members of both
(`MembersConcat`), which is `Merge`. For messages no id may be repeated at all
(`Numbered`), as `Merge` only appends; this holds because what the homeserver
repeats is state.

**Sending.** The ids of waiting messages have the store's counter or the one
before it, in queue order (`Queued`, `Ordered`), and an id that waits no longer
has an earlier time or a lower counter than any that can be drawn now (`Past`).
So two messages of one id were in the queue together (`Collide`), and what the
homeserver takes for a repetition repeats a message that did (`Remembered`,
`Answered`).

**Migrations.** The statements are run one by one in the proof, for any rows: on a
database that has the four tables (`At`), each of the six kinds of statement is a
change of columns, constraints and rows, or refused (`AddColumnOn`, `RetypeOn`,
...). `RunConcat` puts them together, so that each `up` takes `After(n - 1, R)`, the
schema written out, to `After(n, ...)`, and each `down` back: `removePublic` only
without rows, the others with any. `IInv` says that the database is `After(n, rows)`
for the `n` that the executed migrations say, that rows have that schema's columns and
tokens given before, and that a serving pod's image is among them. The delicate part
is `ReadFirst`: what an init container read may be outdated. If another pod migrated
meanwhile, the first statement it runs was run before and is refused
(`AgainRefused`, `UpgradeStale`: "account" exists, the column exists, the constraint is
gone); if an operator reverted, it was nothing that the image carries. A
run therefore does nothing or all of its image (`RunDoes`), and of what the four
migrations do to rows only the new protocol column is left, which is one row for
each (`ProtocolKeeps`).

Only model-checked: the liveness properties `Served`, `Arrives` and
`RolloutServes` (fairness and ENABLED are outside the prover's reach).

## 6. Fairness

`NotificationBackend!Fairness`: the event loop runs every continuation and the database
answers every statement (weak fairness of `Handle(r)`), and an answer arrives
or its connection breaks. Nothing is assumed of clients, nor of the wallet's backend: the
post has no timeout, so `Served` leaves a request at `posting`.
`MatrixClient!Fairness`: microtasks and timers run, and a sync is answered or
fails, as the homeserver holds it 30 seconds at most; axios has no timeout, so that
a sync in flight ends rests on the homeserver and on TCP, not on the client.
`Arrives` says that the token passes every message; that what it passes is
delivered is `NoneSkipped`. Logins, joins and
starts are not fair: the application may never call them.
`Migrations!FairSpec`: the kubelet starts the containers of a pod in their order and
starts one again that failed (weak fairness of `Advance(k)`); rollouts, lost
pods, reverts, requests and the provisioning of the database are not fair:
`RolloutServes` begins once it is provisioned.

## 7. What is not modelled

- The signature library and bs58 beyond the forms of keys; hashing, sealing and
  boxes in `crypto.ts`, which no handler calls.
- The other DTO decorators: they refuse bodies before any handler runs.
- The five minute window of `/send`: one comparison with a clock nothing else
  reads.
- That the challenge table only grows: there is no limit to state.
- What a homeserver may leave out of its answers: those of `MatrixClient` are
  complete, every event since the token and every room with one. A default `/sync` may
  shorten a timeline (`limited`, `prev_batch`) and leave the rooms of the past out
  of a first answer; `models/api/MatrixSync.ts` names `prev_batch`, nothing reads it,
  and messages cut off so are lost to the client. `NoneSkipped`, `ExactlyOnce`
  and `StoreAgrees` are about the complete ones. The writes of the storage
  land in the order in which they were made.
- `/send` that has read its row when a revoke is answered still posts:
  `RevocationFinal` is about sends that begin later.
- A post to the wallet's backend that never ends, which the code does not bound: `Served`
  counts a request there as served.
- That an old pod's inserts may be refused by the schema of a newer one: it is in
  `Migrations` (`Accepted`), and no property forbids it.
- PostgreSQL, TypeORM, Kubernetes and Node are external. Of them it is used that
  one run of pending migrations is one transaction, that an ALTER TABLE locks its
  table, that init containers run before the others, and that a rolling update keeps
  one pod serving. An operator is assumed to revert a migration only when no
  pod of an image that carries it is left. The entities of older images are not
  in the repository: they are taken to be what those images' migrations make.
- `inviteToRooms` and `getJoinedRooms`: the first posts for another user and
  changes nothing the client keeps, the second is never called.
- `matrix.service.ts` (commented out): only how it calls `MatrixClient` is used,
  as the external application of `MatrixClient`.
- The keypair service (a constant key), Logger, `example.ts`, the wiring of
  `app.module.ts`, the entities no code uses (their tables are in `Migrations`).

## 8. Plan

Done: backend core, its proofs; abstract registry and refinement, with proof;
matrix polling, sending, rooms, events and listeners, migrations and rollouts, each
with proofs of all its safety promises; the forms of keys.

Next: what the proofs do not say yet of steps rather than states (which steps
change a schema, a store, a registration), and lemmas that let the liveness
arguments be read: from which states the fair steps make progress.
