------------------------ MODULE NotificationBackend ------------------------
(***************************************************************************)
(* The HTTP notification backend: the handlers of AppController with the   *)
(* AccountService and ChallengeService they call, over the account and     *)
(* challenge tables of the database.                                       *)
(*                                                                         *)
(* Every handler is an async function.  Between two awaits it runs alone;  *)
(* at an await any other request, in this pod or in the other pod of a     *)
(* rolling update, may run.  So a request is a little process, pc[r] says  *)
(* at which await it is, and an action is what happens from one await on   *)
(* the database (or on the peer's backend) to the next.                    *)
(***************************************************************************)
EXTENDS Naturals, FiniteSets, CurrencyHelpers

CONSTANTS
    Requests,       \* the requests the backend will ever receive (a bound)
    Challenges,     \* the (id, timestamp) pairs the database may generate
    Keys, Urls, Devices,   \* account public keys, peer backends, device ids
    Owner, Form,    \* key -> whose it is, and its form: one key has many spellings
    Protocols,      \* the protocol identifiers clients write ...
    Supported,      \* ... and those CURRENCY_HELPERS has
    Templates,      \* the bodies clients send, without their credential
    ValidationPipe, \* TRUE: as main.ts starts the app; FALSE: as the e2e tests do
    MaxCrashes, MaxFaults, \* bounds on pods killed and on failing statements
    None

(***************************************************************************)
(* Data.  A challenge stands for the pair of its id and its timestamp: the *)
(* backend accepts only the pair it stored.  The uuids of a row and of its *)
(* two tokens are fresh for each register request, so they are named after *)
(* the request that generated them.                                        *)
(***************************************************************************)
Operations == {"register", "revoke", "send", "retrieve", "retrieveByToken"}

Addresses == Protocols \X {Owner[k] : k \in Keys}

\* getAddressFromPublicKey: one address per owner and protocol, never shared,
\* whichever way the key is written.
Address(protocol, key) == <<protocol, Owner[key]>>

AccessToken(r) == <<"access", r>>
ManagementToken(r) == <<"management", r>>
Tokens == {"access", "management"} \X Requests

Account ==
    [id : Requests, accountPublicKey : Keys, backendUrl : Urls,
     address : Addresses, protocolIdentifier : Protocols, deviceId : Devices,
     challenge : Challenges, accessToken : Tokens, managementToken : Tokens]

\* What a request says, apart from its challenge or token.  genuine: for
\* register and retrieve, the signature is by the owner of accountPublicKey
\* over the message the handler rebuilds, in which retrieve has the key as it
\* was written, and register the key that prefixPublicKey makes of it: of a
\* base58 form that has a byte of the key, or none.  For send, the recipient
\* is an address of the protocol and the timestamp is inside the five minute
\* window.
Body ==
    [op : Operations, accountPublicKey : Keys, backendUrl : Urls,
     protocolIdentifier : Protocols, deviceId : Devices, genuine : BOOLEAN]

Credentials == Challenges \cup Tokens \cup {None}

Codes == {"none", "ok", "rejected", "failed"}   \* 2xx, 4xx, 500

Labels ==
    {"idle", "received", "validated", "refused", "saved", "found", "posting",
     "proved", "answering", "done", "lost"}

Delivery == [by : Requests, to : Urls, receiver : Addresses]

ASSUME BodiesAssumption == Templates \subseteq Body
ASSUME KeysAssumption == Form \in [Keys -> Forms \ {"undefined"}]
ASSUME SupportedAssumption == Supported \subseteq Protocols
ASSUME SwitchAssumption == ValidationPipe \in BOOLEAN
ASSUME BoundsAssumption == MaxCrashes \in Nat /\ MaxFaults \in Nat
ASSUME NoneAssumption ==
    None \notin Account \cup Challenges \cup Tokens \cup Body

VARIABLES
    challenges,  \* the challenge table
    accounts,    \* the account table
    issued,      \* history: every challenge the table ever held
    posted,      \* history: what was sent to peers' backends
    pc,          \* request -> where its handler is
    body,        \* request -> its body, once received
    credential,  \* request -> the challenge or token it presents
    found,       \* request -> the row its handler holds in a local variable
    reply,       \* request -> status and rows of its answer
    prior,       \* history: request -> requests answered before it was sent
    crashes, faults

tables == <<challenges, accounts, issued>>
inputs == <<body, credential, prior>>
limits == <<crashes, faults>>
vars == <<challenges, accounts, issued, posted, pc, body, credential, found,
          reply, prior, crashes, faults>>

----------------------------------------------------------------------------
(* The tables' queries and constraints. *)

\* The unique constraint 'pubkey-backend'; also the where clause of the
\* findOne in AccountService.create.
SamePeer(a, r) ==
    /\ a.accountPublicKey = body[r].accountPublicKey
    /\ a.backendUrl = body[r].backendUrl

\* The row AccountService.register builds from its DTO.
NewAccount(r) ==
    [id |-> r,
     accountPublicKey |-> body[r].accountPublicKey,
     backendUrl |-> body[r].backendUrl,
     address |-> Address(body[r].protocolIdentifier, body[r].accountPublicKey),
     protocolIdentifier |-> body[r].protocolIdentifier,
     deviceId |-> body[r].deviceId,
     challenge |-> credential[r],
     accessToken |-> AccessToken(r),
     managementToken |-> ManagementToken(r)]

\* The where clauses, each of one row at most since both tokens are unique:
\* so the handlers' tests on the length of the result ask whether there is one.
\* The where clause of revoke.
Manages(r, a) ==
    /\ a.managementToken = credential[r]
    /\ a.protocolIdentifier = body[r].protocolIdentifier
    /\ a.accountPublicKey = body[r].accountPublicKey

\* The where clause of send.
Reaches(r, a) == a.accessToken = credential[r]

\* The token branch of retrieve-accounts: the row of the token, if its key is
\* the one in the request.
ControlsByTokenOnly(r, a) == a.managementToken = credential[r]   \* mutant

ControlsByAccessToken(r, a) ==                                   \* mutant
    /\ a.accessToken = credential[r]
    /\ a.accountPublicKey = body[r].accountPublicKey

Controls(r, a) ==
    /\ a.managementToken = credential[r]
    /\ a.accountPublicKey = body[r].accountPublicKey

OnDeviceByKey(r, a) ==                                           \* mutant
    /\ a.deviceId = body[r].deviceId
    /\ a.accountPublicKey = body[r].accountPublicKey
    /\ a.protocolIdentifier = body[r].protocolIdentifier

\* The where clause of getAllByDeviceIdAndAddress.
OnDevice(r, a) ==
    /\ a.deviceId = body[r].deviceId
    /\ a.address = Address(body[r].protocolIdentifier, body[r].accountPublicKey)

SignatureIgnored(r) == TRUE                                      \* mutant

\* A genuine signature verifies if the handler can read the key.
Readable(b) ==
    IF b.op = "register"
    THEN CheckSignature(b.protocolIdentifier, Form[b.accountPublicKey])
    ELSE RetrieveSignature(b.protocolIdentifier, Form[b.accountPublicKey])

SignatureValid(r) == body[r].genuine /\ Readable(body[r])

Decodable(r) == ~Undecodable(body[r].protocolIdentifier, Form[body[r].accountPublicKey])

ChallengeKept(c) == challenges                                   \* mutant

ChallengesWithout(c) == challenges \ {c}

DeletesTheDevice(a) ==                                           \* mutant
    {b \in accounts : b.deviceId # a.deviceId}

DeletesNothing(a) == accounts                                    \* mutant

AccountsWithout(a) == {b \in accounts : b.id # a.id}

\* The table after a save that the unique constraint allows.
AccountsWith(r) == accounts \cup {NewAccount(r)}

Conflicts(r) == \E a \in accounts : SamePeer(a, r)

----------------------------------------------------------------------------
(* Control. *)

Goto(r, label) ==
    /\ pc' = [pc EXCEPT ![r] = label]
    /\ UNCHANGED reply

Finish(r, code, rows) ==
    /\ pc' = [pc EXCEPT ![r] = "answering"]
    /\ reply' = [reply EXCEPT ![r] = [code |-> code, rows |-> rows]]

\* A lookup by id or token that finds nothing is a 4xx; one that is not even
\* a uuid, which is what the column holds, makes the statement throw.
Refuse(r) ==
    \/ Finish(r, "rejected", {})
    \/ credential[r] = None /\ Finish(r, "failed", {})

Hold(r, a) == found' = [found EXCEPT ![r] = a]

\* The client has read a success answer.
Acknowledged(r) == pc[r] = "done" /\ reply[r].code = "ok"

\* A token is known to clients once an answer carried its row: the rows of
\* retrieve-accounts hold the tokens too.
KnownTokens ==
    {t \in Tokens : \E r \in Requests :
        /\ Acknowledged(r)
        /\ \E a \in reply[r].rows : t \in {a.accessToken, a.managementToken}}

NeedsChallenge(op) == op \in {"register", "retrieve"}

\* What a client may present: something the backend gave out, or (None) an
\* unknown token, or a challenge the table never held.
Presentable(op) ==
    {None} \cup {c \in issued : NeedsChallenge(op)}
           \cup {t \in KnownTokens : ~NeedsChallenge(op)}

\* class-validator: RetrieveAccountsDTO.challenge is @IsNotEmpty, so the
\* pipe refuses a body that has a management token instead.
PipeRefuses(r) == ValidationPipe /\ body[r].op = "retrieveByToken"

Called(r, op) == pc[r] = "received" /\ body[r].op = op /\ ~PipeRefuses(r)

IsSupported(r) == body[r].protocolIdentifier \in Supported

----------------------------------------------------------------------------
(* Clients. *)

\* GET /challenge: the database fills in id and timestamp.
GetChallenge(c) ==
    /\ c \notin issued
    /\ issued' = issued \cup {c}
    /\ challenges' = challenges \cup {c}
    /\ UNCHANGED <<accounts, posted, pc, found, reply, inputs, limits>>

Receive(r, t, c) ==
    /\ pc[r] = "idle"
    /\ c \in Presentable(t.op)
    /\ body' = [body EXCEPT ![r] = t]
    /\ credential' = [credential EXCEPT ![r] = c]
    /\ prior' = [prior EXCEPT ![r] = {q \in Requests : pc[q] = "done"}]
    /\ Goto(r, "received")
    /\ UNCHANGED <<tables, posted, found, limits>>

\* The global ValidationPipe answers 400 before the handler runs.
RejectDTO(r) ==
    /\ pc[r] = "received" /\ PipeRefuses(r)
    /\ Finish(r, "rejected", {})
    /\ UNCHANGED <<tables, posted, found, inputs, limits>>

----------------------------------------------------------------------------
(* POST /register *)

\* Up to the answer of ChallengeService.validate.
RegisterValidate(r) ==
    /\ Called(r, "register")
    /\ \/ IsSupported(r) /\ credential[r] \in challenges /\ Goto(r, "validated")
       \/ ~IsSupported(r) /\ Finish(r, "rejected", {})
       \/ IsSupported(r) /\ credential[r] \notin challenges /\ Refuse(r)
    /\ UNCHANGED <<tables, posted, found, inputs, limits>>

RegisterUpserts(r) ==                                            \* mutant
    /\ pc[r] = "validated" /\ body[r].op = "register"
    /\ \/ /\ ~SignatureValid(r) /\ Finish(r, "rejected", {})
          /\ UNCHANGED <<accounts, found>>
       \/ /\ SignatureValid(r)
          /\ accounts' = {a \in accounts : ~SamePeer(a, r)} \cup {NewAccount(r)}
          /\ Hold(r, NewAccount(r))
          /\ Goto(r, "saved")
    /\ UNCHANGED <<challenges, issued, posted, inputs, limits>>

\* checkSignature (a bad signature is false, 400, or makes verifyMessage
\* throw, 500), then the save of the new row: inserted, or an exception.
RegisterSave(r) ==
    /\ pc[r] = "validated" /\ body[r].op = "register"
    /\ \/ /\ ~SignatureValid(r)
          /\ \E code \in {"rejected", "failed"} : Finish(r, code, {})
          /\ UNCHANGED <<accounts, found>>
       \/ /\ SignatureValid(r) /\ ~Conflicts(r)
          /\ accounts' = AccountsWith(r)
          /\ Hold(r, NewAccount(r))
          /\ Goto(r, "saved")
       \/ /\ SignatureValid(r) /\ Conflicts(r)
          /\ Goto(r, "refused")
          /\ UNCHANGED <<accounts, found>>
    /\ UNCHANGED <<challenges, issued, posted, inputs, limits>>

RegisterFindsUnsaved(r) ==                                       \* mutant
    /\ pc[r] = "refused"
    /\ Hold(r, NewAccount(r))
    /\ Goto(r, "saved")
    /\ UNCHANGED <<tables, posted, inputs, limits>>

RegisterFindsOnDevice(r) ==                                      \* mutant
    /\ pc[r] = "refused"
    /\ \/ \E a \in accounts : SamePeer(a, r) /\ OnDevice(r, a) /\ Hold(r, a)
       \/ ~(\E a \in accounts : SamePeer(a, r) /\ OnDevice(r, a)) /\ UNCHANGED found
    /\ Goto(r, "saved")
    /\ UNCHANGED <<tables, posted, inputs, limits>>

\* The catch of AccountService.create: findOne by key and backend, which
\* gives undefined when there is no such row (any more).
RegisterFind(r) ==
    /\ pc[r] = "refused"
    /\ \/ \E a \in accounts : SamePeer(a, r) /\ Hold(r, a)
       \/ ~Conflicts(r) /\ UNCHANGED found
    /\ Goto(r, "saved")
    /\ UNCHANGED <<tables, posted, inputs, limits>>

RegisterAnswersAnyway(r) ==                                      \* mutant
    /\ pc[r] = "saved"
    /\ challenges' = ChallengesWithout(credential[r])
    /\ Finish(r, "ok", {found[r]})
    /\ UNCHANGED <<accounts, issued, posted, found, inputs, limits>>

\* ChallengeService.remove, then the answer; reading the tokens of undefined
\* is a TypeError, after the challenge is gone.
RegisterRemove(r) ==
    /\ pc[r] = "saved"
    /\ challenges' = ChallengesWithout(credential[r])
    /\ \/ found[r] # None /\ Finish(r, "ok", {found[r]})
       \/ found[r] = None /\ Finish(r, "failed", {})
    /\ UNCHANGED <<accounts, issued, posted, found, inputs, limits>>

----------------------------------------------------------------------------
(* POST /revoke *)

RevokeRetries(r) ==                                              \* mutant
    /\ Called(r, "revoke")
    /\ \/ \E a \in accounts : Manages(r, a) /\ Hold(r, a) /\ Goto(r, "found")
       \/ ~(\E a \in accounts : Manages(r, a)) /\ Goto(r, "received") /\ UNCHANGED found
    /\ UNCHANGED <<tables, posted, inputs, limits>>

RevokeFind(r) ==
    /\ Called(r, "revoke")
    /\ \/ \E a \in accounts : Manages(r, a) /\ Hold(r, a) /\ Goto(r, "found")
       \/ ~(\E a \in accounts : Manages(r, a)) /\ Refuse(r) /\ UNCHANGED found
    /\ UNCHANGED <<tables, posted, inputs, limits>>

RevokeDelete(r) ==
    /\ pc[r] = "found" /\ body[r].op = "revoke"
    /\ accounts' = AccountsWithout(found[r])
    /\ Finish(r, "ok", {})
    /\ UNCHANGED <<challenges, issued, posted, found, inputs, limits>>

----------------------------------------------------------------------------
(* POST /send *)

SendFind(r) ==
    /\ Called(r, "send")
    /\ \/ \E a \in accounts : Reaches(r, a) /\ Hold(r, a) /\ Goto(r, "found")
       \/ ~(\E a \in accounts : Reaches(r, a)) /\ Refuse(r) /\ UNCHANGED found
    /\ UNCHANGED <<tables, posted, inputs, limits>>

\* The checks of protocol, recipient and timestamp, then the POST to the
\* backend of the row read before.
SendPost(r) ==
    /\ pc[r] = "found" /\ body[r].op = "send"
    /\ \/ /\ IsSupported(r) /\ body[r].genuine
          /\ posted' = posted \cup
                {[by |-> r, to |-> found[r].backendUrl, receiver |-> found[r].address]}
          /\ Goto(r, "posting")
       \/ /\ ~(IsSupported(r) /\ body[r].genuine)
          /\ Finish(r, "rejected", {}) /\ UNCHANGED posted
    /\ UNCHANGED <<tables, found, inputs, limits>>

\* axios resolves, or throws: the POST has no timeout.
SendAnswered(r) ==
    /\ pc[r] = "posting"
    /\ \E code \in {"ok", "failed"} : Finish(r, code, {})
    /\ UNCHANGED <<tables, posted, found, inputs, limits>>

----------------------------------------------------------------------------
(* POST /retrieve-accounts *)

RetrieveValidate(r) ==
    /\ Called(r, "retrieve")
    /\ \/ credential[r] \in challenges /\ Goto(r, "validated")
       \/ credential[r] \notin challenges /\ Refuse(r)
    /\ UNCHANGED <<tables, posted, found, inputs, limits>>

\* An unknown protocol is a TypeError here (CURRENCY_HELPERS.get gives
\* undefined), a key that cannot be decoded throws outside of the try; a bad
\* signature is caught; else the challenge is removed.
RetrieveRemove(r) ==
    /\ pc[r] = "validated" /\ body[r].op = "retrieve"
    /\ \/ /\ ~IsSupported(r) \/ ~Decodable(r)
          /\ Finish(r, "failed", {}) /\ UNCHANGED challenges
       \/ /\ IsSupported(r) /\ Decodable(r) /\ ~SignatureValid(r)
          /\ Finish(r, "rejected", {}) /\ UNCHANGED challenges
       \/ /\ IsSupported(r) /\ SignatureValid(r)
          /\ challenges' = ChallengesWithout(credential[r])
          /\ Goto(r, "proved")
    /\ UNCHANGED <<accounts, issued, posted, found, inputs, limits>>

RetrieveByToken(r) ==
    /\ Called(r, "retrieveByToken")
    /\ \/ \E a \in accounts : Controls(r, a) /\ Hold(r, a) /\ Goto(r, "proved")
       \/ /\ ~(\E a \in accounts : Controls(r, a))
          /\ Finish(r, "rejected", {}) /\ UNCHANGED found
    /\ UNCHANGED <<tables, posted, inputs, limits>>

RetrieveFind(r) ==
    /\ pc[r] = "proved"
    /\ \/ IsSupported(r)
            /\ Finish(r, "ok", {a \in accounts : OnDevice(r, a)})
       \/ ~IsSupported(r) /\ Finish(r, "rejected", {})
    /\ UNCHANGED <<tables, posted, found, inputs, limits>>

----------------------------------------------------------------------------
(* What goes wrong: a statement that throws, before or after it took effect *)
(* on the database; an answer that never arrives; a pod that is killed.     *)

\* A failing read: an exception filter answers 500, but the token branch of
\* retrieve-accounts catches and answers 400.
ReadFault(r) ==
    /\ \/ /\ \/ \E op \in {"revoke", "send", "retrieve"} : Called(r, op)
             \/ Called(r, "register") /\ IsSupported(r)
             \/ pc[r] = "refused"
             \/ pc[r] = "proved" /\ IsSupported(r)
          /\ Finish(r, "failed", {})
       \/ Called(r, "retrieveByToken") /\ Finish(r, "rejected", {})
    /\ UNCHANGED <<challenges, accounts, found>>

\* A failing save is caught by AccountService.create like a conflict.
SaveFault(r) ==
    /\ pc[r] = "validated" /\ body[r].op = "register" /\ SignatureValid(r)
    /\ \/ UNCHANGED accounts
       \/ ~Conflicts(r) /\ accounts' = AccountsWith(r)
    /\ Goto(r, "refused")
    /\ UNCHANGED <<challenges, found>>

\* A failing delete of a challenge.
RemoveFault(r) ==
    /\ \/ pc[r] = "saved"
       \/ /\ pc[r] = "validated" /\ body[r].op = "retrieve"
          /\ IsSupported(r) /\ SignatureValid(r)
    /\ \/ UNCHANGED challenges
       \/ challenges' = ChallengesWithout(credential[r])
    /\ Finish(r, "failed", {})
    /\ UNCHANGED <<accounts, found>>

\* A failing delete of an account.
RevokeFault(r) ==
    /\ pc[r] = "found" /\ body[r].op = "revoke"
    /\ \/ UNCHANGED accounts
       \/ accounts' = AccountsWithout(found[r])
    /\ Finish(r, "failed", {})
    /\ UNCHANGED <<challenges, found>>

Fault(r) ==
    /\ faults < MaxFaults
    /\ faults' = faults + 1
    /\ ReadFault(r) \/ SaveFault(r) \/ RemoveFault(r) \/ RevokeFault(r)
    /\ UNCHANGED <<issued, posted, inputs, crashes>>

Answer(r) ==
    /\ pc[r] = "answering"
    /\ Goto(r, "done")
    /\ UNCHANGED <<tables, posted, found, inputs, limits>>

LoseAnswer(r) ==
    /\ pc[r] = "answering"
    /\ Goto(r, "lost")
    /\ UNCHANGED <<tables, posted, found, inputs, limits>>

Settled(r) == pc[r] \in {"idle", "done", "lost"}

\* A pod stops and takes the requests it serves with it; while a rolling
\* update overlaps two pods, the other pod's requests go on.
Crash(served) ==
    /\ crashes < MaxCrashes
    /\ crashes' = crashes + 1
    /\ pc' = [r \in Requests |-> IF r \in served THEN "lost" ELSE pc[r]]
    /\ UNCHANGED <<tables, posted, found, reply, inputs, faults>>

----------------------------------------------------------------------------
Init ==
    /\ challenges = {} /\ issued = {} /\ accounts = {} /\ posted = {}
    /\ pc = [r \in Requests |-> "idle"]
    /\ body = [r \in Requests |-> None]
    /\ credential = [r \in Requests |-> None]
    /\ found = [r \in Requests |-> None]
    /\ reply = [r \in Requests |-> [code |-> "none", rows |-> {}]]
    /\ prior = [r \in Requests |-> {}]
    /\ crashes = 0 /\ faults = 0

\* What the backend does for a request without waiting for anyone but its
\* database.
Handle(r) ==
    \/ RejectDTO(r)
    \/ RegisterValidate(r) \/ RegisterSave(r) \/ RegisterFind(r) \/ RegisterRemove(r)
    \/ RevokeFind(r) \/ RevokeDelete(r)
    \/ SendFind(r) \/ SendPost(r)
    \/ RetrieveValidate(r) \/ RetrieveRemove(r) \/ RetrieveByToken(r) \/ RetrieveFind(r)

\* Every request has been answered or lost: the bound on Requests is reached.
Exhausted ==
    /\ \A r \in Requests : pc[r] \in {"done", "lost"}
    /\ UNCHANGED vars

Step(r) ==
    \/ \E t \in Templates : \E c \in Credentials : Receive(r, t, c)
    \/ Handle(r) \/ SendAnswered(r) \/ Fault(r) \/ Answer(r) \/ LoseAnswer(r)

Next ==
    \/ \E c \in Challenges : GetChallenge(c)
    \/ \E r \in Requests : Step(r)
    \/ \E served \in SUBSET {r \in Requests : ~Settled(r)} \ {{}} : Crash(served)
    \/ Exhausted

Spec == Init /\ [][Next]_vars

\* The event loop runs every continuation and the database answers every
\* statement.  Nothing is assumed of clients, nor of the peer's backend.
Fairness ==
    /\ \A r \in Requests : WF_vars(Handle(r))
    /\ \A r \in Requests : WF_vars(Answer(r) \/ LoseAnswer(r))

FairSpec == Spec /\ Fairness
=============================================================================
