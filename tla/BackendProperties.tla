------------------------- MODULE BackendProperties -------------------------
(***************************************************************************)
(* What the notification backend promises to wallets and dapps.  The       *)
(* promises are about answers, so they speak of reply[r], of the row       *)
(* found[r] the answer of a register carries, and of prior[r], the         *)
(* requests whose answers were read before r was sent.                     *)
(***************************************************************************)
EXTENDS NotificationBackend

\* A revoke that named this row by its management token.
Revoked(a) == \E q \in Requests : found[q] = a /\ body[q].op = "revoke"

Registered(r) == reply[r].code = "ok" /\ body[r].op = "register"

Proves(r) == reply[r].code = "ok" /\ NeedsChallenge(body[r].op)

Reply == [code : Codes, rows : SUBSET Account]

\* Every variable has its type.
TypeOK ==
    /\ challenges \subseteq Challenges
    /\ issued \subseteq Challenges
    /\ accounts \subseteq Account
    /\ posted \subseteq Delivery
    /\ pc \in [Requests -> Labels]
    /\ body \in [Requests -> Body \cup {None}]
    /\ credential \in [Requests -> Credentials]
    /\ found \in [Requests -> Account \cup {None}]
    /\ reply \in [Requests -> Reply]
    /\ prior \in [Requests -> SUBSET Requests]
    /\ crashes \in 0..MaxCrashes
    /\ faults \in 0..MaxFaults

\* Every row of the account table was put there by a register request that
\* its key's owner signed, for a challenge the backend had issued and a
\* protocol it supports (AccountService.register): no interleaving, fault or
\* crash makes a row of a request that would have been refused.
AccountsAuthorised ==
    \A a \in accounts :
        /\ body[a.id] # None
        /\ body[a.id].op = "register" /\ body[a.id].genuine
        /\ IsSupported(a.id) /\ credential[a.id] \in issued
        /\ a = NewAccount(a.id)

\* A register that was answered with success is durable: the row whose tokens
\* the answer carries is in the table until a revoke names it, through
\* crashes, failing statements and other clients' requests.
RegistrationDurable ==
    \A r \in Requests :
        Registered(r) => found[r] \in accounts \/ Revoked(found[r])

\* A wallet that registers again (a retry after a lost answer, a second
\* device) gets the tokens it had: two successful registers of one key and
\* backend carry different rows only if one of the rows was revoked.
TokensStable ==
    \A r, s \in Requests :
        Registered(r) /\ Registered(s) /\ SamePeer(found[r], s) =>
            \/ found[r] = found[s]
            \/ Revoked(found[r]) \/ Revoked(found[s])

\* A challenge that a register or a retrieve-accounts answered with success
\* has used is refused ever after: no request sent after that answer succeeds
\* with it or creates a row, whatever crashes or fails meanwhile.
ReplayRefused ==
    \A r, s \in Requests :
        /\ Proves(r) /\ r \in prior[s]
        /\ NeedsChallenge(body[s].op) /\ credential[s] = credential[r]
        => reply[s].code # "ok" /\ \A a \in accounts : a.id # s

\* After a revoke was answered with success, a send that presents the access
\* token of the revoked row posts nothing: no register that was in flight,
\* and no retry, brings the row back.
RevocationFinal ==
    \A q, s \in Requests :
        /\ reply[q].code = "ok" /\ body[q].op = "revoke" /\ q \in prior[s]
        /\ body[s].op = "send" /\ credential[s] = found[q].accessToken
        => \A d \in posted : d.by # s

\* retrieve-accounts shows rows (and so their tokens) to nobody but the owner
\* of their key, however the key is written, who signed the request or
\* presents the management token of a row of the same key, and only those of
\* the device asked for.
RetrievesOnlyOwn ==
    \A r \in Requests :
        reply[r].code = "ok" /\ body[r].op \in {"retrieve", "retrieveByToken"} =>
            /\ \A a \in reply[r].rows :
                  /\ Owner[a.accountPublicKey] = Owner[body[r].accountPublicKey]
                  /\ a.deviceId = body[r].deviceId
            /\ \/ body[r].op = "retrieve" /\ body[r].genuine
               \/ /\ body[r].op = "retrieveByToken" /\ found[r] # None
                  /\ found[r].managementToken = credential[r]
                  /\ found[r].accountPublicKey = body[r].accountPublicKey

\* A row of the device, the protocol and the owner of a request.
Asks(r, a) ==
    /\ a.deviceId = body[r].deviceId
    /\ a.protocolIdentifier = body[r].protocolIdentifier
    /\ Owner[a.accountPublicKey] = Owner[body[r].accountPublicKey]

\* retrieve-accounts shows every registration of the device and address that
\* was answered before it was sent and is not revoked, however the owner wrote
\* the key in either request: no concurrent request hides one.
RetrievesAll ==
    \A r, s \in Requests :
        /\ reply[r].code = "ok" /\ body[r].op \in {"retrieve", "retrieveByToken"}
        /\ s \in prior[r] /\ Registered(s) /\ Asks(r, found[s])
        => found[s] \in reply[r].rows \/ Revoked(found[s])

\* A register with a signature that verifies, for a challenge the backend gave
\* out, fails with a 500 only when a statement failed or a revoke of the same
\* peer, not answered when the register was sent, took the row away between
\* the save and the findOne of AccountService.create.
FailsOnlyByRace ==
    \A r \in Requests :
        /\ reply[r].code = "failed" /\ body[r].op = "register"
        /\ SignatureValid(r) /\ credential[r] # None /\ faults = 0
        => \E q \in Requests : /\ q \notin prior[r] /\ found[q] # None
                               /\ body[q].op = "revoke" /\ SamePeer(found[q], r)

\* A row leaves the table in no step but one of a revoke (or its failing
\* delete) whose handler read that very row by its management token: a
\* register never overwrites one.
OnlyRevokeRemoves ==
    [][\A a \in accounts \ accounts' : \E q \in Requests :
            pc[q] = "found" /\ body[q].op = "revoke" /\ found[q] = a]_vars

\* Whatever else is going on, a request the backend received is answered,
\* or lost with its pod, or left waiting for the peer's backend, which
\* sendNotification gives no time limit.
Served ==
    \A r \in Requests :
        pc[r] = "received" ~> pc[r] \in {"posting", "done", "lost"}

----------------------------------------------------------------------------
(* What a test, a comment or an answer of the program says and the code does *)
(* not do.                                                                   *)

\* retrieve-accounts with a valid management token of the key in the request
\* succeeds (test/retrieve-accounts.e2e-spec.ts, 'retrieve valid w
\* managementToken'), unless a statement fails or the row is revoked.
TokenRetrieves ==
    \A r, s \in Requests :
        /\ Registered(r) /\ r \in prior[s] /\ faults = 0 /\ IsSupported(s)
        /\ body[s].op = "retrieveByToken"
        /\ credential[s] = found[r].managementToken
        /\ body[s].accountPublicKey = found[r].accountPublicKey
        /\ ~Revoked(found[r])
        => reply[s].code # "rejected"

\* 'Account registered!' (AppController.register): what was registered is the
\* account of the request, with the device and the protocol it named.
RegisteredAsAsked ==
    \A r \in Requests : Registered(r) =>
        /\ found[r].deviceId = body[r].deviceId
        /\ found[r].protocolIdentifier = body[r].protocolIdentifier
=============================================================================
