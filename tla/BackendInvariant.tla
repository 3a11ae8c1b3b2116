-------------------------- MODULE BackendInvariant --------------------------
(***************************************************************************)
(* The inductive invariant behind the promises of BackendProperties.  None *)
(* of them is inductive: each needs to know what a handler has already     *)
(* established when it is at a given await, where the rows it holds come   *)
(* from, and what has become of them since.                                *)
(***************************************************************************)
EXTENDS BackendProperties

\* A request whose handler has not yet reached its save.
Early(r) == pc[r] \in {"idle", "received", "validated"}

\* What a handler has established when it is at a given await.
Progress(r) ==
    /\ pc[r] # "idle" => body[r] \in Body
    /\ pc[r] = "idle" => prior[r] = {} /\ \A d \in posted : d.by # r
    /\ pc[r] \in {"idle", "received", "validated", "refused"} => found[r] = None
    /\ pc[r] \notin {"answering", "done", "lost"} => reply[r].code = "none"
    /\ pc[r] = "validated" =>
          /\ NeedsChallenge(body[r].op) /\ credential[r] \in issued
          /\ body[r].op = "register" => IsSupported(r)
    /\ pc[r] \in {"refused", "saved"} =>
          /\ body[r].op = "register" /\ body[r].genuine
          /\ IsSupported(r) /\ credential[r] \in issued
    /\ pc[r] = "found" => found[r] # None /\ body[r].op \in {"revoke", "send"}
    /\ pc[r] = "posting" => body[r].op = "send"
    /\ pc[r] = "proved" =>
          \/ body[r].op = "retrieve" /\ body[r].genuine
          \/ /\ body[r].op = "retrieveByToken" /\ found[r] # None
             /\ found[r].managementToken = credential[r]
             /\ found[r].accountPublicKey = body[r].accountPublicKey

Control ==
    /\ challenges \subseteq issued
    /\ \A r \in Requests : Progress(r)

\* A row that a register request built after all its checks.
Legitimate(a) ==
    /\ a \in Account
    /\ ~Early(a.id)
    /\ body[a.id].op = "register" /\ body[a.id].genuine
    /\ IsSupported(a.id) /\ credential[a.id] \in issued
    /\ a = NewAccount(a.id)

\* Where rows come from.
Provenance ==
    /\ \A a \in accounts : Legitimate(a)
    /\ \A r \in Requests : found[r] # None => Legitimate(found[r])

\* The unique constraint 'pubkey-backend'.
UniquePeer ==
    \A a, b \in accounts :
        a.accountPublicKey = b.accountPublicKey /\ a.backendUrl = b.backendUrl
        => a = b

\* The row of a register is its peer's row, in the table unless revoked.
Kept ==
    \A r \in Requests :
        /\ found[r] # None /\ body[r].op = "register" =>
              /\ SamePeer(found[r], r)
              /\ found[r] \in accounts \/ Revoked(found[r])
        /\ Registered(r) => found[r] # None

\* A revoke of r's peer that was not answered when r was sent.
Raced(r) ==
    \E q \in Requests : /\ q \notin prior[r] /\ found[q] # None
                        /\ body[q].op = "revoke" /\ SamePeer(found[q], r)

\* Without faults, a register that conflicted still has the row it
\* conflicted with, or lost it to a race.
Cause ==
    /\ \A r \in Requests : prior[r] \subseteq {q \in Requests : pc[q] = "done"}
    /\ faults = 0 => \A r \in Requests :
          /\ pc[r] = "refused" => Conflicts(r) \/ Raced(r)
          /\ pc[r] = "saved" /\ found[r] = None => Raced(r)
          /\ /\ reply[r].code = "failed" /\ body[r].op = "register"
             /\ SignatureValid(r) /\ credential[r] # None
             => Raced(r)

\* A challenge is spent once a request has proved something with it, and a
\* request that came later with it is stuck before its proof.
Spent ==
    /\ \A r \in Requests :
          Proves(r) \/ (pc[r] = "proved" /\ body[r].op = "retrieve") =>
              credential[r] \in issued \ challenges
    /\ \A r, s \in Requests :
          /\ Proves(r) /\ r \in prior[s]
          /\ NeedsChallenge(body[s].op) /\ credential[s] = credential[r]
          => /\ pc[s] \in {"received", "answering", "done", "lost"}
             /\ reply[s].code # "ok"
             /\ \A a \in accounts : a.id # s

\* A row whose revoke succeeded is gone, and a send that came later with its
\* token finds nothing.
Gone ==
    /\ \A q \in Requests :
          reply[q].code = "ok" /\ body[q].op = "revoke" =>
              found[q] # None /\ found[q] \notin accounts
    /\ \A q, s \in Requests :
          /\ reply[q].code = "ok" /\ body[q].op = "revoke" /\ q \in prior[s]
          /\ body[s].op = "send" /\ credential[s] = found[q].accessToken
          => /\ pc[s] \notin {"found", "posting"}
             /\ \A d \in posted : d.by # s

\* The invariant TLC can check as it stands, and the proofs preserve.
IInv ==
    /\ TypeOK /\ Control /\ Provenance /\ UniquePeer /\ Kept /\ Cause
    /\ Spent /\ Gone /\ RetrievesOnlyOwn /\ RetrievesAll
=============================================================================
