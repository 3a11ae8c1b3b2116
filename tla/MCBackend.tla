----------------------------- MODULE MCBackend -----------------------------
(***************************************************************************)
(* Small instances of the notification backend.  A workload is the set of  *)
(* bodies clients choose from; each run takes the one its question needs.  *)
(* The first wallet can write its key in two ways, as 64 hexadecimal       *)
(* digits and in base58, or mistype it; the second one's is a base58 tz2   *)
(* key.                                                                    *)
(***************************************************************************)
EXTENDS BackendRefinement, TLC

Wallets ==
    [k1 |-> "w1", edpk1 |-> "w1", typo1 |-> "w1", sppk2 |-> "w2", k3 |-> "w3"]
Spellings ==
    [k1 |-> "hex", edpk1 |-> "edpk", typo1 |-> "mistyped", sppk2 |-> "sppk", k3 |-> "hex"]

\* Requests and challenges are interchangeable: used by the safety runs only.
Interchangeable == Permutations(Requests) \cup Permutations(Challenges)

Says(op, key, protocol, device, genuine) ==
    [op |-> op, accountPublicKey |-> key, backendUrl |-> "u1",
     protocolIdentifier |-> protocol, deviceId |-> device, genuine |-> genuine]

\* One key, two devices, a revoke, and a bad signature.
Registering ==
    {Says("register", "k1", "xtz", "d1", TRUE),
     Says("register", "k1", "xtz", "d2", TRUE),
     Says("register", "k1", "xtz", "d1", FALSE),
     Says("revoke", "k1", "xtz", "d1", TRUE)}

\* One of each operation, with an unknown protocol, a bad signature and keys
\* in every form.
Mixed ==
    {Says("register", "k1", "xtz", "d1", TRUE),
     Says("register", "k1", "btc", "d1", TRUE),
     Says("register", "k1", "xtz", "d1", FALSE),
     Says("register", "sppk2", "xtz", "d1", TRUE),
     Says("revoke", "k1", "xtz", "d1", TRUE),
     Says("send", "k1", "xtz", "d1", TRUE),
     Says("send", "k1", "btc", "d1", TRUE),
     Says("retrieve", "k1", "xtz", "d1", TRUE),
     Says("retrieve", "k1", "xtz", "d1", FALSE),
     Says("retrieve", "edpk1", "xtz", "d1", TRUE),
     Says("retrieve", "typo1", "xtz", "d1", FALSE),
     Says("retrieve", "k1", "btc", "d1", TRUE),
     Says("retrieveByToken", "k1", "xtz", "d1", TRUE)}

\* Two wallets, one with two devices and two ways to write its key, and every
\* way to use what they registered.
Using ==
    {Says("register", "k1", "xtz", "d1", TRUE),
     Says("register", "k1", "xtz", "d2", TRUE),
     Says("register", "k3", "xtz", "d1", TRUE),
     Says("register", "edpk1", "xtz", "d1", TRUE),
     Says("revoke", "k1", "xtz", "d1", TRUE),
     Says("send", "k1", "xtz", "d1", TRUE),
     Says("retrieve", "edpk1", "xtz", "d1", TRUE),
     Says("retrieveByToken", "k1", "xtz", "d1", TRUE),
     Says("retrieveByToken", "k1", "btc", "d1", TRUE)}
=============================================================================
