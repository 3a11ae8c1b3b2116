-------------------------- MODULE CurrencyHelpers --------------------------
(***************************************************************************)
(* How the currency helpers read the public key in a request.  A key is    *)
(* data the caller writes; all that matters of it is its form: hexadecimal *)
(* digits of 32 bytes (hex) or of another length (longhex), one of the     *)
(* base58 forms Tezos has for a curve, such a form with a checksum that is *)
(* wrong (mistyped), or something else.                                    *)
(***************************************************************************)
Forms ==
    {"hex", "longhex", "edpk", "sppk", "p2pk", "mistyped", "other", "undefined"}

\* TezosCurrencyHelper.toPlainPubkey: 64 characters are taken for a plain
\* key; the base58 forms are decoded, tz2 and tz3 keys to 33 bytes; nothing
\* is made of anything else.
TezosPlainPubkey ==
    [hex |-> "hex", edpk |-> "hex", sppk |-> "longhex", p2pk |-> "longhex",
     mistyped |-> "undefined", longhex |-> "undefined", other |-> "undefined",
     undefined |-> "undefined"]

\* The helpers of Polkadot and Kusama hand the key on as it is.
ToPlainPubkey(protocol, form) ==
    IF protocol = "xtz" THEN TezosPlainPubkey[form] ELSE form

\* ... and bs58check.decode throws when a checksum is wrong.
Undecodable(protocol, form) == protocol = "xtz" /\ form = "mistyped"

\* verifyMessage wants the 32 bytes of a key.
Verifiable(form) == form = "hex"

\* checkSignature, for register, decodes the key twice to verify with.
CheckSignature(protocol, form) ==
    Verifiable(ToPlainPubkey(protocol, ToPlainPubkey(protocol, form)))

\* retrieve-accounts decodes once.
RetrieveSignature(protocol, form) == Verifiable(ToPlainPubkey(protocol, form))
=============================================================================
