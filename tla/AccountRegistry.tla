-------------------------- MODULE AccountRegistry --------------------------
(***************************************************************************)
(* What the notification backend promises, without its handlers, awaits,   *)
(* challenges and failures: a registry of accounts.  A row enters it once, *)
(* with tokens of its own and when its peer has none; a request gets hold  *)
(* of a row only while it is there; a row leaves only to a request that    *)
(* holds it; a notification goes where a row that was held says; and an    *)
(* answer shows rows that were there together, or the one row held.        *)
(***************************************************************************)
CONSTANTS Requests, Account, None

VARIABLES
    rows,    \* the accounts enrolled
    held,    \* request -> the row it got hold of, or None
    posted,  \* notifications sent to the peers' backends
    shown    \* request -> the rows its answer shows

vars == <<rows, held, posted, shown>>

SamePeer(a, b) ==
    a.accountPublicKey = b.accountPublicKey /\ a.backendUrl = b.backendUrl

SameToken(a, b) ==
    a.accessToken = b.accessToken \/ a.managementToken = b.managementToken

Init ==
    /\ rows = {} /\ posted = {}
    /\ held = [r \in Requests |-> None]
    /\ shown = [r \in Requests |-> {}]

\* A row enters; the request it came with holds it unless a failure hid that
\* it did.  (Picked from rows', so that nothing enumerates Account.)
Enrol(r) ==
    /\ \E a \in rows' \ rows :
          /\ a \in Account
          /\ \A b \in rows : ~SamePeer(a, b) /\ ~SameToken(a, b)
          /\ rows' = rows \cup {a}
          /\ held' \in {held, [held EXCEPT ![r] = a]}
    /\ UNCHANGED <<posted, shown>>

Hold(r) ==
    /\ held[r] = None
    /\ \E a \in rows : held' = [held EXCEPT ![r] = a]
    /\ UNCHANGED <<rows, posted, shown>>

Withdraw(r) ==
    /\ held[r] # None
    /\ rows' = rows \ {held[r]}
    /\ UNCHANGED <<held, posted, shown>>

Notify(r) ==
    /\ held[r] # None
    /\ posted' = posted \cup
          {[by |-> r, to |-> held[r].backendUrl, receiver |-> held[r].address]}
    /\ UNCHANGED <<rows, held, shown>>

\* All the rows of one device and address.
Show(r) ==
    /\ shown[r] = {}
    /\ \/ /\ held[r] # None
          /\ shown' = [shown EXCEPT ![r] = {held[r]}]
       \/ \E a \in rows : shown' = [shown EXCEPT ![r] =
             {b \in rows : b.deviceId = a.deviceId /\ b.address = a.address}]
    /\ UNCHANGED <<rows, held, posted>>

Next ==
    \E r \in Requests :
        Enrol(r) \/ Hold(r) \/ Withdraw(r) \/ Notify(r) \/ Show(r)

Spec == Init /\ [][Next]_vars
=============================================================================
