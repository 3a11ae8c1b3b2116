---------------------- MODULE BackendRefinementProofs ----------------------
(***************************************************************************)
(* Proof that the notification backend implements AccountRegistry: each    *)
(* step of a handler is one step of the registry under the mapping of      *)
(* BackendRefinement, or changes nothing the registry sees.                *)
(***************************************************************************)
EXTENDS BackendProofs, BackendRefinement

\* What the registry sees of a reply.
Shown == [r \in Requests |-> reply[r].rows]

\* A handler shows nothing before it answers.
Silent == \A r \in Requests : reply[r].code = "none" => reply[r].rows = {}

\* A step the registry does not see.
Quiet == UNCHANGED <<accounts, found, posted, Shown>>

LEMMA QuietStutters == Quiet => UNCHANGED Registry!vars
  BY DEF Quiet, Shown, Registry!vars

\* Before it answers, a handler's reply is blank.
LEMMA BlankReply ==
    ASSUME Control, Silent, NEW r \in Requests, pc[r] \notin {"answering", "done", "lost"}
    PROVE  reply[r].rows = {}
  BY DEF Control, Progress, Silent

LEMMA GotoShowsNothing ==
    ASSUME NEW r \in Requests, NEW label, Goto(r, label)
    PROVE  Shown' = Shown
  BY DEF Goto, Shown

LEMMA RefusalShowsNothing ==
    ASSUME TypeOK, Control, Silent, NEW r \in Requests, NEW code, Finish(r, code, {}),
           pc[r] \notin {"answering", "done", "lost"}
    PROVE  Shown' = Shown
  <1>1. reply[r].rows = {}
    BY BlankReply
  <1>2. \A q \in Requests : reply'[q].rows = reply[q].rows
    BY <1>1 DEF Finish, TypeOK
  <1> QED BY <1>2 DEF Shown

LEMMA AnswerShows ==
    ASSUME TypeOK, NEW r \in Requests, NEW rows, Finish(r, "ok", rows)
    PROVE  Shown' = [Shown EXCEPT ![r] = rows]
  BY DEF Finish, TypeOK, Shown

\* The insertion of a register's row.
LEMMA InsertEnrols ==
    ASSUME TypeOK, Control, Provenance, NEW r \in Requests, Inserts(r),
           found' \in {found, [found EXCEPT ![r] = NewAccount(r)]},
           posted' = posted, Shown' = Shown
    PROVE  Registry!Enrol(r)
  <1> DEFINE a == NewAccount(r)
  <1>1. body[r] \in Body /\ credential[r] \in Challenges
    BY DEF Inserts, Control, Progress, TypeOK
  <1>2. a \in Account
    BY <1>1, NewAccountType
  <1>3. /\ a.id = r /\ a.accessToken = AccessToken(r) /\ a.managementToken = ManagementToken(r)
        /\ a.accountPublicKey = body[r].accountPublicKey /\ a.backendUrl = body[r].backendUrl
    BY DEF NewAccount
  <1>4. ASSUME NEW b \in accounts
        PROVE  ~Registry!SamePeer(a, b) /\ ~Registry!SameToken(a, b) /\ b # a
    <2>1. ~SamePeer(b, r)
      BY DEF Inserts, Conflicts
    <2>2. b.id \in Requests /\ ~Early(b.id) /\ b = NewAccount(b.id)
      BY DEF Provenance, Legitimate, Account
    <2>3. b.id # r
      BY <2>2 DEF Inserts, Early
    <2>4. b.accessToken = AccessToken(b.id) /\ b.managementToken = ManagementToken(b.id)
      BY <2>2 DEF NewAccount
    <2> QED
      BY <1>3, <2>1, <2>3, <2>4
      DEF SamePeer, AccessToken, ManagementToken, Registry!SamePeer, Registry!SameToken
  <1>5. accounts' = accounts \cup {a} /\ a \in accounts' \ accounts
    BY <1>4 DEF Inserts
  <1> HIDE DEF a
  <1>6. found' \in {found, [found EXCEPT ![r] = a]}
    BY DEF a
  <1> QED BY <1>2, <1>4, <1>5, <1>6 DEF Registry!Enrol, Shown

\* The deletion of a revoked row, found again by its id.
LEMMA DeleteWithdraws ==
    ASSUME TypeOK, Control, Provenance, NEW r \in Requests, Deletes(r),
           found' = found, posted' = posted, Shown' = Shown
    PROVE  Registry!Withdraw(r)
  <1>1. found[r] # None
    BY DEF Deletes, Control, Progress
  <1>2. accounts' = accounts \ {found[r]}
    <2>1. ASSUME NEW a \in accounts, a \notin accounts' PROVE a = found[r]
      BY <2>1, DeletedIsHeld
    <2> QED BY <2>1 DEF Deletes
  <1> QED BY <1>1, <1>2 DEF Registry!Withdraw, Shown

LEMMA LookupHolds ==
    ASSUME NEW r \in Requests, found[r] = None, NEW a \in accounts, Hold(r, a),
           accounts' = accounts, posted' = posted, Shown' = Shown
    PROVE  Registry!Hold(r)
  BY DEF Hold, Registry!Hold, Shown

\* What the registry sees of a step.
Seen == Quiet \/ Registry!Next

LEMMA NextSeen ==
    TypeOK /\ Control /\ Provenance /\ Silent /\ [Next]_vars => Seen
  <1> SUFFICES ASSUME TypeOK, Control, Provenance, Silent, [Next]_vars PROVE Seen
    OBVIOUS
  <1> USE DEF Seen, tables, inputs, limits
  <1> USE GotoShowsNothing
  <1>1. ASSUME NEW c \in Challenges, GetChallenge(c) PROVE Seen
    BY <1>1 DEF GetChallenge, Quiet, Shown
  <1>2. ASSUME NEW r \in Requests, NEW t \in Templates, NEW c \in Credentials, Receive(r, t, c)
        PROVE  Seen
    BY <1>2 DEF Receive, Quiet
  <1>3. ASSUME NEW r \in Requests, RejectDTO(r) PROVE Seen
    BY <1>3, RefusalShowsNothing DEF RejectDTO, Quiet
  <1>4. ASSUME NEW r \in Requests, RegisterValidate(r) PROVE Seen
    BY <1>4, RefusalShowsNothing DEF RegisterValidate, Refuse, Called, Quiet
  <1>5. ASSUME NEW r \in Requests, RegisterSave(r) PROVE Seen
    <2>1. CASE ~SignatureValid(r) \/ Conflicts(r)
      BY <1>5, <2>1, RefusalShowsNothing DEF RegisterSave, Quiet
    <2>2. CASE SignatureValid(r) /\ ~Conflicts(r)
      <3>1. Inserts(r) /\ Shown' = Shown
        BY <1>5, <2>2 DEF RegisterSave, Inserts, AccountsWith, Goto, TypeOK, Shown
      <3>2. found' = [found EXCEPT ![r] = NewAccount(r)] /\ posted' = posted
        BY <1>5, <2>2 DEF RegisterSave, Hold
      <3> QED BY <3>1, <3>2, InsertEnrols DEF Registry!Next
    <2> QED BY <2>1, <2>2
  <1>6. ASSUME NEW r \in Requests, RegisterFind(r) PROVE Seen
    <2>1. found[r] = None
      BY <1>6 DEF RegisterFind, Control, Progress
    <2> QED BY <1>6, <2>1, LookupHolds DEF RegisterFind, Quiet, Registry!Next
  <1>7. ASSUME NEW r \in Requests, RegisterRemove(r) PROVE Seen
    <2>1. CASE found[r] = None
      BY <1>7, <2>1, RefusalShowsNothing DEF RegisterRemove, Quiet
    <2>2. CASE found[r] # None
      <3>1. Shown' = [Shown EXCEPT ![r] = {found[r]}]
        BY <1>7, <2>2, AnswerShows DEF RegisterRemove
      <3>2. Shown[r] = {}
        BY <1>7, BlankReply DEF RegisterRemove, Shown
      <3> QED BY <1>7, <2>2, <3>1, <3>2 DEF RegisterRemove, Registry!Next, Registry!Show, Shown
    <2> QED BY <2>1, <2>2
  <1>8. ASSUME NEW r \in Requests, RevokeFind(r) PROVE Seen
    <2>1. found[r] = None
      BY <1>8 DEF RevokeFind, Called, Control, Progress
    <2> QED BY <1>8, <2>1, LookupHolds, RefusalShowsNothing
            DEF RevokeFind, Refuse, Called, Quiet, Registry!Next
  <1>9. ASSUME NEW r \in Requests, RevokeDelete(r) PROVE Seen
    <2>1. Deletes(r) /\ found' = found /\ posted' = posted
      BY <1>9 DEF RevokeDelete, Deletes, AccountsWithout
    <2>2. Shown' = Shown
      BY <1>9, RefusalShowsNothing DEF RevokeDelete
    <2> QED BY <2>1, <2>2, DeleteWithdraws DEF Registry!Next
  <1>10. ASSUME NEW r \in Requests, SendFind(r) PROVE Seen
    <2>1. found[r] = None
      BY <1>10 DEF SendFind, Called, Control, Progress
    <2> QED BY <1>10, <2>1, LookupHolds, RefusalShowsNothing
            DEF SendFind, Refuse, Called, Quiet, Registry!Next
  <1>11. ASSUME NEW r \in Requests, SendPost(r) PROVE Seen
    <2>1. found[r] # None
      BY <1>11 DEF SendPost, Control, Progress
    <2>2. CASE IsSupported(r) /\ body[r].genuine
      BY <1>11, <2>1, <2>2 DEF SendPost, Registry!Next, Registry!Notify, Shown
    <2>3. CASE ~(IsSupported(r) /\ body[r].genuine)
      BY <1>11, <2>3, RefusalShowsNothing DEF SendPost, Quiet
    <2> QED BY <2>2, <2>3
  <1>12. ASSUME NEW r \in Requests, SendAnswered(r) PROVE Seen
    BY <1>12, RefusalShowsNothing DEF SendAnswered, Quiet
  <1>13. ASSUME NEW r \in Requests, RetrieveValidate(r) PROVE Seen
    BY <1>13, RefusalShowsNothing DEF RetrieveValidate, Refuse, Called, Quiet
  <1>14. ASSUME NEW r \in Requests, RetrieveRemove(r) PROVE Seen
    BY <1>14, RefusalShowsNothing DEF RetrieveRemove, Quiet
  <1>15. ASSUME NEW r \in Requests, RetrieveByToken(r) PROVE Seen
    <2>1. found[r] = None
      BY <1>15 DEF RetrieveByToken, Called, Control, Progress
    <2> QED BY <1>15, <2>1, LookupHolds, RefusalShowsNothing
            DEF RetrieveByToken, Called, Quiet, Registry!Next
  <1>16. ASSUME NEW r \in Requests, RetrieveFind(r) PROVE Seen
    <2> DEFINE R == {a \in accounts : OnDevice(r, a)}
    <2>1. CASE ~IsSupported(r)
      BY <1>16, <2>1, RefusalShowsNothing DEF RetrieveFind, Quiet
    <2>2. CASE IsSupported(r) /\ R = {}
      BY <1>16, <2>2, RefusalShowsNothing DEF RetrieveFind, Quiet
    <2>3. CASE IsSupported(r) /\ R # {}
      <3>1. Shown' = [Shown EXCEPT ![r] = R]
        BY <1>16, <2>3, AnswerShows DEF RetrieveFind
      <3>2. Shown[r] = {}
        BY <1>16, BlankReply DEF RetrieveFind, Shown
      <3>3. PICK a \in accounts : OnDevice(r, a)
        BY <2>3
      <3>4. R = {b \in accounts : b.deviceId = a.deviceId /\ b.address = a.address}
        BY <3>3 DEF OnDevice
      <3> QED BY <1>16, <3>1, <3>2, <3>3, <3>4
              DEF RetrieveFind, Registry!Next, Registry!Show, Shown
    <2> QED BY <2>1, <2>2, <2>3
  <1>17. ASSUME NEW r \in Requests, Fault(r) PROVE Seen
    <2>1. posted' = posted
      BY <1>17 DEF Fault
    <2>2. CASE ReadFault(r)
      BY <2>1, <2>2, RefusalShowsNothing DEF ReadFault, Called, Quiet
    <2>3. CASE SaveFault(r)
      <3>1. Shown' = Shown /\ found' = found
        BY <2>3 DEF SaveFault
      <3>2. accounts' = accounts \/ Inserts(r)
        BY <2>3 DEF SaveFault, Inserts, AccountsWith, Goto, TypeOK
      <3> QED BY <2>1, <3>1, <3>2, InsertEnrols DEF Quiet, Registry!Next
    <2>4. CASE RemoveFault(r)
      BY <2>1, <2>4, RefusalShowsNothing DEF RemoveFault, Quiet
    <2>5. CASE RevokeFault(r)
      <3>1. Shown' = Shown /\ found' = found
        BY <2>5, RefusalShowsNothing DEF RevokeFault
      <3>2. accounts' = accounts \/ Deletes(r)
        BY <2>5 DEF RevokeFault, Deletes, AccountsWithout
      <3> QED BY <2>1, <3>1, <3>2, DeleteWithdraws DEF Quiet, Registry!Next
    <2> QED BY <1>17, <2>2, <2>3, <2>4, <2>5 DEF Fault
  <1>18. ASSUME NEW r \in Requests, Answer(r) \/ LoseAnswer(r) PROVE Seen
    BY <1>18 DEF Answer, LoseAnswer, Quiet
  <1>19. ASSUME NEW served \in SUBSET {r \in Requests : ~Settled(r)}, Crash(served)
        PROVE  Seen
    BY <1>19 DEF Crash, Quiet, Shown
  <1>20. CASE Exhausted \/ UNCHANGED vars
    BY <1>20 DEF Exhausted, vars, Quiet, Shown
  <1> QED
    BY <1>1, <1>2, <1>3, <1>4, <1>5, <1>6, <1>7, <1>8, <1>9, <1>10, <1>11, <1>12,
       <1>13, <1>14, <1>15, <1>16, <1>17, <1>18, <1>19, <1>20
    DEF Next, Step, Handle

----------------------------------------------------------------------------
(* Replies are blank until they are set, once. *)

\* A reply that a step sets has a status.
Sets == \A q \in Requests : reply'[q] # reply[q] => reply'[q].code # "none"

LEMMA GotoSets ==
    ASSUME NEW r \in Requests, NEW label, Goto(r, label)
    PROVE  Sets
  BY DEF Goto, Sets

LEMMA FinishSets ==
    ASSUME TypeOK, NEW r \in Requests, NEW code \in {"ok", "rejected", "failed"}, NEW rows,
           Finish(r, code, rows)
    PROVE  Sets
  BY DEF Finish, TypeOK, Sets

LEMMA NextSets == TypeOK /\ [Next]_vars => Sets
  <1> SUFFICES ASSUME TypeOK, [Next]_vars PROVE Sets
    OBVIOUS
  <1> USE GotoSets, FinishSets
  <1>1. ASSUME NEW c \in Challenges, GetChallenge(c) PROVE Sets
    BY <1>1 DEF GetChallenge, Sets
  <1>2. ASSUME NEW r \in Requests, NEW t \in Templates, NEW c \in Credentials, Receive(r, t, c)
        PROVE  Sets
    BY <1>2 DEF Receive
  <1>3. ASSUME NEW r \in Requests, RejectDTO(r) PROVE Sets
    BY <1>3 DEF RejectDTO
  <1>4. ASSUME NEW r \in Requests, RegisterValidate(r) PROVE Sets
    BY <1>4 DEF RegisterValidate, Refuse
  <1>5. ASSUME NEW r \in Requests, RegisterSave(r) PROVE Sets
    BY <1>5 DEF RegisterSave
  <1>6. ASSUME NEW r \in Requests, RegisterFind(r) PROVE Sets
    BY <1>6 DEF RegisterFind
  <1>7. ASSUME NEW r \in Requests, RegisterRemove(r) PROVE Sets
    BY <1>7 DEF RegisterRemove
  <1>8. ASSUME NEW r \in Requests, RevokeFind(r) PROVE Sets
    BY <1>8 DEF RevokeFind, Refuse
  <1>9. ASSUME NEW r \in Requests, RevokeDelete(r) PROVE Sets
    BY <1>9 DEF RevokeDelete
  <1>10. ASSUME NEW r \in Requests, SendFind(r) PROVE Sets
    BY <1>10 DEF SendFind, Refuse
  <1>11. ASSUME NEW r \in Requests, SendPost(r) PROVE Sets
    BY <1>11 DEF SendPost
  <1>12. ASSUME NEW r \in Requests, SendAnswered(r) PROVE Sets
    BY <1>12 DEF SendAnswered
  <1>13. ASSUME NEW r \in Requests, RetrieveValidate(r) PROVE Sets
    BY <1>13 DEF RetrieveValidate, Refuse
  <1>14. ASSUME NEW r \in Requests, RetrieveRemove(r) PROVE Sets
    BY <1>14 DEF RetrieveRemove
  <1>15. ASSUME NEW r \in Requests, RetrieveByToken(r) PROVE Sets
    BY <1>15 DEF RetrieveByToken
  <1>16. ASSUME NEW r \in Requests, RetrieveFind(r) PROVE Sets
    BY <1>16 DEF RetrieveFind
  <1>17. ASSUME NEW r \in Requests, Fault(r) PROVE Sets
    <2>1. ReadFault(r) \/ SaveFault(r) \/ RemoveFault(r) \/ RevokeFault(r)
      BY <1>17 DEF Fault
    <2> QED BY <2>1 DEF ReadFault, SaveFault, RemoveFault, RevokeFault
  <1>18. ASSUME NEW r \in Requests, Answer(r) \/ LoseAnswer(r) PROVE Sets
    BY <1>18 DEF Answer, LoseAnswer
  <1>19. ASSUME NEW served \in SUBSET {r \in Requests : ~Settled(r)}, Crash(served)
        PROVE  Sets
    BY <1>19 DEF Crash, Sets
  <1>20. CASE Exhausted \/ UNCHANGED vars
    BY <1>20 DEF Exhausted, vars, Sets
  <1> QED
    BY <1>1, <1>2, <1>3, <1>4, <1>5, <1>6, <1>7, <1>8, <1>9, <1>10, <1>11, <1>12,
       <1>13, <1>14, <1>15, <1>16, <1>17, <1>18, <1>19, <1>20
    DEF Next, Step, Handle

LEMMA NextSilent == TypeOK /\ Silent /\ [Next]_vars => Silent'
  BY NextSets DEF Sets, Silent

----------------------------------------------------------------------------
LEMMA InitMaps == Init => Registry!Init /\ Silent
  <1> SUFFICES ASSUME Init PROVE Registry!Init /\ Silent
    OBVIOUS
  <1>1. \A r \in Requests : reply[r] = [code |-> "none", rows |-> {}]
    BY DEF Init
  <1>2. [r \in Requests |-> reply[r].rows] = [r \in Requests |-> {}]
    BY <1>1
  <1> QED BY <1>1, <1>2 DEF Init, Registry!Init, Silent

\* The handlers implement the registry: its rows are the account table, what a
\* request holds is the row in its handler's local variable, and each await
\* to await is one registry step or none.
THEOREM Refinement == Spec => ImplementsRegistry
  <1> DEFINE I == IInv /\ Silent
  <1>1. Init => Registry!Init /\ I
    BY InitMaps, InitInvariant
  <1>2. I /\ [Next]_vars => I'
    BY NextInvariant, NextSilent DEF IInv
  <1>3. I /\ [Next]_vars => [Registry!Next]_(Registry!vars)
    BY NextSeen, QuietStutters DEF IInv, Seen
  <1> QED
    BY <1>1, <1>2, <1>3, PTL DEF Spec, ImplementsRegistry, Registry!Spec
=============================================================================
