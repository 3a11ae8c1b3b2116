--------------------------- MODULE BackendProofs ---------------------------
(***************************************************************************)
(* The promises of BackendProperties, proved for any number of requests,   *)
(* clients, crashes and faults.                                            *)
(***************************************************************************)
EXTENDS BackendInvariant, TLAPS

\* The row a register builds is an account, and none of the placeholders.
LEMMA NewAccountType ==
    ASSUME NEW r \in Requests, body[r] \in Body, credential[r] \in Challenges
    PROVE  NewAccount(r) \in Account /\ NewAccount(r) # None
  <1>1. /\ body[r].accountPublicKey \in Keys /\ body[r].backendUrl \in Urls
        /\ body[r].protocolIdentifier \in Protocols /\ body[r].deviceId \in Devices
    BY DEF Body
  <1>2. NewAccount(r) \in Account
    BY <1>1 DEF NewAccount, Account, Address, Addresses, AccessToken, ManagementToken, Tokens
  <1> QED
    BY <1>2, NoneAssumption

\* The two ways a handler moves keep the types of pc and reply.
LEMMA FinishType ==
    ASSUME TypeOK, NEW r \in Requests, NEW code \in Codes, NEW rows \in SUBSET Account,
           Finish(r, code, rows)
    PROVE  pc' \in [Requests -> Labels] /\ reply' \in [Requests -> Reply]
  <1>1. [code |-> code, rows |-> rows] \in Reply
    BY DEF Reply
  <1> QED
    BY <1>1 DEF Finish, TypeOK, Labels

LEMMA GotoType ==
    ASSUME TypeOK, NEW r \in Requests, NEW label \in Labels, Goto(r, label)
    PROVE  pc' \in [Requests -> Labels] /\ reply' \in [Requests -> Reply]
  BY DEF Goto, TypeOK

LEMMA HoldType ==
    ASSUME TypeOK, NEW r \in Requests, NEW a \in Account, Hold(r, a)
    PROVE  found' \in [Requests -> Account \cup {None}]
  BY DEF Hold, TypeOK

LEMMA CodeTypes == /\ \A code \in {"ok", "rejected", "failed"} : code \in Codes
                   /\ {} \in SUBSET Account
  BY DEF Codes

LEMMA LabelTypes ==
    \A label \in {"received", "validated", "refused", "saved", "found", "posting",
                  "proved", "done", "lost"} : label \in Labels
  BY DEF Labels

LEMMA NoneIsNoRow == \A a \in Account : a # None
  BY NoneAssumption

LEMMA InitTyped == Init => TypeOK /\ Control
  BY BoundsAssumption DEF Init, TypeOK, Control, Progress, Reply, Codes, Labels, Credentials

----------------------------------------------------------------------------
(* Type correctness, with what a handler has established at each await. *)

LEMMA NextTyped == TypeOK /\ Control /\ [Next]_vars => TypeOK'
  <1> SUFFICES ASSUME TypeOK, Control, [Next]_vars PROVE TypeOK'
    OBVIOUS
  <1> USE DEF tables, inputs, limits
  <1> USE FinishType, GotoType, HoldType, CodeTypes, LabelTypes
  <1>1. ASSUME NEW c \in Challenges, GetChallenge(c) PROVE TypeOK'
    BY <1>1 DEF GetChallenge, TypeOK
  <1>2. ASSUME NEW r \in Requests, NEW t \in Templates, NEW c \in Credentials, Receive(r, t, c)
        PROVE  TypeOK'
    BY <1>2, BodiesAssumption DEF Receive, TypeOK
  <1>3. ASSUME NEW r \in Requests, RejectDTO(r) PROVE TypeOK'
    BY <1>3 DEF RejectDTO, TypeOK
  <1>4. ASSUME NEW r \in Requests, RegisterValidate(r) PROVE TypeOK'
    BY <1>4 DEF RegisterValidate, Refuse, TypeOK
  <1>5. ASSUME NEW r \in Requests, RegisterSave(r) PROVE TypeOK'
    <2>1. NewAccount(r) \in Account
      BY <1>5, NewAccountType DEF RegisterSave, TypeOK, Control, Progress
    <2>2. accounts' \subseteq Account /\ found' \in [Requests -> Account \cup {None}]
      BY <1>5, <2>1 DEF RegisterSave, AccountsWith, TypeOK
    <2>3. pc' \in [Requests -> Labels] /\ reply' \in [Requests -> Reply]
      BY <1>5 DEF RegisterSave
    <2> QED BY <1>5, <2>2, <2>3 DEF RegisterSave, TypeOK
  <1>6. ASSUME NEW r \in Requests, RegisterFind(r) PROVE TypeOK'
    <2>1. pc' \in [Requests -> Labels] /\ reply' \in [Requests -> Reply]
      BY <1>6 DEF RegisterFind
    <2>2. found' \in [Requests -> Account \cup {None}]
      BY <1>6 DEF RegisterFind, TypeOK
    <2> QED BY <1>6, <2>1, <2>2 DEF RegisterFind, TypeOK
  <1>7. ASSUME NEW r \in Requests, RegisterRemove(r) PROVE TypeOK'
    <2>1. found[r] # None => {found[r]} \in SUBSET Account
      BY DEF TypeOK
    <2>2. pc' \in [Requests -> Labels] /\ reply' \in [Requests -> Reply]
      BY <1>7, <2>1 DEF RegisterRemove
    <2> QED BY <1>7, <2>2 DEF RegisterRemove, ChallengesWithout, TypeOK
  <1>8. ASSUME NEW r \in Requests, RevokeFind(r) PROVE TypeOK'
    <2>1. pc' \in [Requests -> Labels] /\ reply' \in [Requests -> Reply]
      BY <1>8 DEF RevokeFind, Refuse
    <2>2. found' \in [Requests -> Account \cup {None}]
      BY <1>8 DEF RevokeFind, TypeOK
    <2> QED BY <1>8, <2>1, <2>2 DEF RevokeFind, TypeOK
  <1>9. ASSUME NEW r \in Requests, RevokeDelete(r) PROVE TypeOK'
    BY <1>9 DEF RevokeDelete, AccountsWithout, TypeOK
  <1>10. ASSUME NEW r \in Requests, SendFind(r) PROVE TypeOK'
    <2>1. pc' \in [Requests -> Labels] /\ reply' \in [Requests -> Reply]
      BY <1>10 DEF SendFind, Refuse
    <2>2. found' \in [Requests -> Account \cup {None}]
      BY <1>10 DEF SendFind, TypeOK
    <2> QED BY <1>10, <2>1, <2>2 DEF SendFind, TypeOK
  <1>11. ASSUME NEW r \in Requests, SendPost(r) PROVE TypeOK'
    <2>1. found[r].backendUrl \in Urls /\ found[r].address \in Addresses
      BY <1>11 DEF SendPost, Account, TypeOK, Control, Progress
    <2> QED BY <1>11, <2>1 DEF SendPost, Delivery, TypeOK
  <1>12. ASSUME NEW r \in Requests, SendAnswered(r) PROVE TypeOK'
    BY <1>12 DEF SendAnswered, TypeOK
  <1>13. ASSUME NEW r \in Requests, RetrieveValidate(r) PROVE TypeOK'
    BY <1>13 DEF RetrieveValidate, Refuse, TypeOK
  <1>14. ASSUME NEW r \in Requests, RetrieveRemove(r) PROVE TypeOK'
    BY <1>14 DEF RetrieveRemove, ChallengesWithout, TypeOK
  <1>15. ASSUME NEW r \in Requests, RetrieveByToken(r) PROVE TypeOK'
    <2>1. pc' \in [Requests -> Labels] /\ reply' \in [Requests -> Reply]
      BY <1>15 DEF RetrieveByToken
    <2>2. found' \in [Requests -> Account \cup {None}]
      BY <1>15 DEF RetrieveByToken, TypeOK
    <2> QED BY <1>15, <2>1, <2>2 DEF RetrieveByToken, TypeOK
  <1>16. ASSUME NEW r \in Requests, RetrieveFind(r) PROVE TypeOK'
    BY <1>16 DEF RetrieveFind, TypeOK
  <1>17. ASSUME NEW r \in Requests, Fault(r) PROVE TypeOK'
    <2>1. CASE ReadFault(r)
      BY <1>17, <2>1, BoundsAssumption DEF Fault, ReadFault, TypeOK
    <2>2. CASE SaveFault(r)
      <3>1. NewAccount(r) \in Account
        BY <2>2, NewAccountType DEF SaveFault, TypeOK, Control, Progress
      <3> QED BY <1>17, <2>2, <3>1, BoundsAssumption DEF Fault, SaveFault, AccountsWith, TypeOK
    <2>3. CASE RemoveFault(r)
      BY <1>17, <2>3, BoundsAssumption DEF Fault, RemoveFault, ChallengesWithout, TypeOK
    <2>4. CASE RevokeFault(r)
      BY <1>17, <2>4, BoundsAssumption DEF Fault, RevokeFault, AccountsWithout, TypeOK
    <2> QED BY <1>17, <2>1, <2>2, <2>3, <2>4 DEF Fault, TypeOK
  <1>18. ASSUME NEW r \in Requests, Answer(r) \/ LoseAnswer(r) PROVE TypeOK'
    BY <1>18 DEF Answer, LoseAnswer, TypeOK
  <1>19. ASSUME NEW served \in SUBSET {r \in Requests : ~Settled(r)}, Crash(served)
        PROVE  TypeOK'
    BY <1>19, BoundsAssumption DEF Crash, TypeOK
  <1>20. CASE Exhausted \/ UNCHANGED vars
    BY <1>20 DEF Exhausted, vars, TypeOK
  <1> QED
    BY <1>1, <1>2, <1>3, <1>4, <1>5, <1>6, <1>7, <1>8, <1>9, <1>10, <1>11, <1>12,
       <1>13, <1>14, <1>15, <1>16, <1>17, <1>18, <1>19, <1>20
    DEF Next, Step, Handle

LEMMA NextControlled == TypeOK /\ Control /\ [Next]_vars => Control'
  <1> SUFFICES ASSUME TypeOK, Control, [Next]_vars PROVE Control'
    OBVIOUS
  <1> USE DEF TypeOK, Control, Progress, tables, inputs, limits, Goto, Finish, Hold,
              Reply, Labels, NeedsChallenge, IsSupported, Called
  <1>1. ASSUME NEW c \in Challenges, GetChallenge(c) PROVE Control'
    BY <1>1 DEF GetChallenge
  <1>2. ASSUME NEW r \in Requests, NEW t \in Templates, NEW c \in Credentials, Receive(r, t, c) PROVE Control'
    BY <1>2, BodiesAssumption DEF Receive
  <1>3. ASSUME NEW r \in Requests, RejectDTO(r) PROVE Control'
    BY <1>3 DEF RejectDTO
  <1>4. ASSUME NEW r \in Requests, RegisterValidate(r) PROVE Control'
    BY <1>4 DEF RegisterValidate, Refuse
  <1>5. ASSUME NEW r \in Requests, RegisterSave(r) PROVE Control'
    BY <1>5 DEF RegisterSave, SignatureValid
  <1>6. ASSUME NEW r \in Requests, RegisterFind(r) PROVE Control'
    BY <1>6 DEF RegisterFind
  <1>7. ASSUME NEW r \in Requests, RegisterRemove(r) PROVE Control'
    BY <1>7 DEF RegisterRemove, ChallengesWithout
  <1>8. ASSUME NEW r \in Requests, RevokeFind(r) PROVE Control'
    <2>1. CASE \E a \in accounts : Manages(r, a) /\ Hold(r, a) /\ Goto(r, "found")
      BY <1>8, <2>1, NoneIsNoRow DEF RevokeFind
    <2>2. CASE Refuse(r) /\ UNCHANGED found
      BY <1>8, <2>2 DEF RevokeFind, Refuse
    <2> QED BY <1>8, <2>1, <2>2 DEF RevokeFind
  <1>9. ASSUME NEW r \in Requests, RevokeDelete(r) PROVE Control'
    BY <1>9 DEF RevokeDelete
  <1>10. ASSUME NEW r \in Requests, SendFind(r) PROVE Control'
    BY <1>10, NoneIsNoRow DEF SendFind, Refuse
  <1>11. ASSUME NEW r \in Requests, SendPost(r) PROVE Control'
    BY <1>11 DEF SendPost
  <1>12. ASSUME NEW r \in Requests, SendAnswered(r) PROVE Control'
    BY <1>12 DEF SendAnswered
  <1>13. ASSUME NEW r \in Requests, RetrieveValidate(r) PROVE Control'
    BY <1>13 DEF RetrieveValidate, Refuse
  <1>14. ASSUME NEW r \in Requests, RetrieveRemove(r) PROVE Control'
    BY <1>14 DEF RetrieveRemove, ChallengesWithout, SignatureValid
  <1>15. ASSUME NEW r \in Requests, RetrieveByToken(r) PROVE Control'
    BY <1>15, NoneIsNoRow DEF RetrieveByToken, Controls
  <1>16. ASSUME NEW r \in Requests, RetrieveFind(r) PROVE Control'
    BY <1>16 DEF RetrieveFind
  <1>17. ASSUME NEW r \in Requests, Fault(r) PROVE Control'
    <2>1. CASE ReadFault(r)
      BY <1>17, <2>1 DEF Fault, ReadFault
    <2>2. CASE SaveFault(r)
      BY <1>17, <2>2 DEF Fault, SaveFault, SignatureValid
    <2>3. CASE RemoveFault(r)
      BY <1>17, <2>3 DEF Fault, RemoveFault, ChallengesWithout
    <2>4. CASE RevokeFault(r)
      BY <1>17, <2>4 DEF Fault, RevokeFault
    <2> QED BY <1>17, <2>1, <2>2, <2>3, <2>4 DEF Fault
  <1>18. ASSUME NEW r \in Requests, Answer(r) \/ LoseAnswer(r) PROVE Control'
    BY <1>18 DEF Answer, LoseAnswer
  <1>19. ASSUME NEW served \in SUBSET {r \in Requests : ~Settled(r)}, Crash(served)
        PROVE  Control'
    BY <1>19 DEF Crash, Settled
  <1>20. CASE Exhausted \/ UNCHANGED vars
    BY <1>20 DEF Exhausted, vars
  <1> QED
    BY <1>1, <1>2, <1>3, <1>4, <1>5, <1>6, <1>7, <1>8, <1>9, <1>10, <1>11, <1>12,
       <1>13, <1>14, <1>15, <1>16, <1>17, <1>18, <1>19, <1>20
    DEF Next, Step, Handle

----------------------------------------------------------------------------
(* What every step leaves alone, and which steps touch the tables. *)

\* What a request said never changes, what its handler holds and answers is
\* fixed once it is set, and no handler goes back before its save.
Stable ==
    /\ issued \subseteq issued'
    /\ challenges' \cap issued \subseteq challenges
    /\ faults' = 0 => faults = 0
    /\ \A r \in Requests : pc[r] # "idle" =>
          /\ pc'[r] # "idle"
          /\ body'[r] = body[r] /\ credential'[r] = credential[r]
          /\ prior'[r] = prior[r]
    /\ \A r \in Requests :
          /\ ~Early(r) => pc'[r] \notin {"idle", "received", "validated"}
          /\ found[r] # None => found'[r] = found[r]
          /\ reply[r].code # "none" => reply'[r] = reply[r]
          /\ pc[r] = "done" => pc'[r] = "done"

LEMMA NextStable == TypeOK /\ Control /\ [Next]_vars => Stable
  <1> SUFFICES ASSUME TypeOK, Control, [Next]_vars PROVE Stable
    OBVIOUS
  <1> USE DEF Stable, TypeOK, Control, Progress, Early, tables, inputs, limits, Goto, Finish,
              Hold, Called
  <1>1. ASSUME NEW c \in Challenges, GetChallenge(c) PROVE Stable
    BY <1>1 DEF GetChallenge
  <1>2. ASSUME NEW r \in Requests, NEW t \in Templates, NEW c \in Credentials, Receive(r, t, c)
        PROVE  Stable
    BY <1>2 DEF Receive
  <1>3. ASSUME NEW r \in Requests, RejectDTO(r) PROVE Stable
    BY <1>3 DEF RejectDTO
  <1>4. ASSUME NEW r \in Requests, RegisterValidate(r) PROVE Stable
    BY <1>4 DEF RegisterValidate, Refuse
  <1>5. ASSUME NEW r \in Requests, RegisterSave(r) PROVE Stable
    BY <1>5 DEF RegisterSave
  <1>6. ASSUME NEW r \in Requests, RegisterFind(r) PROVE Stable
    BY <1>6 DEF RegisterFind
  <1>7. ASSUME NEW r \in Requests, RegisterRemove(r) PROVE Stable
    BY <1>7 DEF RegisterRemove, ChallengesWithout
  <1>8. ASSUME NEW r \in Requests, RevokeFind(r) PROVE Stable
    BY <1>8 DEF RevokeFind, Refuse
  <1>9. ASSUME NEW r \in Requests, RevokeDelete(r) PROVE Stable
    BY <1>9 DEF RevokeDelete
  <1>10. ASSUME NEW r \in Requests, SendFind(r) PROVE Stable
    BY <1>10 DEF SendFind, Refuse
  <1>11. ASSUME NEW r \in Requests, SendPost(r) PROVE Stable
    BY <1>11 DEF SendPost
  <1>12. ASSUME NEW r \in Requests, SendAnswered(r) PROVE Stable
    BY <1>12 DEF SendAnswered
  <1>13. ASSUME NEW r \in Requests, RetrieveValidate(r) PROVE Stable
    BY <1>13 DEF RetrieveValidate, Refuse
  <1>14. ASSUME NEW r \in Requests, RetrieveRemove(r) PROVE Stable
    BY <1>14 DEF RetrieveRemove, ChallengesWithout
  <1>15. ASSUME NEW r \in Requests, RetrieveByToken(r) PROVE Stable
    BY <1>15 DEF RetrieveByToken
  <1>16. ASSUME NEW r \in Requests, RetrieveFind(r) PROVE Stable
    BY <1>16 DEF RetrieveFind
  <1>17. ASSUME NEW r \in Requests, Fault(r) PROVE Stable
    <2>1. CASE ReadFault(r)
      BY <1>17, <2>1, BoundsAssumption DEF Fault, ReadFault
    <2>2. CASE SaveFault(r)
      BY <1>17, <2>2, BoundsAssumption DEF Fault, SaveFault
    <2>3. CASE RemoveFault(r)
      BY <1>17, <2>3, BoundsAssumption DEF Fault, RemoveFault, ChallengesWithout
    <2>4. CASE RevokeFault(r)
      BY <1>17, <2>4, BoundsAssumption DEF Fault, RevokeFault
    <2> QED BY <1>17, <2>1, <2>2, <2>3, <2>4 DEF Fault
  <1>18. ASSUME NEW r \in Requests, Answer(r) \/ LoseAnswer(r) PROVE Stable
    BY <1>18 DEF Answer, LoseAnswer
  <1>19. ASSUME NEW served \in SUBSET {r \in Requests : ~Settled(r)}, Crash(served)
        PROVE  Stable
    BY <1>19 DEF Crash, Settled
  <1>20. CASE Exhausted \/ UNCHANGED vars
    BY <1>20 DEF Exhausted, vars
  <1> QED
    BY <1>1, <1>2, <1>3, <1>4, <1>5, <1>6, <1>7, <1>8, <1>9, <1>10, <1>11, <1>12,
       <1>13, <1>14, <1>15, <1>16, <1>17, <1>18, <1>19, <1>20
    DEF Next, Step, Handle

LEMMA AccountsFootprint ==
    ASSUME [Next]_vars
    PROVE  \/ accounts' = accounts
           \/ \E r \in Requests : \/ RegisterSave(r) \/ RevokeDelete(r)
                                  \/ Fault(r) /\ (SaveFault(r) \/ RevokeFault(r))
  <1> DEFINE G == \/ accounts' = accounts
                  \/ \E r \in Requests : \/ RegisterSave(r) \/ RevokeDelete(r)
                                         \/ Fault(r) /\ (SaveFault(r) \/ RevokeFault(r))
  <1> SUFFICES G
    OBVIOUS
  <1> USE DEF tables
  <1>1. ASSUME NEW c \in Challenges, GetChallenge(c) PROVE G
    BY <1>1 DEF GetChallenge
  <1>2. ASSUME NEW r \in Requests, NEW t \in Templates, NEW c \in Credentials, Receive(r, t, c)
        PROVE  G
    BY <1>2 DEF Receive
  <1>3. ASSUME NEW r \in Requests, RejectDTO(r) PROVE G
    BY <1>3 DEF RejectDTO
  <1>4. ASSUME NEW r \in Requests, RegisterValidate(r) PROVE G
    BY <1>4 DEF RegisterValidate
  <1>5. ASSUME NEW r \in Requests, RegisterSave(r) PROVE G
    BY <1>5 DEF RegisterSave
  <1>6. ASSUME NEW r \in Requests, RegisterFind(r) PROVE G
    BY <1>6 DEF RegisterFind
  <1>7. ASSUME NEW r \in Requests, RegisterRemove(r) PROVE G
    BY <1>7 DEF RegisterRemove
  <1>8. ASSUME NEW r \in Requests, RevokeFind(r) PROVE G
    BY <1>8 DEF RevokeFind
  <1>9. ASSUME NEW r \in Requests, RevokeDelete(r) PROVE G
    BY <1>9 DEF RevokeDelete
  <1>10. ASSUME NEW r \in Requests, SendFind(r) PROVE G
    BY <1>10 DEF SendFind
  <1>11. ASSUME NEW r \in Requests, SendPost(r) PROVE G
    BY <1>11 DEF SendPost
  <1>12. ASSUME NEW r \in Requests, SendAnswered(r) PROVE G
    BY <1>12 DEF SendAnswered
  <1>13. ASSUME NEW r \in Requests, RetrieveValidate(r) PROVE G
    BY <1>13 DEF RetrieveValidate
  <1>14. ASSUME NEW r \in Requests, RetrieveRemove(r) PROVE G
    BY <1>14 DEF RetrieveRemove
  <1>15. ASSUME NEW r \in Requests, RetrieveByToken(r) PROVE G
    BY <1>15 DEF RetrieveByToken
  <1>16. ASSUME NEW r \in Requests, RetrieveFind(r) PROVE G
    BY <1>16 DEF RetrieveFind
  <1>17. ASSUME NEW r \in Requests, Fault(r) PROVE G
    <2>1. CASE ReadFault(r)
      BY <1>17, <2>1 DEF Fault, ReadFault
    <2>2. CASE SaveFault(r)
      BY <1>17, <2>2 DEF Fault, SaveFault
    <2>3. CASE RemoveFault(r)
      BY <1>17, <2>3 DEF Fault, RemoveFault
    <2>4. CASE RevokeFault(r)
      BY <1>17, <2>4 DEF Fault, RevokeFault
    <2> QED BY <1>17, <2>1, <2>2, <2>3, <2>4 DEF Fault
  <1>18. ASSUME NEW r \in Requests, Answer(r) \/ LoseAnswer(r) PROVE G
    BY <1>18 DEF Answer, LoseAnswer
  <1>19. ASSUME NEW served \in SUBSET {r \in Requests : ~Settled(r)}, Crash(served)
        PROVE  G
    BY <1>19 DEF Crash, Settled
  <1>20. CASE Exhausted \/ UNCHANGED vars
    BY <1>20 DEF Exhausted, vars
  <1> QED
    BY <1>1, <1>2, <1>3, <1>4, <1>5, <1>6, <1>7, <1>8, <1>9, <1>10, <1>11, <1>12,
       <1>13, <1>14, <1>15, <1>16, <1>17, <1>18, <1>19, <1>20
    DEF Next, Step, Handle

LEMMA FoundFootprint ==
    ASSUME [Next]_vars
    PROVE  \/ found' = found
           \/ \E r \in Requests : \/ RegisterSave(r) \/ RegisterFind(r) \/ RevokeFind(r)
                                  \/ SendFind(r) \/ RetrieveByToken(r)
  <1> DEFINE G == \/ found' = found
                  \/ \E r \in Requests :
                        \/ RegisterSave(r) \/ RegisterFind(r) \/ RevokeFind(r)
                        \/ SendFind(r) \/ RetrieveByToken(r)
  <1> SUFFICES G
    OBVIOUS
  <1>1. ASSUME NEW c \in Challenges, GetChallenge(c) PROVE G
    BY <1>1 DEF GetChallenge
  <1>2. ASSUME NEW r \in Requests, NEW t \in Templates, NEW c \in Credentials, Receive(r, t, c)
        PROVE  G
    BY <1>2 DEF Receive
  <1>3. ASSUME NEW r \in Requests, RejectDTO(r) PROVE G
    BY <1>3 DEF RejectDTO
  <1>4. ASSUME NEW r \in Requests, RegisterValidate(r) PROVE G
    BY <1>4 DEF RegisterValidate
  <1>5. ASSUME NEW r \in Requests, RegisterSave(r) PROVE G
    BY <1>5 DEF RegisterSave
  <1>6. ASSUME NEW r \in Requests, RegisterFind(r) PROVE G
    BY <1>6 DEF RegisterFind
  <1>7. ASSUME NEW r \in Requests, RegisterRemove(r) PROVE G
    BY <1>7 DEF RegisterRemove
  <1>8. ASSUME NEW r \in Requests, RevokeFind(r) PROVE G
    BY <1>8 DEF RevokeFind
  <1>9. ASSUME NEW r \in Requests, RevokeDelete(r) PROVE G
    BY <1>9 DEF RevokeDelete
  <1>10. ASSUME NEW r \in Requests, SendFind(r) PROVE G
    BY <1>10 DEF SendFind
  <1>11. ASSUME NEW r \in Requests, SendPost(r) PROVE G
    BY <1>11 DEF SendPost
  <1>12. ASSUME NEW r \in Requests, SendAnswered(r) PROVE G
    BY <1>12 DEF SendAnswered
  <1>13. ASSUME NEW r \in Requests, RetrieveValidate(r) PROVE G
    BY <1>13 DEF RetrieveValidate
  <1>14. ASSUME NEW r \in Requests, RetrieveRemove(r) PROVE G
    BY <1>14 DEF RetrieveRemove
  <1>15. ASSUME NEW r \in Requests, RetrieveByToken(r) PROVE G
    BY <1>15 DEF RetrieveByToken
  <1>16. ASSUME NEW r \in Requests, RetrieveFind(r) PROVE G
    BY <1>16 DEF RetrieveFind
  <1>17. ASSUME NEW r \in Requests, Fault(r) PROVE G
    <2>1. CASE ReadFault(r)
      BY <1>17, <2>1 DEF Fault, ReadFault
    <2>2. CASE SaveFault(r)
      BY <1>17, <2>2 DEF Fault, SaveFault
    <2>3. CASE RemoveFault(r)
      BY <1>17, <2>3 DEF Fault, RemoveFault
    <2>4. CASE RevokeFault(r)
      BY <1>17, <2>4 DEF Fault, RevokeFault
    <2> QED BY <1>17, <2>1, <2>2, <2>3, <2>4 DEF Fault
  <1>18. ASSUME NEW r \in Requests, Answer(r) \/ LoseAnswer(r) PROVE G
    BY <1>18 DEF Answer, LoseAnswer
  <1>19. ASSUME NEW served \in SUBSET {r \in Requests : ~Settled(r)}, Crash(served)
        PROVE  G
    BY <1>19 DEF Crash, Settled
  <1>20. CASE Exhausted \/ UNCHANGED vars
    BY <1>20 DEF Exhausted, vars
  <1> QED
    BY <1>1, <1>2, <1>3, <1>4, <1>5, <1>6, <1>7, <1>8, <1>9, <1>10, <1>11, <1>12,
       <1>13, <1>14, <1>15, <1>16, <1>17, <1>18, <1>19, <1>20
    DEF Next, Step, Handle
\* Which action brings a request to a label, and which sends a post.
Moves(r) ==
    /\ pc'[r] # pc[r] =>
          /\ pc[r] = "idle" \/ pc'[r] = "received" =>
                \E t \in Templates, c \in Credentials : Receive(r, t, c)
          /\ pc'[r] = "validated" => credential[r] \in challenges /\ pc[r] = "received"
          /\ pc'[r] = "refused" =>
                /\ pc[r] = "validated" /\ body[r].op = "register"
                /\ faults' = 0 => RegisterSave(r)
          /\ pc'[r] = "saved" => RegisterSave(r) \/ RegisterFind(r)
          /\ pc'[r] = "found" => RevokeFind(r) \/ SendFind(r)
          /\ pc'[r] = "posting" => SendPost(r)
          /\ pc'[r] = "proved" => RetrieveRemove(r) \/ RetrieveByToken(r)
    /\ \A d \in posted' \ posted : d.by = r => pc[r] = "found" /\ body[r].op = "send"

LEMMA NextMoves ==
    TypeOK /\ Control /\ [Next]_vars => \A q \in Requests : Moves(q)
  <1> SUFFICES ASSUME TypeOK, Control, [Next]_vars, NEW q \in Requests PROVE Moves(q)
    OBVIOUS
  <1> USE DEF Moves, TypeOK, tables, inputs, limits, Goto, Finish, Called
  <1>1. ASSUME NEW c \in Challenges, GetChallenge(c) PROVE Moves(q)
    BY <1>1 DEF GetChallenge
  <1>2. ASSUME NEW r \in Requests, NEW t \in Templates, NEW c \in Credentials, Receive(r, t, c)
        PROVE  Moves(q)
    BY <1>2 DEF Receive
  <1>3. ASSUME NEW r \in Requests, RejectDTO(r) PROVE Moves(q)
    BY <1>3 DEF RejectDTO
  <1>4. ASSUME NEW r \in Requests, RegisterValidate(r) PROVE Moves(q)
    BY <1>4 DEF RegisterValidate, Refuse
  <1>5. ASSUME NEW r \in Requests, RegisterSave(r) PROVE Moves(q)
    BY <1>5 DEF RegisterSave
  <1>6. ASSUME NEW r \in Requests, RegisterFind(r) PROVE Moves(q)
    BY <1>6 DEF RegisterFind
  <1>7. ASSUME NEW r \in Requests, RegisterRemove(r) PROVE Moves(q)
    BY <1>7 DEF RegisterRemove
  <1>8. ASSUME NEW r \in Requests, RevokeFind(r) PROVE Moves(q)
    BY <1>8 DEF RevokeFind, Refuse
  <1>9. ASSUME NEW r \in Requests, RevokeDelete(r) PROVE Moves(q)
    BY <1>9 DEF RevokeDelete
  <1>10. ASSUME NEW r \in Requests, SendFind(r) PROVE Moves(q)
    BY <1>10 DEF SendFind, Refuse
  <1>11. ASSUME NEW r \in Requests, SendPost(r) PROVE Moves(q)
    BY <1>11 DEF SendPost
  <1>12. ASSUME NEW r \in Requests, SendAnswered(r) PROVE Moves(q)
    BY <1>12 DEF SendAnswered
  <1>13. ASSUME NEW r \in Requests, RetrieveValidate(r) PROVE Moves(q)
    BY <1>13 DEF RetrieveValidate, Refuse
  <1>14. ASSUME NEW r \in Requests, RetrieveRemove(r) PROVE Moves(q)
    BY <1>14 DEF RetrieveRemove
  <1>15. ASSUME NEW r \in Requests, RetrieveByToken(r) PROVE Moves(q)
    BY <1>15 DEF RetrieveByToken
  <1>16. ASSUME NEW r \in Requests, RetrieveFind(r) PROVE Moves(q)
    BY <1>16 DEF RetrieveFind
  <1>17. ASSUME NEW r \in Requests, Fault(r) PROVE Moves(q)
    <2>1. CASE ReadFault(r)
      BY <1>17, <2>1, BoundsAssumption DEF Fault, ReadFault
    <2>2. CASE SaveFault(r)
      BY <1>17, <2>2, BoundsAssumption DEF Fault, SaveFault
    <2>3. CASE RemoveFault(r)
      BY <1>17, <2>3, BoundsAssumption DEF Fault, RemoveFault
    <2>4. CASE RevokeFault(r)
      BY <1>17, <2>4, BoundsAssumption DEF Fault, RevokeFault
    <2> QED BY <1>17, <2>1, <2>2, <2>3, <2>4 DEF Fault
  <1>18. ASSUME NEW r \in Requests, Answer(r) \/ LoseAnswer(r) PROVE Moves(q)
    BY <1>18 DEF Answer, LoseAnswer
  <1>19. ASSUME NEW served \in SUBSET {r \in Requests : ~Settled(r)}, Crash(served)
        PROVE  Moves(q)
    BY <1>19 DEF Crash, Settled
  <1>20. CASE Exhausted \/ UNCHANGED vars
    BY <1>20 DEF Exhausted, vars
  <1> QED
    BY <1>1, <1>2, <1>3, <1>4, <1>5, <1>6, <1>7, <1>8, <1>9, <1>10, <1>11, <1>12,
       <1>13, <1>14, <1>15, <1>16, <1>17, <1>18, <1>19, <1>20
    DEF Next, Step, Handle

\* Only a request that arrives learns which others were answered.
LEMMA ReceivesPrior ==
    ASSUME [Next]_vars
    PROVE  \/ prior' = prior
           \/ \E r \in Requests, t \in Templates, c \in Credentials : Receive(r, t, c)
  <1> DEFINE G == \/ prior' = prior
                  \/ \E r \in Requests, t \in Templates, c \in Credentials : Receive(r, t, c)
  <1> SUFFICES G
    OBVIOUS
  <1> USE DEF inputs
  <1>1. ASSUME NEW c \in Challenges, GetChallenge(c) PROVE G
    BY <1>1 DEF GetChallenge
  <1>2. ASSUME NEW r \in Requests, NEW t \in Templates, NEW c \in Credentials, Receive(r, t, c)
        PROVE  G
    BY <1>2 DEF Receive
  <1>3. ASSUME NEW r \in Requests, RejectDTO(r) PROVE G
    BY <1>3 DEF RejectDTO
  <1>4. ASSUME NEW r \in Requests, RegisterValidate(r) PROVE G
    BY <1>4 DEF RegisterValidate
  <1>5. ASSUME NEW r \in Requests, RegisterSave(r) PROVE G
    BY <1>5 DEF RegisterSave
  <1>6. ASSUME NEW r \in Requests, RegisterFind(r) PROVE G
    BY <1>6 DEF RegisterFind
  <1>7. ASSUME NEW r \in Requests, RegisterRemove(r) PROVE G
    BY <1>7 DEF RegisterRemove
  <1>8. ASSUME NEW r \in Requests, RevokeFind(r) PROVE G
    BY <1>8 DEF RevokeFind
  <1>9. ASSUME NEW r \in Requests, RevokeDelete(r) PROVE G
    BY <1>9 DEF RevokeDelete
  <1>10. ASSUME NEW r \in Requests, SendFind(r) PROVE G
    BY <1>10 DEF SendFind
  <1>11. ASSUME NEW r \in Requests, SendPost(r) PROVE G
    BY <1>11 DEF SendPost
  <1>12. ASSUME NEW r \in Requests, SendAnswered(r) PROVE G
    BY <1>12 DEF SendAnswered
  <1>13. ASSUME NEW r \in Requests, RetrieveValidate(r) PROVE G
    BY <1>13 DEF RetrieveValidate
  <1>14. ASSUME NEW r \in Requests, RetrieveRemove(r) PROVE G
    BY <1>14 DEF RetrieveRemove
  <1>15. ASSUME NEW r \in Requests, RetrieveByToken(r) PROVE G
    BY <1>15 DEF RetrieveByToken
  <1>16. ASSUME NEW r \in Requests, RetrieveFind(r) PROVE G
    BY <1>16 DEF RetrieveFind
  <1>17. ASSUME NEW r \in Requests, Fault(r) PROVE G
    <2>1. CASE ReadFault(r)
      BY <1>17, <2>1 DEF Fault, ReadFault
    <2>2. CASE SaveFault(r)
      BY <1>17, <2>2 DEF Fault, SaveFault
    <2>3. CASE RemoveFault(r)
      BY <1>17, <2>3 DEF Fault, RemoveFault
    <2>4. CASE RevokeFault(r)
      BY <1>17, <2>4 DEF Fault, RevokeFault
    <2> QED BY <1>17, <2>1, <2>2, <2>3, <2>4 DEF Fault
  <1>18. ASSUME NEW r \in Requests, Answer(r) \/ LoseAnswer(r) PROVE G
    BY <1>18 DEF Answer, LoseAnswer
  <1>19. ASSUME NEW served \in SUBSET {r \in Requests : ~Settled(r)}, Crash(served)
        PROVE  G
    BY <1>19 DEF Crash, Settled
  <1>20. CASE Exhausted \/ UNCHANGED vars
    BY <1>20 DEF Exhausted, vars
  <1> QED
    BY <1>1, <1>2, <1>3, <1>4, <1>5, <1>6, <1>7, <1>8, <1>9, <1>10, <1>11, <1>12,
       <1>13, <1>14, <1>15, <1>16, <1>17, <1>18, <1>19, <1>20
    DEF Next, Step, Handle

\* Which actions set a reply that matters below.
Answers(r) ==
    reply[r].code = "none" /\ reply'[r].code # "none" =>
        /\ pc'[r] = "answering" /\ pc[r] # "idle"
        /\ reply'[r].code = "ok" =>
              RegisterRemove(r) \/ RevokeDelete(r) \/ SendAnswered(r) \/ RetrieveFind(r)
        /\ /\ reply'[r].code = "failed" /\ body[r].op = "register"
           /\ SignatureValid(r) /\ credential[r] # None /\ faults' = 0
           => RegisterRemove(r)
        /\ /\ reply'[r].code = "rejected" /\ body[r].op = "retrieveByToken"
           /\ IsSupported(r) /\ faults' = 0
           => RejectDTO(r) \/ RetrieveByToken(r)

LEMMA NextAnswers ==
    TypeOK /\ Control /\ [Next]_vars => \A q \in Requests : Answers(q)
  <1> SUFFICES ASSUME TypeOK, Control, [Next]_vars, NEW q \in Requests PROVE Answers(q)
    OBVIOUS
  <1> USE DEF Answers, TypeOK, Control, Progress, tables, inputs, limits, Goto, Finish, Called
  <1>1. ASSUME NEW c \in Challenges, GetChallenge(c) PROVE Answers(q)
    BY <1>1 DEF GetChallenge
  <1>2. ASSUME NEW r \in Requests, NEW t \in Templates, NEW c \in Credentials, Receive(r, t, c)
        PROVE  Answers(q)
    BY <1>2 DEF Receive
  <1>3. ASSUME NEW r \in Requests, RejectDTO(r) PROVE Answers(q)
    BY <1>3 DEF RejectDTO
  <1>4. ASSUME NEW r \in Requests, RegisterValidate(r) PROVE Answers(q)
    BY <1>4 DEF RegisterValidate, Refuse
  <1>5. ASSUME NEW r \in Requests, RegisterSave(r) PROVE Answers(q)
    BY <1>5 DEF RegisterSave
  <1>6. ASSUME NEW r \in Requests, RegisterFind(r) PROVE Answers(q)
    BY <1>6 DEF RegisterFind
  <1>7. ASSUME NEW r \in Requests, RegisterRemove(r) PROVE Answers(q)
    BY <1>7 DEF RegisterRemove
  <1>8. ASSUME NEW r \in Requests, RevokeFind(r) PROVE Answers(q)
    BY <1>8 DEF RevokeFind, Refuse
  <1>9. ASSUME NEW r \in Requests, RevokeDelete(r) PROVE Answers(q)
    BY <1>9 DEF RevokeDelete
  <1>10. ASSUME NEW r \in Requests, SendFind(r) PROVE Answers(q)
    BY <1>10 DEF SendFind, Refuse
  <1>11. ASSUME NEW r \in Requests, SendPost(r) PROVE Answers(q)
    BY <1>11 DEF SendPost
  <1>12. ASSUME NEW r \in Requests, SendAnswered(r) PROVE Answers(q)
    <2>1. pc[r] = "posting" /\ body[r].op = "send"
      BY <1>12 DEF SendAnswered
    <2>2. CASE q = r
      BY <1>12, <2>1, <2>2 DEF SendAnswered
    <2>3. CASE q # r
      BY <1>12, <2>3 DEF SendAnswered
    <2> QED BY <2>2, <2>3
  <1>13. ASSUME NEW r \in Requests, RetrieveValidate(r) PROVE Answers(q)
    BY <1>13 DEF RetrieveValidate, Refuse
  <1>14. ASSUME NEW r \in Requests, RetrieveRemove(r) PROVE Answers(q)
    BY <1>14 DEF RetrieveRemove
  <1>15. ASSUME NEW r \in Requests, RetrieveByToken(r) PROVE Answers(q)
    BY <1>15 DEF RetrieveByToken
  <1>16. ASSUME NEW r \in Requests, RetrieveFind(r) PROVE Answers(q)
    BY <1>16 DEF RetrieveFind
  <1>17. ASSUME NEW r \in Requests, Fault(r) PROVE Answers(q)
    <2>1. CASE ReadFault(r)
      BY <1>17, <2>1, BoundsAssumption DEF Fault, ReadFault
    <2>2. CASE SaveFault(r)
      BY <1>17, <2>2, BoundsAssumption DEF Fault, SaveFault
    <2>3. CASE RemoveFault(r)
      BY <1>17, <2>3, BoundsAssumption DEF Fault, RemoveFault
    <2>4. CASE RevokeFault(r)
      BY <1>17, <2>4, BoundsAssumption DEF Fault, RevokeFault
    <2> QED BY <1>17, <2>1, <2>2, <2>3, <2>4 DEF Fault
  <1>18. ASSUME NEW r \in Requests, Answer(r) \/ LoseAnswer(r) PROVE Answers(q)
    BY <1>18 DEF Answer, LoseAnswer
  <1>19. ASSUME NEW served \in SUBSET {r \in Requests : ~Settled(r)}, Crash(served)
        PROVE  Answers(q)
    BY <1>19 DEF Crash, Settled
  <1>20. CASE Exhausted \/ UNCHANGED vars
    BY <1>20 DEF Exhausted, vars
  <1> QED
    BY <1>1, <1>2, <1>3, <1>4, <1>5, <1>6, <1>7, <1>8, <1>9, <1>10, <1>11, <1>12,
       <1>13, <1>14, <1>15, <1>16, <1>17, <1>18, <1>19, <1>20
    DEF Next, Step, Handle

\* A step inserts one row, which conflicts with none, or deletes the row that
\* a revoke holds, or leaves the table alone.
Inserts(r) ==
    /\ pc[r] = "validated" /\ body[r].op = "register" /\ SignatureValid(r)
    /\ pc'[r] \in {"saved", "refused"}
    /\ ~Conflicts(r) /\ accounts' = accounts \cup {NewAccount(r)}

Deletes(q) ==
    /\ pc[q] = "found" /\ body[q].op = "revoke"
    /\ accounts' = {b \in accounts : b.id # found[q].id}

LEMMA AccountsChange ==
    TypeOK /\ [Next]_vars =>
        accounts' = accounts \/ \E r \in Requests : Inserts(r) \/ Deletes(r)
  <1> SUFFICES ASSUME TypeOK, [Next]_vars, accounts' # accounts
               PROVE  \E r \in Requests : Inserts(r) \/ Deletes(r)
    OBVIOUS
  <1>1. PICK r \in Requests : \/ RegisterSave(r) \/ RevokeDelete(r)
                              \/ Fault(r) /\ (SaveFault(r) \/ RevokeFault(r))
    BY AccountsFootprint
  <1>2. CASE RegisterSave(r)
    BY <1>2 DEF RegisterSave, Inserts, AccountsWith, Goto, TypeOK
  <1>3. CASE RevokeDelete(r)
    BY <1>3 DEF RevokeDelete, Deletes, AccountsWithout
  <1>4. CASE SaveFault(r)
    BY <1>4 DEF SaveFault, Inserts, AccountsWith, Goto, TypeOK
  <1>5. CASE RevokeFault(r)
    BY <1>5 DEF RevokeFault, Deletes, AccountsWithout
  <1> QED BY <1>1, <1>2, <1>3, <1>4, <1>5

----------------------------------------------------------------------------
(* Where rows come from: AccountsAuthorised and RetrievesOnlyOwn. *)

LEMMA LegitimateStable ==
    ASSUME TypeOK, Stable, NEW a, Legitimate(a)
    PROVE  Legitimate(a)'
  <1>1. a.id \in Requests /\ pc[a.id] # "idle"
    BY DEF Legitimate, Account, Early
  <1>2. /\ body'[a.id] = body[a.id] /\ credential'[a.id] = credential[a.id]
        /\ ~Early(a.id)' /\ issued \subseteq issued'
    BY <1>1 DEF Stable, Legitimate, Early
  <1>3. NewAccount(a.id)' = NewAccount(a.id)
    BY <1>2 DEF NewAccount
  <1> QED
    BY <1>2, <1>3 DEF Legitimate, IsSupported

\* A row is legitimate from the save on.
LEMMA SavedIsLegitimate ==
    ASSUME TypeOK, Control, Stable, NEW r \in Requests,
           pc[r] = "validated", body[r].op = "register", SignatureValid(r),
           pc'[r] \in {"saved", "refused"}, NEW a, a = NewAccount(r)
    PROVE  Legitimate(a)'
  <1>1. body[r] \in Body /\ credential[r] \in issued /\ issued \subseteq Challenges
    BY DEF Control, Progress, TypeOK
  <1>2. a \in Account /\ a.id = r
    BY <1>1, NewAccountType DEF NewAccount
  <1>3. body'[r] = body[r] /\ credential'[r] = credential[r] /\ issued \subseteq issued'
    BY DEF Stable
  <1>4. NewAccount(r)' = NewAccount(r)
    BY <1>3 DEF NewAccount
  <1>5. IsSupported(r)' /\ ~Early(r)'
    BY <1>3 DEF Control, Progress, IsSupported, Early
  <1> QED
    BY <1>1, <1>2, <1>3, <1>4, <1>5 DEF Legitimate, SignatureValid

LEMMA NextProvenance ==
    TypeOK /\ Control /\ Provenance /\ [Next]_vars => Provenance'
  <1> SUFFICES ASSUME TypeOK, Control, Provenance, [Next]_vars PROVE Provenance'
    OBVIOUS
  <1>1. Stable
    BY NextStable
  <1>2. ASSUME NEW a, a \in accounts' PROVE Legitimate(a)'
    <2>1. CASE a \in accounts
      BY <2>1, <1>1, LegitimateStable DEF Provenance
    <2>2. CASE a \notin accounts
      <3>1. PICK r \in Requests : RegisterSave(r) \/ SaveFault(r)
        <4>1. PICK r \in Requests : \/ RegisterSave(r) \/ RevokeDelete(r)
                                    \/ Fault(r) /\ (SaveFault(r) \/ RevokeFault(r))
          BY <1>2, <2>2, AccountsFootprint
        <4>2. ~RevokeDelete(r) /\ ~RevokeFault(r)
          BY <1>2, <2>2 DEF RevokeDelete, RevokeFault, AccountsWithout
        <4> QED BY <4>1, <4>2
      <3>2. /\ pc[r] = "validated" /\ body[r].op = "register" /\ SignatureValid(r)
            /\ a = NewAccount(r) /\ pc'[r] \in {"saved", "refused"}
        BY <3>1, <1>2, <2>2 DEF RegisterSave, SaveFault, AccountsWith, Goto, TypeOK
      <3> QED BY <3>2, <1>1, SavedIsLegitimate
    <2> QED BY <2>1, <2>2
  <1>3. ASSUME NEW q \in Requests, NEW a, a = found'[q], a # None PROVE Legitimate(a)'
    <2>1. CASE a = found[q]
      BY <2>1, <1>1, <1>3, LegitimateStable DEF Provenance
    <2>2. CASE a # found[q]
      <3>1. PICK r \in Requests :
                \/ RegisterSave(r) \/ RegisterFind(r) \/ RevokeFind(r)
                \/ SendFind(r) \/ RetrieveByToken(r)
        BY <1>3, <2>2, FoundFootprint
      <3>2. a \in accounts \/ (RegisterSave(r) /\ q = r)
        BY <3>1, <1>3, <2>2 DEF RegisterSave, RegisterFind, RevokeFind, SendFind,
                                RetrieveByToken, Hold, TypeOK
      <3>3. CASE a \in accounts
        BY <3>3, <1>1, LegitimateStable DEF Provenance
      <3>4. CASE RegisterSave(r) /\ q = r
        <4>1. /\ pc[r] = "validated" /\ body[r].op = "register" /\ SignatureValid(r)
              /\ a = NewAccount(r) /\ pc'[r] \in {"saved", "refused"}
          BY <3>4, <1>3, <2>2 DEF RegisterSave, Goto, Hold, TypeOK
        <4> QED BY <4>1, <1>1, SavedIsLegitimate
      <3> QED BY <3>2, <3>3, <3>4
    <2> QED BY <2>1, <2>2
  <1> QED
    BY <1>2, <1>3 DEF Provenance, Legitimate, Early, IsSupported, NewAccount

----------------------------------------------------------------------------
(* The row of a register stays: RegistrationDurable, TokensStable. *)

LEMMA NextUnique ==
    TypeOK /\ Control /\ UniquePeer /\ [Next]_vars => UniquePeer'
  <1> SUFFICES ASSUME TypeOK, Control, UniquePeer, [Next]_vars PROVE UniquePeer'
    OBVIOUS
  <1>1. CASE accounts' = accounts
    BY <1>1 DEF UniquePeer
  <1>2. ASSUME NEW r \in Requests, Inserts(r) PROVE UniquePeer'
    <2>1. /\ NewAccount(r).accountPublicKey = body[r].accountPublicKey
          /\ NewAccount(r).backendUrl = body[r].backendUrl
      BY DEF NewAccount
    <2> QED BY <1>2, <2>1 DEF Inserts, UniquePeer, Conflicts, SamePeer
  <1>3. ASSUME NEW q \in Requests, Deletes(q) PROVE UniquePeer'
    BY <1>3 DEF Deletes, UniquePeer
  <1> QED
    BY <1>1, <1>2, <1>3, AccountsChange

\* A deleted row is the row the revoke holds, which is then a revoked row.
LEMMA DeletedIsHeld ==
    ASSUME TypeOK, Control, Provenance, NEW q \in Requests, Deletes(q),
           NEW a \in accounts, a \notin accounts'
    PROVE  a = found[q]
  <1>1. a.id = found[q].id /\ found[q] # None
    BY DEF Deletes, Control, Progress
  <1>2. a = NewAccount(a.id) /\ found[q] = NewAccount(found[q].id)
    BY <1>1 DEF Provenance, Legitimate
  <1> QED
    BY <1>1, <1>2

LEMMA NextKept ==
    TypeOK /\ Control /\ Provenance /\ Kept /\ [Next]_vars => Kept'
  <1> SUFFICES ASSUME TypeOK, Control, Provenance, Kept, [Next]_vars, NEW r \in Requests
               PROVE  /\ found'[r] # None /\ body'[r].op = "register" =>
                            /\ SamePeer(found[r], r)'
                            /\ found'[r] \in accounts' \/ Revoked(found[r])'
                      /\ Registered(r)' => found'[r] # None
    BY DEF Kept
  <1>1. Stable /\ Moves(r) /\ Answers(r)
    BY NextStable, NextMoves, NextAnswers
  <1>2. ASSUME found[r] # None, body'[r].op = "register"
        PROVE  SamePeer(found[r], r)' /\ (found'[r] \in accounts' \/ Revoked(found[r])')
    <2>1. /\ found'[r] = found[r] /\ body'[r] = body[r]
          /\ SamePeer(found[r], r) /\ (found[r] \in accounts \/ Revoked(found[r]))
      BY <1>1, <1>2 DEF Stable, Control, Progress, Kept
    <2>2. ASSUME NEW q \in Requests, found[q] = found[r], body[q].op = "revoke"
          PROVE  Revoked(found[r])'
      <3>1. found'[q] = found[q] /\ body'[q] = body[q]
        BY <1>1, <1>2, <2>2 DEF Stable, Control, Progress
      <3> QED BY <3>1, <2>1, <2>2 DEF Revoked
    <2>3. ASSUME found[r] \in accounts, found[r] \notin accounts' PROVE Revoked(found[r])'
      <3>1. PICK q \in Requests : Deletes(q)
        BY <2>3, AccountsChange DEF Inserts
      <3>2. found[q] = found[r] /\ body[q].op = "revoke"
        BY <3>1, <2>3, DeletedIsHeld DEF Deletes
      <3> QED BY <3>2, <2>2
    <2> QED BY <2>1, <2>2, <2>3 DEF SamePeer, Revoked
  <1>3. ASSUME found[r] = None, found'[r] # None, body'[r].op = "register"
        PROVE  SamePeer(found[r], r)' /\ found'[r] \in accounts'
    <2>1. PICK q \in Requests : \/ RegisterSave(q) \/ RegisterFind(q) \/ RevokeFind(q)
                               \/ SendFind(q) \/ RetrieveByToken(q)
      BY <1>3, FoundFootprint
    <2>2. q = r /\ body'[r] = body[r]
      BY <2>1, <1>3 DEF RegisterSave, RegisterFind, RevokeFind, SendFind, RetrieveByToken,
                        Hold, TypeOK, inputs
    <2>3. RegisterSave(r) \/ RegisterFind(r)
      BY <2>1, <2>2, <1>3 DEF RevokeFind, SendFind, RetrieveByToken, Called
    <2>4. CASE RegisterSave(r)
      BY <2>2, <2>4, <1>3 DEF RegisterSave, Hold, TypeOK, AccountsWith, NewAccount, SamePeer
    <2>5. CASE RegisterFind(r)
      BY <2>2, <2>5, <1>3 DEF RegisterFind, Hold, TypeOK, SamePeer, tables
    <2> QED BY <2>3, <2>4, <2>5
  <1>4. ASSUME Registered(r)' PROVE found'[r] # None
    <2>1. CASE reply[r].code # "none"
      <3>1. /\ reply'[r] = reply[r] /\ body'[r] = body[r]
        BY <2>1, <1>1 DEF Stable, Control, Progress
      <3> QED BY <3>1, <1>1, <1>4 DEF Registered, Kept, Stable
    <2>2. CASE reply[r].code = "none"
      <3>1. pc[r] # "idle" /\ reply'[r].code = "ok" /\ body'[r].op = "register"
        BY <2>2, <1>1, <1>4 DEF Answers, Registered
      <3>2. body[r].op = "register"
        BY <3>1, <1>1 DEF Stable
      <3>3. RegisterRemove(r)
        BY <2>2, <3>1, <3>2, <1>1
        DEF Answers, RevokeDelete, SendAnswered, RetrieveFind, Control, Progress
      <3> QED
        BY <3>1, <3>3 DEF RegisterRemove, Finish, TypeOK
    <2> QED BY <2>1, <2>2
  <1> QED
    BY <1>2, <1>3, <1>4

----------------------------------------------------------------------------
(* The cause of a 500: FailsOnlyByRace. *)

\* A race stays a race, if the register is under way.
LEMMA RacedStable ==
    ASSUME TypeOK, Control, Stable, NEW r \in Requests, pc[r] # "idle", Raced(r)
    PROVE  Raced(r)'
  <1>1. PICK q \in Requests : /\ q \notin prior[r] /\ found[q] # None
                             /\ body[q].op = "revoke" /\ SamePeer(found[q], r)
    BY DEF Raced
  <1>2. pc[q] # "idle"
    BY <1>1 DEF Control, Progress
  <1>3. /\ found'[q] = found[q] /\ body'[q] = body[q]
        /\ prior'[r] = prior[r] /\ body'[r] = body[r]
    BY <1>1, <1>2 DEF Stable
  <1> QED
    BY <1>1, <1>3 DEF Raced, SamePeer

LEMMA NextPrior ==
    TypeOK /\ Control /\ Cause /\ [Next]_vars =>
        \A r \in Requests : prior'[r] \subseteq {q \in Requests : pc'[q] = "done"}
  <1> SUFFICES ASSUME TypeOK, Control, Cause, [Next]_vars, NEW r \in Requests
               PROVE  prior'[r] \subseteq {q \in Requests : pc'[q] = "done"}
    OBVIOUS
  <1>1. Stable /\ Moves(r)
    BY NextStable, NextMoves
  <1>2. CASE prior'[r] = prior[r]
    BY <1>1, <1>2 DEF Stable, Cause
  <1>3. CASE prior'[r] # prior[r]
    <2>1. PICK q \in Requests, t \in Templates, c \in Credentials : Receive(q, t, c)
      BY <1>3, ReceivesPrior
    <2>2. q = r /\ prior'[r] = {p \in Requests : pc[p] = "done"}
      BY <2>1, <1>3 DEF Receive, TypeOK
    <2> QED BY <1>1, <2>2 DEF Stable
  <1> QED BY <1>2, <1>3

LEMMA NextCause ==
    TypeOK /\ Control /\ Provenance /\ Cause /\ [Next]_vars => Cause'
  <1> SUFFICES ASSUME TypeOK, Control, Provenance, Cause, [Next]_vars PROVE Cause'
    OBVIOUS
  <1>1. Stable /\ \A r \in Requests : Moves(r) /\ Answers(r)
    BY NextStable, NextMoves, NextAnswers
  <1>2. ASSUME faults' = 0, NEW r \in Requests
        PROVE  /\ pc'[r] = "refused" => Conflicts(r)' \/ Raced(r)'
               /\ pc'[r] = "saved" /\ found'[r] = None => Raced(r)'
               /\ /\ reply'[r].code = "failed" /\ body'[r].op = "register"
                  /\ SignatureValid(r)' /\ credential'[r] # None
                  => Raced(r)'
    <2>0. faults = 0
      BY <1>1, <1>2 DEF Stable
    <2>1. ASSUME pc'[r] = "refused" PROVE Conflicts(r)' \/ Raced(r)'
      <3>1. pc[r] # "idle" /\ body'[r] = body[r] /\ body[r].op = "register"
        BY <1>1, <2>1 DEF Moves, Stable, Control, Progress
      <3>2. Conflicts(r) \/ Raced(r)
        BY <1>1, <1>2, <2>0, <2>1 DEF Moves, Cause, RegisterSave, Finish, Goto, TypeOK
      <3>3. ASSUME NEW a \in accounts, SamePeer(a, r), a \notin accounts' PROVE Raced(r)'
        <4>1. PICK q \in Requests : Deletes(q)
          BY <3>3, AccountsChange DEF Inserts
        <4>2. found[q] = a /\ body[q].op = "revoke" /\ pc[q] = "found" /\ found[q] # None
          BY <4>1, <3>3, DeletedIsHeld DEF Deletes, Control, Progress
        <4>3. q \notin prior[r]
          BY <4>2 DEF Cause
        <4> QED BY <4>2, <4>3, <3>1, <3>3, <1>1, RacedStable DEF Raced
      <3> QED BY <3>1, <3>2, <3>3, <1>1, RacedStable DEF Conflicts, SamePeer
    <2>2. ASSUME pc'[r] = "saved", found'[r] = None PROVE Raced(r)'
      <3>1. pc[r] # "idle" /\ found[r] = None
        BY <1>1, <2>2 DEF Stable, Moves, RegisterSave, RegisterFind
      <3>2. pc[r] = "saved" \/ RegisterFind(r)
        <4>1. RegisterSave(r) => FALSE
          <5>1. RegisterSave(r) => NewAccount(r) # None
            BY NewAccountType DEF RegisterSave, Control, Progress, TypeOK
          <5> QED BY <5>1, <2>2 DEF RegisterSave, Finish, Goto, Hold, TypeOK
        <4> QED BY <4>1, <1>1, <2>2 DEF Moves
      <3>3. CASE RegisterFind(r)
        <4>1. ~Conflicts(r) /\ pc[r] = "refused"
          BY <3>3, <2>2, NoneIsNoRow DEF RegisterFind, Hold, TypeOK
        <4> QED BY <4>1, <3>1, <2>0, <1>1, RacedStable DEF Cause
      <3> QED BY <3>1, <3>2, <3>3, <2>0, <1>1, RacedStable DEF Cause
    <2>3. ASSUME reply'[r].code = "failed", body'[r].op = "register",
                 SignatureValid(r)', credential'[r] # None
          PROVE  Raced(r)'
      <3>1. pc[r] # "idle"
        BY <1>1, <2>3 DEF Answers, Control, Progress
      <3>2. /\ body'[r] = body[r] /\ credential'[r] = credential[r]
            /\ SignatureValid(r)
        BY <3>1, <2>3, <1>1 DEF Stable, SignatureValid
      <3>3. CASE reply[r].code # "none"
        BY <3>1, <3>2, <3>3, <2>0, <2>3, <1>1, RacedStable DEF Cause, Stable
      <3>4. CASE reply[r].code = "none"
        <4>1. RegisterRemove(r)
          BY <3>2, <3>4, <2>3, <1>1, <1>2 DEF Answers
        <4>2. pc[r] = "saved" /\ found[r] = None
          BY <4>1, <2>3 DEF RegisterRemove, Finish, TypeOK
        <4> QED BY <4>2, <3>1, <2>0, <1>1, RacedStable DEF Cause
      <3> QED BY <3>3, <3>4
    <2> QED BY <2>1, <2>2, <2>3
  <1> QED
    BY <1>2, NextPrior DEF Cause

----------------------------------------------------------------------------
(* A used challenge is refused ever after: ReplayRefused. *)

\* What happened before a request was sent is over: the earlier request keeps
\* its answer, which was there already.
LEMMA PriorIsOver ==
    ASSUME TypeOK, Control, Control', Cause, Stable, NEW r \in Requests, NEW s \in Requests,
           Answers(r), Moves(s), r \in prior'[s], reply'[r].code # "none"
    PROVE  /\ pc[r] = "done" /\ reply'[r] = reply[r] /\ body'[r] = body[r]
           /\ credential'[r] = credential[r]
           /\ pc[s] # "idle" => r \in prior[s]
  <1>1. pc[s] # "idle" => r \in prior[s]
    BY DEF Stable
  <1>2. pc[s] = "idle" => pc[r] = "done"
    <2>1. CASE pc[s] = "idle" /\ pc'[s] = "idle"
      BY <2>1 DEF Control, Progress
    <2>2. CASE pc[s] = "idle" /\ pc'[s] # "idle"
      BY <2>2 DEF Moves, Receive, TypeOK
    <2> QED BY <2>1, <2>2
  <1>3. pc[r] = "done"
    BY <1>1, <1>2 DEF Cause
  <1>4. pc'[r] = "done" /\ reply[r].code # "none"
    BY <1>3 DEF Stable, Answers
  <1> QED
    BY <1>1, <1>3, <1>4 DEF Stable

\* A handler that has answered does not come back.
LEMMA AnsweredStays ==
    ASSUME TypeOK, TypeOK', Stable, NEW s \in Requests, Moves(s),
           pc[s] \in {"answering", "done", "lost"}
    PROVE  pc'[s] \in {"answering", "done", "lost"}
  <1>1. pc'[s] \in Labels /\ pc'[s] # "idle"
    BY DEF TypeOK, Stable
  <1> QED
    BY <1>1 DEF Moves, Labels, Receive, RegisterSave, RegisterFind, RevokeFind, SendFind,
                SendPost, RetrieveRemove, RetrieveByToken, Called

\* The row a request inserts carries its name, so nobody held it before.
LEMMA InsertedIsNew ==
    ASSUME NEW r \in Requests, Inserts(r), NEW a \in accounts', a \notin accounts
    PROVE  a.id = r /\ pc[r] = "validated"
  BY DEF Inserts, NewAccount

LEMMA NextSpent ==
    TypeOK /\ Control /\ Provenance /\ Cause /\ Spent /\ [Next]_vars => Spent'
  <1> SUFFICES ASSUME TypeOK, Control, Provenance, Cause, Spent, [Next]_vars PROVE Spent'
    OBVIOUS
  <1>1. Stable /\ TypeOK' /\ Control' /\ \A r \in Requests : Moves(r) /\ Answers(r)
    BY NextStable, NextTyped, NextControlled, NextMoves, NextAnswers
  <1>2. ASSUME NEW r \in Requests,
               Proves(r)' \/ (pc'[r] = "proved" /\ body'[r].op = "retrieve")
        PROVE  credential'[r] \in issued' \ challenges'
    <2>0. pc[r] # "idle"
      <3>1. CASE Proves(r)'
        BY <3>1, <1>1 DEF Proves, Answers, Control, Progress
      <3>2. CASE pc'[r] = "proved"
        BY <3>2, <1>1 DEF Moves, Receive, Goto, TypeOK
      <3> QED BY <1>2, <3>1, <3>2
    <2>1. body'[r] = body[r] /\ credential'[r] = credential[r]
      BY <2>0, <1>1 DEF Stable
    <2>2. CASE credential[r] \in issued \ challenges
      BY <2>1, <2>2, <1>1 DEF Stable
    <2>3. CASE credential[r] \in issued /\ challenges' = challenges \ {credential[r]}
      BY <2>1, <2>3, <1>1 DEF Stable
    <2>4. ASSUME Proves(r)' PROVE \/ credential[r] \in issued \ challenges
                                  \/ /\ credential[r] \in issued
                                     /\ challenges' = challenges \ {credential[r]}
      <3>1. CASE reply[r].code # "none"
        BY <3>1, <2>1, <2>4, <1>1 DEF Stable, Proves, Spent
      <3>2. CASE reply[r].code = "none"
        <4>1. \/ RegisterRemove(r) \/ RevokeDelete(r) \/ SendAnswered(r) \/ RetrieveFind(r)
          BY <3>2, <2>4, <1>1 DEF Answers, Proves
        <4>2. NeedsChallenge(body[r].op)
          BY <2>1, <2>4 DEF Proves
        <4>3. CASE RegisterRemove(r)
          BY <4>3 DEF RegisterRemove, ChallengesWithout, Control, Progress
        <4>4. CASE RetrieveFind(r)
          BY <4>2, <4>4 DEF RetrieveFind, NeedsChallenge, Control, Progress, Spent
        <4> QED
          BY <4>1, <4>2, <4>3, <4>4
          DEF RevokeDelete, SendAnswered, NeedsChallenge, Control, Progress
      <3> QED BY <3>1, <3>2
    <2>5. ASSUME pc'[r] = "proved", body'[r].op = "retrieve"
          PROVE  \/ credential[r] \in issued \ challenges
                 \/ credential[r] \in issued /\ challenges' = challenges \ {credential[r]}
      <3>1. CASE pc[r] = "proved"
        BY <3>1, <2>1, <2>5 DEF Spent
      <3>2. CASE pc[r] # "proved"
        BY <3>2, <2>1, <2>5, <1>1
        DEF Moves, RetrieveRemove, RetrieveByToken, Called, ChallengesWithout, Control, Progress,
            Finish, TypeOK
      <3> QED BY <3>1, <3>2
    <2> QED BY <1>2, <2>2, <2>3, <2>4, <2>5
  <1>3. ASSUME NEW r \in Requests, NEW s \in Requests, Proves(r)', r \in prior'[s],
               NeedsChallenge(body'[s].op), credential'[s] = credential'[r]
        PROVE  /\ pc'[s] \in {"received", "answering", "done", "lost"}
               /\ reply'[s].code # "ok"
               /\ \A a \in accounts' : a.id # s
    <2>1. /\ pc[r] = "done" /\ Proves(r) /\ credential'[r] = credential[r]
          /\ pc[s] # "idle" => r \in prior[s]
      BY <1>1, <1>3, PriorIsOver DEF Proves
    <2>2. CASE pc[s] = "idle"
      <3>1. PICK t \in Templates, c \in Credentials : Receive(s, t, c)
        <4>1. pc'[s] # "idle"
          BY <1>1, <1>3 DEF Control, Progress
        <4> QED BY <4>1, <2>2, <1>1 DEF Moves
      <3>2. pc'[s] = "received" /\ reply' = reply /\ accounts' = accounts
        BY <3>1 DEF Receive, Goto, TypeOK, tables
      <3>3. \A a \in accounts : a.id # s
        BY <2>2 DEF Provenance, Legitimate, Early
      <3> QED
        BY <2>2, <3>2, <3>3 DEF Control, Progress
    <2>3. CASE pc[s] # "idle"
      <3>1. /\ body'[s] = body[s] /\ credential'[s] = credential[s] /\ r \in prior[s]
        BY <2>1, <2>3, <1>1 DEF Stable
      <3>2. /\ pc[s] \in {"received", "answering", "done", "lost"}
            /\ reply[s].code # "ok" /\ \A a \in accounts : a.id # s
            /\ credential[s] \notin challenges
        BY <2>1, <3>1, <1>3 DEF Spent
      <3>3. pc'[s] \in {"received", "answering", "done", "lost"}
        <4>1. CASE pc[s] = "received"
          <5>1. pc'[s] \in Labels /\ pc'[s] # "idle"
            BY <1>1, <2>3 DEF TypeOK, Stable
          <5> QED
            BY <4>1, <5>1, <3>1, <3>2, <1>1, <1>3
            DEF Moves, Labels, RegisterSave, RegisterFind, RevokeFind, SendFind, SendPost,
                RetrieveRemove, RetrieveByToken, Called, NeedsChallenge
        <4> QED BY <4>1, <3>2, <1>1, AnsweredStays
      <3>4. reply'[s].code # "ok"
        <4>1. CASE reply[s].code # "none"
          BY <4>1, <3>2, <1>1 DEF Stable
        <4>2. CASE reply[s].code = "none"
          BY <4>2, <3>2, <1>1
          DEF Answers, RegisterRemove, RevokeDelete, SendAnswered, RetrieveFind
        <4> QED BY <4>1, <4>2
      <3>5. ASSUME NEW a \in accounts', a.id = s PROVE FALSE
        <4>1. a \notin accounts
          BY <3>2, <3>5
        <4>2. PICK q \in Requests : Inserts(q)
          BY <4>1, AccountsChange DEF Deletes
        <4> QED BY <4>1, <4>2, <3>2, <3>5, InsertedIsNew
      <3> QED BY <3>3, <3>4, <3>5
    <2> QED BY <2>2, <2>3
  <1> QED
    BY <1>2, <1>3 DEF Spent

----------------------------------------------------------------------------
(* Revocation is final: RevocationFinal. *)

LEMMA NextGone ==
    TypeOK /\ Control /\ Provenance /\ Cause /\ Gone /\ [Next]_vars => Gone'
  <1> SUFFICES ASSUME TypeOK, Control, Provenance, Cause, Gone, [Next]_vars PROVE Gone'
    OBVIOUS
  <1>1. Stable /\ TypeOK' /\ Control' /\ \A r \in Requests : Moves(r) /\ Answers(r)
    BY NextStable, NextTyped, NextControlled, NextMoves, NextAnswers
  <1>2. ASSUME NEW q \in Requests, reply'[q].code = "ok", body'[q].op = "revoke"
        PROVE  found'[q] # None /\ found'[q] \notin accounts'
    <2>0. body'[q] = body[q]
      BY <1>1, <1>2 DEF Stable, Answers, Control, Progress
    <2>1. CASE reply[q].code # "none"
      <3>1. /\ found[q] # None /\ found[q] \notin accounts /\ found'[q] = found[q]
        BY <2>0, <2>1, <1>1, <1>2 DEF Stable, Gone
      <3>2. ~Early(found[q].id)
        BY <3>1 DEF Provenance, Legitimate
      <3>3. found[q] \notin accounts'
        BY <3>1, <3>2, AccountsChange, InsertedIsNew DEF Deletes, Early
      <3> QED BY <3>1, <3>3
    <2>2. CASE reply[q].code = "none"
      <3>1. RevokeDelete(q)
        BY <2>0, <2>2, <1>1, <1>2
        DEF Answers, RegisterRemove, SendAnswered, RetrieveFind, Control, Progress
      <3>2. found[q] # None /\ found'[q] = found[q]
        BY <3>1, <1>1 DEF RevokeDelete, Control, Progress, Stable
      <3> QED
        BY <3>1, <3>2 DEF RevokeDelete, AccountsWithout
    <2> QED BY <2>1, <2>2
  <1>3. ASSUME NEW q \in Requests, NEW s \in Requests,
               reply'[q].code = "ok", body'[q].op = "revoke", q \in prior'[s],
               body'[s].op = "send", credential'[s] = found'[q].accessToken
        PROVE  /\ pc'[s] \notin {"found", "posting"}
               /\ \A d \in posted' : d.by # s
    <2>1. /\ reply[q].code = "ok" /\ body[q].op = "revoke"
          /\ pc[s] # "idle" => q \in prior[s]
      BY <1>1, <1>3, PriorIsOver
    <2>2. found[q] # None /\ found[q] \notin accounts /\ found'[q] = found[q]
      BY <2>1, <1>1 DEF Gone, Stable
    <2>3. CASE pc[s] = "idle"
      <3>1. PICK t \in Templates, c \in Credentials : Receive(s, t, c)
        <4>1. pc'[s] # "idle"
          BY <1>1, <1>3 DEF Control, Progress
        <4> QED BY <4>1, <2>3, <1>1 DEF Moves
      <3> QED
        BY <2>3, <3>1 DEF Receive, Goto, TypeOK, Control, Progress
    <2>4. CASE pc[s] # "idle"
      <3>1. /\ body[s].op = "send" /\ credential[s] = found[q].accessToken
            /\ q \in prior[s]
        BY <2>1, <2>2, <2>4, <1>1, <1>3 DEF Stable
      <3>2. pc[s] \notin {"found", "posting"} /\ \A d \in posted : d.by # s
        BY <2>1, <3>1 DEF Gone
      <3>3. ~\E a \in accounts : Reaches(s, a)
        <4> SUFFICES ASSUME NEW a \in accounts, a.accessToken = found[q].accessToken PROVE FALSE
          BY <3>1 DEF Reaches
        <4>1. a = NewAccount(a.id) /\ found[q] = NewAccount(found[q].id)
          BY <2>2 DEF Provenance, Legitimate
        <4>2. /\ NewAccount(a.id).accessToken = <<"access", a.id>>
              /\ NewAccount(found[q].id).accessToken = <<"access", found[q].id>>
          BY DEF NewAccount, AccessToken
        <4>3. a.id = found[q].id
          BY <4>1, <4>2
        <4> QED BY <4>1, <4>3, <2>2
      <3>4. pc'[s] # "found"
        BY <3>1, <3>2, <3>3, <1>1 DEF Moves, RevokeFind, SendFind, Called, Refuse, Finish, TypeOK
      <3>5. pc'[s] # "posting"
        BY <3>2, <1>1 DEF Moves, SendPost
      <3>6. \A d \in posted' : d.by # s
        BY <3>2, <1>1 DEF Moves
      <3> QED BY <3>4, <3>5, <3>6
    <2> QED BY <2>3, <2>4
  <1> QED
    BY <1>2, <1>3 DEF Gone

----------------------------------------------------------------------------
(* Retrieval: RetrievesOnlyOwn, RetrievesAll. *)

LEMMA NextOwn ==
    TypeOK /\ Control /\ Provenance /\ RetrievesOnlyOwn /\ [Next]_vars => RetrievesOnlyOwn'
  <1> SUFFICES ASSUME TypeOK, Control, Provenance, RetrievesOnlyOwn, [Next]_vars,
                      NEW r \in Requests, reply'[r].code = "ok",
                      body'[r].op \in {"retrieve", "retrieveByToken"}
               PROVE  /\ \A a \in reply'[r].rows :
                            /\ Owner[a.accountPublicKey] = Owner[body'[r].accountPublicKey]
                            /\ a.deviceId = body'[r].deviceId
                      /\ \/ body'[r].op = "retrieve" /\ body'[r].genuine
                         \/ /\ body'[r].op = "retrieveByToken" /\ found'[r] # None
                            /\ found'[r].managementToken = credential'[r]
                            /\ found'[r].accountPublicKey = body'[r].accountPublicKey
    BY DEF RetrievesOnlyOwn
  <1>1. Stable /\ Answers(r)
    BY NextStable, NextAnswers
  <1>2. body'[r] = body[r] /\ credential'[r] = credential[r]
    BY <1>1 DEF Answers, Stable, Control, Progress
  <1>3. CASE reply[r].code # "none"
    BY <1>1, <1>2, <1>3 DEF Stable, RetrievesOnlyOwn
  <1>4. CASE reply[r].code = "none"
    <2>1. RetrieveFind(r)
      BY <1>1, <1>2, <1>4
      DEF Answers, RegisterRemove, RevokeDelete, SendAnswered, Control, Progress
    <2>2. reply'[r].rows = {a \in accounts : OnDevice(r, a)} /\ found'[r] = found[r]
      BY <2>1 DEF RetrieveFind, Finish, TypeOK
    <2>3. ASSUME NEW a \in accounts, OnDevice(r, a)
          PROVE  /\ Owner[a.accountPublicKey] = Owner[body[r].accountPublicKey]
                 /\ a.deviceId = body[r].deviceId
      <3>1. a = NewAccount(a.id)
        BY DEF Provenance, Legitimate
      <3>2. a.address = <<body[a.id].protocolIdentifier, Owner[body[a.id].accountPublicKey]>>
            /\ a.accountPublicKey = body[a.id].accountPublicKey
        <4>1. /\ NewAccount(a.id).address
                    = <<body[a.id].protocolIdentifier, Owner[body[a.id].accountPublicKey]>>
              /\ NewAccount(a.id).accountPublicKey = body[a.id].accountPublicKey
          BY DEF NewAccount, Address
        <4> QED BY <3>1, <4>1
      <3> QED BY <2>3, <3>2 DEF OnDevice, Address
    <2> QED BY <1>2, <2>1, <2>2, <2>3 DEF RetrieveFind, Control, Progress
  <1> QED BY <1>3, <1>4

\* Unless the pipe refuses it, a retrieval with a token of a row that is there
\* finds that row.
LEMMA NextToken ==
    ~ValidationPipe /\ IInv /\ TokenRetrieves /\ [Next]_vars => TokenRetrieves'
  <1> SUFFICES ASSUME ~ValidationPipe, IInv, TokenRetrieves, [Next]_vars,
                      NEW r \in Requests, NEW s \in Requests,
                      Registered(r)', r \in prior'[s], faults' = 0, IsSupported(s)',
                      body'[s].op = "retrieveByToken",
                      credential'[s] = found'[r].managementToken,
                      body'[s].accountPublicKey = found'[r].accountPublicKey,
                      ~Revoked(found[r])', reply'[s].code = "rejected"
               PROVE  FALSE
    BY DEF TokenRetrieves
  <1> USE DEF IInv
  <1>1. Stable /\ Answers(r) /\ Answers(s)
    BY NextStable, NextAnswers
  <1>2. /\ pc[s] # "idle" /\ body'[s] = body[s] /\ credential'[s] = credential[s]
        /\ prior'[s] = prior[s] /\ IsSupported(s) /\ faults = 0
    BY <1>1 DEF Answers, Stable, Control, Progress, IsSupported
  <1>3. pc[r] = "done" /\ body'[r] = body[r]
    BY <1>1, <1>2 DEF Cause, Stable
  <1>4. Registered(r)
    BY <1>1, <1>3 DEF Registered, Answers, Stable
  <1>5. found[r] # None /\ found'[r] = found[r]
    BY <1>1, <1>4 DEF Kept, Stable
  <1>6. ~Revoked(found[r])
    BY <1>1, <1>5 DEF Revoked, Stable, Control, Progress
  <1>7. reply[s].code = "none"
    BY <1>1, <1>2, <1>4, <1>5, <1>6 DEF Stable, TokenRetrieves
  <1>8. RetrieveByToken(s)
    BY <1>1, <1>2, <1>7 DEF Answers, RejectDTO, PipeRefuses
  <1>9. found[r] \in accounts /\ Controls(s, found[r])
    BY <1>2, <1>4, <1>5, <1>6 DEF Kept, Registered, Controls
  <1>10. reply'[s] = reply[s]
    BY <1>8, <1>9 DEF RetrieveByToken, Goto
  <1> QED BY <1>7, <1>10

LEMMA NextAll ==
    TypeOK /\ Control /\ Provenance /\ Kept /\ Cause /\ RetrievesAll /\ [Next]_vars
    => RetrievesAll'
  <1> SUFFICES ASSUME TypeOK, Control, Provenance, Kept, Cause, RetrievesAll,
                      [Next]_vars,
                      NEW r \in Requests, NEW s \in Requests,
                      reply'[r].code = "ok", body'[r].op \in {"retrieve", "retrieveByToken"},
                      s \in prior'[r], Registered(s)', Asks(r, found[s])'
               PROVE  found'[s] \in reply'[r].rows \/ Revoked(found[s])'
    BY DEF RetrievesAll
  <1>1. Stable /\ Answers(r) /\ Answers(s)
    BY NextStable, NextAnswers
  <1>2. /\ body'[r] = body[r] /\ prior'[r] = prior[r] /\ s \in prior[r]
    BY <1>1 DEF Answers, Stable, Control, Progress
  <1>3. pc[s] = "done" /\ body'[s] = body[s]
    BY <1>1, <1>2 DEF Cause, Stable
  <1>4. Registered(s) /\ reply'[s] = reply[s]
    BY <1>1, <1>3 DEF Registered, Answers, Stable
  <1>5. found[s] # None /\ found'[s] = found[s] /\ Asks(r, found[s])
    BY <1>1, <1>2, <1>4 DEF Kept, Stable, Asks
  <1>6. Revoked(found[s]) => Revoked(found[s])'
    BY <1>1, <1>5 DEF Revoked, Stable, Control, Progress
  <1>7. CASE reply[r].code # "none"
    BY <1>1, <1>2, <1>4, <1>5, <1>6, <1>7 DEF Stable, RetrievesAll
  <1>8. CASE reply[r].code = "none"
    <2>1. RetrieveFind(r)
      BY <1>1, <1>2, <1>8
      DEF Answers, RegisterRemove, RevokeDelete, SendAnswered, Control, Progress
    <2>2. reply'[r].rows = {a \in accounts : OnDevice(r, a)}
      BY <2>1 DEF RetrieveFind, Finish, TypeOK
    <2>3. found[s] \in accounts \/ Revoked(found[s])
      BY <1>4, <1>5 DEF Kept, Registered
    <2>4. found[s] = NewAccount(found[s].id)
      BY <1>5 DEF Provenance, Legitimate
    <2>5. NewAccount(found[s].id).address
            = Address(NewAccount(found[s].id).protocolIdentifier,
                      NewAccount(found[s].id).accountPublicKey)
      BY DEF NewAccount
    <2>6. OnDevice(r, found[s])
      BY <1>5, <2>4, <2>5 DEF Asks, OnDevice, Address
    <2> QED BY <1>5, <1>6, <2>2, <2>3, <2>6
  <1> QED BY <1>7, <1>8

----------------------------------------------------------------------------
(* The inductive invariant, and what it implies. *)

LEMMA InitInvariant == Init => IInv
  <1> SUFFICES ASSUME Init PROVE IInv
    OBVIOUS
  <1>1. TypeOK /\ Control
    BY InitTyped
  <1>2. /\ Provenance /\ UniquePeer /\ Kept /\ Cause /\ Spent /\ Gone
        /\ RetrievesOnlyOwn /\ RetrievesAll
    BY DEF Init, Provenance, UniquePeer, Kept, Cause, Spent, Gone, RetrievesOnlyOwn,
           RetrievesAll, Registered, Proves
  <1> QED BY <1>1, <1>2 DEF IInv

LEMMA NextInvariant == IInv /\ [Next]_vars => IInv'
  BY NextTyped, NextControlled, NextProvenance, NextUnique, NextKept, NextCause,
     NextSpent, NextGone, NextOwn, NextAll
  DEF IInv

\* Whatever clients, crashes and failing statements do, the invariant holds.
THEOREM Invariance == Spec => []IInv
  BY InitInvariant, NextInvariant, PTL DEF Spec

\* Every variable has its type.
THEOREM TypeCorrect == Spec => []TypeOK
  <1>1. IInv => TypeOK
    BY DEF IInv
  <1> QED BY <1>1, Invariance, PTL

\* Every row of the account table is the row of a register request that passed
\* every check of AccountService.register.
THEOREM Authorisation == Spec => []AccountsAuthorised
  <1>1. IInv => AccountsAuthorised
    <2> SUFFICES ASSUME IInv, NEW a \in accounts
                 PROVE  /\ body[a.id] # None
                        /\ body[a.id].op = "register" /\ body[a.id].genuine
                        /\ IsSupported(a.id) /\ credential[a.id] \in issued
                        /\ a = NewAccount(a.id)
      BY DEF AccountsAuthorised
    <2>1. Legitimate(a)
      BY DEF IInv, Provenance
    <2>2. body[a.id] \in Body
      BY <2>1 DEF IInv, Control, Progress, Legitimate, Account, Early
    <2> QED BY <2>1, <2>2, NoneAssumption DEF Legitimate
  <1> QED BY <1>1, Invariance, PTL

\* A register answered with success is durable until a revoke names its row.
THEOREM Durability == Spec => []RegistrationDurable
  <1>1. IInv => RegistrationDurable
    BY DEF IInv, Kept, RegistrationDurable, Registered
  <1> QED BY <1>1, Invariance, PTL

\* Registering the same peer again gives the same tokens, unless revoked.
THEOREM Stability == Spec => []TokensStable
  <1>1. IInv => TokensStable
    <2> SUFFICES ASSUME IInv, NEW r \in Requests, NEW s \in Requests,
                        Registered(r), Registered(s), SamePeer(found[r], s)
                 PROVE  found[r] = found[s] \/ Revoked(found[r]) \/ Revoked(found[s])
      BY DEF TokensStable
    <2>1. /\ found[r] # None /\ found[s] # None
          /\ body[r].op = "register" /\ body[s].op = "register"
      BY DEF IInv, Kept, Registered
    <2>2. /\ found[r] \in accounts \/ Revoked(found[r])
          /\ found[s] \in accounts \/ Revoked(found[s])
          /\ SamePeer(found[s], s)
      BY <2>1 DEF IInv, Kept
    <2> QED BY <2>2 DEF IInv, UniquePeer, SamePeer
  <1> QED BY <1>1, Invariance, PTL

\* A well signed register fails with a 500 only by a fault or a racing revoke.
THEOREM FailureHasCause == Spec => []FailsOnlyByRace
  <1>1. IInv => FailsOnlyByRace
    BY DEF IInv, Cause, Raced, FailsOnlyByRace
  <1> QED BY <1>1, Invariance, PTL

\* A challenge used with success is refused in every later request.
THEOREM NoReplay == Spec => []ReplayRefused
  <1>1. IInv => ReplayRefused
    BY DEF IInv, Spent, ReplayRefused
  <1> QED BY <1>1, Invariance, PTL

\* No send begun after an answered revoke posts with the revoked token.
THEOREM Revocation == Spec => []RevocationFinal
  <1>1. IInv => RevocationFinal
    BY DEF IInv, Gone, RevocationFinal
  <1> QED BY <1>1, Invariance, PTL

\* retrieve-accounts shows rows to the owner of their key only.
THEOREM Retrieval == Spec => []RetrievesOnlyOwn
  <1>1. IInv => RetrievesOnlyOwn
    BY DEF IInv
  <1> QED BY <1>1, Invariance, PTL

\* retrieve-accounts shows every earlier registration that is not revoked.
THEOREM CompleteRetrieval == Spec => []RetrievesAll
  <1>1. IInv => RetrievesAll
    BY DEF IInv
  <1> QED BY <1>1, Invariance, PTL

\* Without the pipe, as the e2e tests start the application, a retrieval with
\* the management token of a registered row is not refused.
THEOREM TokenRetrieval == ASSUME ~ValidationPipe PROVE Spec => []TokenRetrieves
  <1>1. Init => TokenRetrieves
    BY DEF Init, TokenRetrieves, Registered
  <1>2. IInv /\ IInv' /\ TokenRetrieves /\ [Next]_vars => TokenRetrieves'
    BY NextToken
  <1> QED BY <1>1, <1>2, Invariance, PTL DEF Spec

\* Rows leave the table only in a revoke's step that holds that very row.
THEOREM Removal == Spec => OnlyRevokeRemoves
  <1>1. ASSUME IInv, [Next]_vars
        PROVE  \A a \in accounts \ accounts' : \E q \in Requests :
                    pc[q] = "found" /\ body[q].op = "revoke" /\ found[q] = a
    <2> SUFFICES ASSUME NEW a \in accounts, a \notin accounts'
                 PROVE  \E q \in Requests :
                            pc[q] = "found" /\ body[q].op = "revoke" /\ found[q] = a
      OBVIOUS
    <2>1. PICK q \in Requests : Deletes(q)
      BY <1>1, AccountsChange DEF IInv, Inserts
    <2> QED BY <1>1, <2>1, DeletedIsHeld DEF IInv, Deletes
  <1> QED BY <1>1, Invariance, PTL DEF Spec, OnlyRevokeRemoves
=============================================================================
