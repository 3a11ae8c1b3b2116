------------------------- MODULE MatrixClientProofs -------------------------
(***************************************************************************)
(* What MatrixClientProperties says of rooms, invitations, retries and the *)
(* delivery of messages, for any number of rooms, events, starts and       *)
(* failing requests, and for every kind of storage, of application and of  *)
(* homeserver, except that exactly one delivery needs one loop at a time.  *)
(***************************************************************************)
EXTENDS MatrixClientProperties, InOrderProofs, SequenceTheorems, TLAPS

(* The homeserver. *)

\* Without an event of the room in between, its membership stays.
LEMMA MembershipUntil ==
    ASSUME NEW room \in Rooms, NEW since \in Nat, NEW until \in Nat, since <= until,
           room \notin Answered(since, until)
    PROVE  Membership(room, until) = Membership(room, since)
  <1>1. Changes(room, until) = Changes(room, since)
    <2>1. \A k \in (since + 1)..until : timeline[k].room # room
      BY DEF Answered
    <2>2. ASSUME NEW k \in 1..until, timeline[k].room = room PROVE k \in 1..since
      BY <2>1, <2>2
    <2> QED BY <2>2 DEF Changes
  <1> QED
    BY <1>1 DEF Membership

\* What happened is not undone by what happens.
LEMMA MembershipStays ==
    ASSUME timeline \in Seq(Event), timeline' \in Seq(Event), Len(timeline) <= Len(timeline'),
           \A k \in 1..Len(timeline) : timeline'[k] = timeline[k],
           NEW room \in Rooms, NEW n \in 0..Len(timeline)
    PROVE  Membership(room, n)' = Membership(room, n)
  <1>1. Changes(room, n)' = Changes(room, n)
    BY DEF Changes
  <1>2. CASE Changes(room, n) = {}
    BY <1>1, <1>2 DEF Membership
  <1>3. CASE Changes(room, n) # {}
    <2> DEFINE last == CHOOSE k \in Changes(room, n) : \A j \in Changes(room, n) : j <= k
    <2>1. Changes(room, n) \subseteq 1..n
      BY DEF Changes
    <2>2. \E k \in Changes(room, n) : \A j \in Changes(room, n) : j <= k
      BY <1>3, <2>1, Greatest
    <2>3. last \in 1..Len(timeline)
      BY <2>1, <2>2
    <2>4. timeline'[last] = timeline[last]
      BY <2>3
    <2> QED BY <1>1, <1>3, <2>4 DEF Membership
  <1> QED
    BY <1>2, <1>3

\* A room with a change of membership is known.
LEMMA MembershipOfChanged ==
    ASSUME timeline \in Seq(Event), NEW room \in Rooms, NEW n \in 0..Len(timeline),
           Changes(room, n) # {}
    PROVE  /\ Membership(room, n) \in {"invited", "joined", "left"}
           /\ \E last \in 1..n :
                 /\ Changes(room, n) \subseteq 1..last
                 /\ timeline[last].room = room /\ timeline[last].kind # "message"
                 /\ timeline[last].kind = Membership(room, n)
  <1> DEFINE last == CHOOSE k \in Changes(room, n) : \A j \in Changes(room, n) : j <= k
  <1>1. Changes(room, n) \subseteq 1..n /\ n \in Nat
    BY DEF Changes
  <1>2. \E k \in Changes(room, n) : \A j \in Changes(room, n) : j <= k
    BY <1>1, Greatest
  <1>3. last \in Changes(room, n) /\ \A j \in Changes(room, n) : j <= last
    BY <1>2
  <1>4. Membership(room, n) = timeline[last].kind
    BY DEF Membership
  <1> HIDE DEF last
  <1>5. /\ last \in 1..n /\ last \in 1..Len(timeline)
        /\ timeline[last].room = room /\ timeline[last].kind # "message"
    BY <1>1, <1>3 DEF Changes
  <1>6. timeline[last] \in Event
    BY <1>5, ElementOfSeq
  <1>7. timeline[last].kind \in {"invited", "joined", "left"}
    BY <1>5, <1>6 DEF Event, Kinds
  <1>8. Changes(room, n) \subseteq 1..last
    BY <1>1, <1>3, <1>5
  <1> QED
    BY <1>4, <1>5, <1>7, <1>8

LEMMA AnsweredStays ==
    ASSUME timeline \in Seq(Event), timeline' \in Seq(Event), Len(timeline) <= Len(timeline'),
           \A k \in 1..Len(timeline) : timeline'[k] = timeline[k],
           NEW since \in Nat, NEW until \in 0..Len(timeline)
    PROVE  Answered(since, until)' = Answered(since, until)
  <1>1. \A k \in (since + 1)..until : timeline'[k] = timeline[k]
    OBVIOUS
  <1> QED
    BY <1>1 DEF Answered

LEMMA WrittenStays ==
    ASSUME timeline \in Seq(Event), timeline' \in Seq(Event), Len(timeline) <= Len(timeline'),
           \A k \in 1..Len(timeline) : timeline'[k] = timeline[k],
           NEW room \in Rooms, NEW since \in Nat, NEW until \in 0..Len(timeline)
    PROVE  Messages(room, since, until)' = Messages(room, since, until)
  <1>1. \A k \in (since + 1)..until : timeline'[k] = timeline[k]
    OBVIOUS
  <1>2. Written(room, since, until)' = Written(room, since, until)
    BY <1>1 DEF Written
  <1> QED
    BY <1>2 DEF Messages

----------------------------------------------------------------------------
(* The inductive invariant. *)

\* The types that matter here.
Typed ==
    /\ timeline \in Seq(Event)
    /\ joining \subseteq Rooms /\ dropped \subseteq Rooms
    /\ loop \in [Starts -> Labels] /\ promise \in [Starts -> Outcomes]
    /\ state.syncToken \in 0..Present /\ began \in 0..state.syncToken
    /\ state.rooms \in [Rooms -> Statuses]
    /\ state.pollingRetries \in Nat /\ failed \in Nat

\* A room hears messages while the client has joined it.
Spoken ==
    \A k \in 1..Present :
        timeline[k].kind = "message" => Membership(timeline[k].room, k) = "joined"

\* The status that the entries of a partial state give a room, if any.
Given(rooms, room) == MergeRoom(room, rooms, "unknown")

\* What the next process will begin with is as true as the store.
Faithful(kept) ==
    /\ kept.pollingRetries = 0
    /\ kept.syncToken \in 0..Present
    /\ \A room \in Rooms : Agrees(Given(kept.rooms, room), room, kept.syncToken)

Stored == Faithful(storage)

\* The entries and the messages of a room, in the answer between two tokens.
RoomOfAnswer(u, since, room) ==
    /\ IF room \in Answered(since, u.syncToken)
       THEN /\ Given(u.rooms, room) # "unknown"
            /\ Agrees(Given(u.rooms, room), room, u.syncToken)
       ELSE Given(u.rooms, room) = "unknown"
    /\ \/ u.messages[room] = Messages(room, since, u.syncToken)
       \/ u.messages[room] = <<>> /\ Membership(room, u.syncToken) = "invited"

\* An update with what a sync that began at a token was answered: the store
\* has that token still, or an equal update has moved it.
OfAnswerSince(u, since) ==
    /\ u.isRunning /\ u.syncToken \in since..Present
    /\ \A room \in Rooms : RoomOfAnswer(u, since, room)

OfAnswer(u) ==
    \E since \in 0..Present :
        state.syncToken \in {since, u.syncToken} /\ OfAnswerSince(u, since)

OfError(u) ==
    ~u.isRunning /\ u.syncToken = 0 /\ u.rooms = {} /\ u.messages = NoMessages

\* All updates that wait are those of one call, which is over.
Waiting ==
    /\ updates \in Seq({updates[1]})
    /\ updates # <<>> =>
          /\ call = <<>>
          /\ updates[1].pollingRetries \in 0..failed
          /\ OfAnswer(updates[1]) \/ OfError(updates[1])

\* The call under way began at the token the store still has.
Called ==
    call # <<>> =>
        /\ updates = <<>>
        /\ call[1].since = state.syncToken
        /\ call[1].atLeast \in state.syncToken..Present

\* The retries counted are failures.
Counted ==
    /\ state.pollingRetries <= failed
    /\ RetriesBeforeGivingUp

\* A loop that polls has an access token; a promise is settled by such a loop
\* or by a login that failed.
Authorized ==
    \A s \in Starts :
        /\ loop[s] \in {"syncing", "timer", "threw", "gaveUp"} => state.accessToken
        /\ promise[s] \in {"resolved", "rejected", "resumed", "refused"} =>
              loop[s] \in {"syncing", "timer", "threw", "gaveUp", "stopped"}

\* The application has gone on after start.
GoneOn == \E s \in Starts : loop[s] # "stopped" /\ promise[s] \in {"resumed", "refused"}

Remembers ==
    GoneOn => \A room \in Rooms :
        /\ state.rooms[room] = "invited"
        /\ room \notin Answered(state.syncToken, Present)
        => room \in joining \cup dropped

IInv ==
    /\ Typed /\ Spoken /\ Stored /\ StoreAgrees /\ Waiting /\ Called /\ Counted
    /\ Authorized /\ Remembers

LEMMA GivenBy ==
    ASSUME NEW rooms, NEW room, NEW old
    PROVE  /\ MergeRoom(room, rooms, old)
                = IF Given(rooms, room) = "unknown" THEN old ELSE Given(rooms, room)
           /\ Given(rooms, room) \in Statuses
           /\ Given(rooms, room) = "invited" => <<room, "invited">> \in rooms
           /\ Given(rooms, room) = "unknown" => <<room, "invited">> \notin rooms
  BY DEF Given, MergeRoom, Statuses

LEMMA NoneGiven == ASSUME NEW room PROVE Given({}, room) = "unknown"
  BY DEF Given, MergeRoom

LEMMA InitIInv == Init => IInv
  <1> SUFFICES ASSUME Init PROVE IInv
    OBVIOUS
  <1> USE BoundsAreNatural
  <1>1. Present = 0 /\ timeline \in Seq(Event)
    BY DEF Init, Present
  <1>2. Typed /\ Spoken
    BY <1>1 DEF Init, Typed, Spoken, Fresh, Labels, Outcomes, Statuses
  <1>0. \A room \in Rooms : Membership(room, 0) = "unknown"
    BY DEF Changes, Membership
  <1>3. Stored
    BY <1>0, <1>1, NoneGiven DEF Init, Stored, Faithful, Nothing, Agrees
  <1>4. StoreAgrees
    BY <1>0 DEF Init, StoreAgrees, Fresh, Agrees
  <1>5. Waiting /\ Called /\ Counted
    BY DEF Init, Waiting, Called, Counted, RetriesBeforeGivingUp, Fresh
  <1>6. Authorized /\ Remembers
    BY DEF Init, Authorized, Remembers, GoneOn
  <1> QED
    BY <1>2, <1>3, <1>4, <1>5, <1>6 DEF IInv

----------------------------------------------------------------------------
(* Steps that leave the store alone. *)

Grown ==
    /\ timeline' \in Seq(Event) /\ Len(timeline) <= Len(timeline')
    /\ \A k \in 1..Len(timeline) : timeline'[k] = timeline[k]

LEMMA GrownByEvent ==
    ASSUME Typed, NEW room \in Rooms, NEW kind \in Kinds, Happens(room, kind)
    PROVE  /\ Grown /\ Present' = Present + 1
           /\ timeline'[Present + 1].room = room
  <1>1. [room |-> room, kind |-> kind] \in Event
    BY DEF Event
  <1> QED
    BY <1>1, AppendProperties DEF Happens, Present, Grown, Typed

LEMMA NotGrown == ASSUME Typed, UNCHANGED timeline PROVE Grown /\ Present' = Present
  BY DEF Typed, Grown, Present

LEMMA Lengths == Typed => Present \in Nat /\ Present = Len(timeline)
  BY DEF Typed, Present

\* The events up to a token, seen from a later time.
LEMMA Later ==
    ASSUME Typed, Grown
    PROVE  /\ Present' \in Nat /\ Present <= Present'
           /\ \A room \in Rooms : \A n \in 0..Present : Membership(room, n)' = Membership(room, n)
           /\ \A since \in Nat : \A until \in 0..Present :
                 Answered(since, until)' = Answered(since, until)
           /\ \A since \in 0..Present :
                 Answered(since, Present) \subseteq Answered(since, Present)'
           /\ \A room \in Rooms : \A since \in Nat : \A until \in 0..Present :
                 Messages(room, since, until)' = Messages(room, since, until)
  <1>1. Present' \in Nat /\ Present <= Present' /\ Present \in Nat
    BY DEF Typed, Grown, Present
  <1>2. \A room \in Rooms : \A n \in 0..Present : Membership(room, n)' = Membership(room, n)
    BY MembershipStays DEF Typed, Grown, Present
  <1>3. \A since \in Nat : \A until \in 0..Present : Answered(since, until)' = Answered(since, until)
    BY AnsweredStays DEF Typed, Grown, Present
  <1>4. ASSUME NEW since \in 0..Present, NEW room \in Answered(since, Present)
        PROVE  room \in Answered(since, Present)'
    <2>1. PICK k \in (since + 1)..Present : timeline[k].room = room
      BY DEF Answered
    <2>2. k \in (since + 1)..Present' /\ timeline'[k] = timeline[k]
      BY <1>1, <2>1 DEF Grown, Present
    <2> QED BY <2>1, <2>2 DEF Answered
  <1>5. ASSUME NEW room \in Rooms, NEW since \in Nat, NEW until \in 0..Present
        PROVE  Messages(room, since, until)' = Messages(room, since, until)
    BY WrittenStays DEF Typed, Grown, Present
  <1> QED
    BY <1>1, <1>2, <1>3, <1>4, <1>5

LEMMA AgreesStays ==
    ASSUME Typed, Grown, NEW status, NEW room \in Rooms, NEW n \in 0..Present
    PROVE  Agrees(status, room, n)' <=> Agrees(status, room, n)
  BY Later DEF Agrees

LEMMA FaithfulStays == ASSUME Typed, Grown, NEW kept, Faithful(kept) PROVE Faithful(kept)'
  <1>1. /\ kept.pollingRetries = 0 /\ kept.syncToken \in 0..Present
        /\ \A room \in Rooms : Agrees(Given(kept.rooms, room), room, kept.syncToken)
    BY DEF Faithful
  <1>2. ASSUME NEW room \in Rooms PROVE Agrees(Given(kept.rooms, room), room, kept.syncToken)'
    BY <1>1, AgreesStays
  <1>3. kept.syncToken \in 0..Present'
    BY <1>1, Later, Lengths
  <1> QED
    BY <1>1, <1>2, <1>3 DEF Faithful, Agrees, Given

LEMMA StoredStays == ASSUME Typed, Stored, Grown, storage' = storage PROVE Stored'
  <1>1. PICK kept : kept = storage
    OBVIOUS
  <1>2. Faithful(kept)'
    BY <1>1, FaithfulStays DEF Stored
  <1> QED
    BY <1>1, <1>2 DEF Stored, Faithful, Agrees, Given

LEMMA StoreAgreesStays ==
    ASSUME Typed, StoreAgrees, Grown, state'.syncToken = state.syncToken,
           \A room \in Rooms : state'.rooms[room] = state.rooms[room]
    PROVE  StoreAgrees'
  <1>1. \A room \in Rooms : Membership(room, state.syncToken)' = Membership(room, state.syncToken)
    BY Later DEF Typed
  <1> QED
    BY <1>1 DEF StoreAgrees, Agrees

LEMMA RoomOfAnswerStays ==
    ASSUME Typed, Grown, NEW u, NEW since \in 0..Present, u.syncToken \in since..Present,
           NEW room \in Rooms, RoomOfAnswer(u, since, room)
    PROVE  RoomOfAnswer(u, since, room)'
  <1>1. since \in Nat /\ u.syncToken \in 0..Present
    BY Lengths
  <1>2. /\ Answered(since, u.syncToken)' = Answered(since, u.syncToken)
        /\ Membership(room, u.syncToken)' = Membership(room, u.syncToken)
        /\ Messages(room, since, u.syncToken)' = Messages(room, since, u.syncToken)
    BY <1>1, Later
  <1> QED
    BY <1>2 DEF RoomOfAnswer, Agrees, Given

LEMMA OfAnswerSinceStays ==
    ASSUME Typed, Grown, NEW u, NEW since \in 0..Present, OfAnswerSince(u, since)
    PROVE  OfAnswerSince(u, since)'
  <1>1. u.isRunning /\ u.syncToken \in since..Present
    BY DEF OfAnswerSince
  <1>2. u.syncToken \in since..Present'
    BY <1>1, Later, Lengths
  <1>3. \A room \in Rooms : RoomOfAnswer(u, since, room)'
    BY <1>1, RoomOfAnswerStays DEF OfAnswerSince
  <1> QED
    BY <1>1, <1>2, <1>3 DEF OfAnswerSince

LEMMA OfAnswerStays ==
    ASSUME Typed, Grown, state'.syncToken = state.syncToken, NEW u, OfAnswer(u)
    PROVE  OfAnswer(u)'
  <1>1. PICK since \in 0..Present :
          state.syncToken \in {since, u.syncToken} /\ OfAnswerSince(u, since)
    BY DEF OfAnswer
  <1>2. since \in 0..Present' /\ OfAnswerSince(u, since)'
    BY <1>1, OfAnswerSinceStays, Later, Lengths
  <1> QED
    BY <1>1, <1>2 DEF OfAnswer

LEMMA WaitingStays ==
    ASSUME Typed, Waiting, Called, Grown,
           UNCHANGED <<updates, call, failed>>, state'.syncToken = state.syncToken
    PROVE  Waiting' /\ Called'
  <1>1. Called'
    BY Later, Lengths DEF Called, Typed
  <1>2. OfAnswer(updates[1]) => OfAnswer(updates[1])'
    <2>1. PICK u : u = updates[1]
      OBVIOUS
    <2>2. OfAnswer(u) => OfAnswer(u)'
      BY OfAnswerStays
    <2> QED BY <2>1, <2>2 DEF OfAnswer
  <1>3. Waiting'
    BY <1>2 DEF Waiting, OfError
  <1> QED
    BY <1>1, <1>3

\* The homeserver, the joins, and a step that stutters.
LEMMA Quiet ==
    ASSUME IInv, Grown, UNCHANGED <<state, storage, updates, call, loop, promise, failed, began>>,
           joining' \subseteq Rooms, dropped' \subseteq Rooms
    PROVE  Typed' /\ Stored' /\ StoreAgrees' /\ Waiting' /\ Called' /\ Counted' /\ Authorized'
  <1>1. Typed'
    BY Later, Lengths DEF IInv, Typed, Grown
  <1>2. Stored' /\ StoreAgrees' /\ Waiting' /\ Called'
    BY StoredStays, StoreAgreesStays, WaitingStays DEF IInv
  <1>3. Counted' /\ Authorized'
    BY DEF IInv, Counted, RetriesBeforeGivingUp, Authorized
  <1> QED
    BY <1>1, <1>2, <1>3

LEMMA SpokenStays == ASSUME Typed, Spoken, Grown, Present' = Present PROVE Spoken'
  <1>1. Present \in Nat /\ \A k \in 1..Present : k \in 0..Present /\ timeline'[k] = timeline[k]
    BY Lengths DEF Grown
  <1>2. ASSUME NEW k \in 1..Present, timeline[k].kind = "message"
        PROVE  Membership(timeline[k].room, k)' = "joined"
    <2>1. PICK room \in Rooms : room = timeline[k].room
      <3>1. timeline[k] \in Event
        BY Lengths, ElementOfSeq DEF Typed
      <3> QED BY <3>1 DEF Event
    <2>2. Membership(room, k) = "joined"
      BY <1>2, <2>1 DEF Spoken
    <2>3. Membership(room, k)' = "joined"
      BY <1>1, <2>2, Later
    <2> QED BY <1>1, <2>1, <2>3
  <1> QED
    BY <1>1, <1>2 DEF Spoken

\* A room is remembered while it is being joined, or its join has failed.
LEMMA RemembersStays ==
    ASSUME Typed, Remembers, Grown, GoneOn' => GoneOn, state'.syncToken = state.syncToken,
           \A room \in Rooms : state'.rooms[room] = state.rooms[room],
           \A room \in Rooms :
              /\ state.rooms[room] = "invited"
              /\ room \notin Answered(state.syncToken, Present)'
              => (room \in joining \cup dropped => room \in joining' \cup dropped')
    PROVE  Remembers'
  <1>1. Answered(state.syncToken, Present) \subseteq Answered(state.syncToken, Present)'
    BY Later DEF Typed
  <1> QED
    BY <1>1 DEF Remembers

LEMMA SpokenGrows ==
    ASSUME Typed, Spoken, NEW room \in Rooms, NEW kind \in Kinds, Happens(room, kind),
           kind = "message" => Membership(room, Present) = "joined"
    PROVE  Spoken'
  <1>0. Present \in Nat /\ Present = Len(timeline)
    BY Lengths
  <1>1. Grown /\ Present' = Present + 1
    BY GrownByEvent
  <1>2. /\ timeline'[Present + 1].room = room /\ timeline'[Present + 1].kind = kind
        /\ \A k \in 1..Present : timeline'[k] = timeline[k]
    BY <1>0, AppendProperties DEF Happens, Typed
  <1>3. ASSUME NEW k \in 1..Present, timeline[k].kind = "message"
        PROVE  Membership(timeline[k].room, k)' = "joined"
    <2>1. PICK r \in Rooms : r = timeline[k].room
      <3>1. timeline[k] \in Event
        BY <1>0, ElementOfSeq DEF Typed
      <3> QED BY <3>1 DEF Event
    <2>2. Membership(r, k) = "joined"
      BY <1>3, <2>1 DEF Spoken
    <2>3. k \in 0..Present
      BY <1>0
    <2>4. Membership(r, k)' = "joined"
      BY <1>1, <2>2, <2>3, Later
    <2> QED BY <1>2, <2>1, <2>4
  <1>4. PICK n : n = Present
    OBVIOUS
  <1>5. ASSUME kind = "message" PROVE Membership(room, n + 1)' = "joined"
    <2>1. Membership(room, n) = "joined"
      BY <1>4, <1>5
    <2>2. Membership(room, n)' = "joined"
      BY <1>0, <1>1, <1>4, <2>1, Later
    <2>3. Changes(room, n + 1)' = Changes(room, n)'
      <3>1. 1..(n + 1) = 1..n \cup {n + 1}
        BY <1>0, <1>4
      <3> QED BY <1>2, <1>4, <1>5, <3>1 DEF Changes
    <2> QED BY <2>2, <2>3 DEF Membership
  <1> QED
    <2> SUFFICES ASSUME NEW k \in 1..(n + 1), timeline'[k].kind = "message"
                 PROVE  Membership(timeline[k].room, k)' = "joined"
      BY <1>1, <1>4 DEF Spoken
    <2>1. CASE k = n + 1
      <3>1. timeline'[k].room = room /\ timeline'[k].kind = kind
        BY <1>2, <1>4, <2>1
      <3>2. Membership(room, k)' = "joined"
        BY <1>5, <2>1, <3>1
      <3> QED BY <3>1, <3>2
    <2>2. CASE k \in 1..n
      <3>1. timeline'[k] = timeline[k]
        BY <1>2, <1>4, <2>2
      <3> QED BY <1>3, <1>4, <2>2, <3>1
    <2> QED BY <1>0, <1>4, <2>1, <2>2

LEMMA HappensKeeps ==
    ASSUME IInv, NEW room \in Rooms,
           Invite(room) \/ Write(room) \/ Kick(room) \/ Create(room)
    PROVE  IInv'
  <1>1. PICK kind \in Kinds : Happens(room, kind)
    BY DEF Invite, Write, Kick, Create, Kinds
  <1>2. UNCHANGED <<state, storage, updates, call, loop, promise, failed, joining, dropped, began>>
    BY DEF Invite, Write, Kick, Create, store, history, told
  <1>3. Grown
    BY <1>1, GrownByEvent DEF IInv
  <1>4. Remembers'
    BY <1>2, <1>3, RemembersStays DEF IInv, GoneOn
  <1>5. kind = "message" => Membership(room, Present) = "joined"
    <2>1. timeline' = Append(timeline, [room |-> room, kind |-> kind])
      BY <1>1 DEF Happens
    <2>2. timeline'[Present + 1].kind = kind
      BY <2>1, AppendProperties DEF IInv, Typed, Present
    <2>3. \A other : timeline' = Append(timeline, [room |-> room, kind |-> other]) => other = kind
      BY <2>1, <2>2, AppendProperties DEF IInv, Typed, Present
    <2> QED BY <2>3 DEF Invite, Write, Kick, Create, Happens
  <1>6. Spoken'
    BY <1>1, <1>5, SpokenGrows DEF IInv
  <1> QED
    BY <1>2, <1>3, <1>4, <1>6, Quiet DEF IInv, Typed

LEMMA StutterKeeps == ASSUME IInv, UNCHANGED vars PROVE IInv'
  <1>1. /\ UNCHANGED <<state, storage, updates, call, loop, promise, failed, joining, dropped, began>>
        /\ Grown /\ Present' = Present
    BY NotGrown DEF IInv, vars
  <1>2. Remembers' /\ Spoken'
    BY <1>1, RemembersStays, SpokenStays DEF IInv, GoneOn
  <1> QED
    BY <1>1, <1>2, Quiet DEF IInv, Typed

\* The room a status speaks of is the one the homeserver has, unless it has
\* had an event since.
LEMMA StatusIsCurrent ==
    ASSUME Typed, StoreAgrees, NEW room \in Rooms,
           room \notin Answered(state.syncToken, Present)
    PROVE  Agrees(state.rooms[room], room, Present)
  BY MembershipUntil, Lengths DEF Typed, StoreAgrees, Agrees

LEMMA JoinedKeeps == ASSUME IInv, NEW room \in Rooms, Joined(room) PROVE IInv'
  <1>1. /\ UNCHANGED <<state, storage, updates, call, loop, promise, failed, dropped, began>>
        /\ joining' = joining \ {room}
    BY DEF Joined, store, history, told
  <1>2. CASE Membership(room, Present) = "invited" /\ Happens(room, "joined")
    <2>1. Grown /\ Present' = Present + 1 /\ timeline'[Present + 1].room = room
      BY <1>2, GrownByEvent DEF IInv, Kinds
    <2>2. room \in Answered(state.syncToken, Present)'
      <3>1. Present + 1 \in (state.syncToken + 1)..Present'
        BY <2>1, Lengths DEF IInv, Typed
      <3> QED BY <1>1, <2>1, <3>1 DEF Answered
    <2>3. Remembers'
      BY <1>1, <2>1, <2>2, RemembersStays DEF IInv, GoneOn
    <2>4. Spoken'
      BY <1>2, SpokenGrows DEF IInv, Kinds
    <2> QED
      BY <1>1, <2>1, <2>3, <2>4, Quiet DEF IInv, Typed
  <1>3. CASE Membership(room, Present) # "invited" /\ UNCHANGED timeline
    <2>1. Grown /\ Present' = Present
      BY <1>3, NotGrown DEF IInv
    <2>2. ~(/\ state.rooms[room] = "invited"
            /\ room \notin Answered(state.syncToken, Present))
      BY <1>3, StatusIsCurrent DEF IInv, Agrees
    <2>3. Answered(state.syncToken, Present)' = Answered(state.syncToken, Present)
      BY <1>1, <1>3, <2>1 DEF Answered
    <2>4. Remembers' /\ Spoken'
      BY <1>1, <2>1, <2>2, <2>3, RemembersStays, SpokenStays DEF IInv, GoneOn
    <2> QED
      BY <1>1, <2>1, <2>4, Quiet DEF IInv, Typed
  <1> QED
    BY <1>2, <1>3 DEF Joined

LEMMA JoinFailsKeeps == ASSUME IInv, NEW room \in Rooms, JoinFails(room) PROVE IInv'
  <1>1. /\ UNCHANGED <<timeline, state, storage, updates, call, loop, promise, failed, began>>
        /\ joining' = joining \ {room} /\ dropped' = dropped \cup {room}
    BY DEF JoinFails, store, told
  <1>2. Grown /\ Present' = Present
    BY <1>1, NotGrown DEF IInv
  <1>3. Remembers' /\ Spoken'
    BY <1>1, <1>2, RemembersStays, SpokenStays DEF IInv, GoneOn
  <1> QED
    BY <1>1, <1>2, <1>3, Quiet DEF IInv, Typed

\* The calls of start, and what the application does once one is settled.
LEMMA StartKeeps == ASSUME IInv, NEW s \in Starts, Start(s) \/ LoginFails(s) PROVE IInv'
  <1>1. /\ UNCHANGED <<timeline, state, storage, updates, call, failed, joining, dropped, began>>
        /\ \/ /\ loop[s] = "none" /\ loop' = [loop EXCEPT ![s] = "login"]
              /\ promise' = [promise EXCEPT ![s] = "pending"]
           \/ /\ loop[s] = "login" /\ loop' = [loop EXCEPT ![s] = "stopped"]
              /\ promise' = [promise EXCEPT ![s] = "rejected"]
    BY DEF Start, LoginFails, store, history, told
  <1>2. Grown /\ Present' = Present
    BY <1>1, NotGrown DEF IInv
  <1>3. Typed'
    BY <1>1, <1>2 DEF IInv, Typed, Labels, Outcomes
  <1>4. Spoken' /\ Stored' /\ StoreAgrees' /\ Waiting' /\ Called'
    BY <1>1, <1>2, SpokenStays, StoredStays, StoreAgreesStays, WaitingStays DEF IInv
  <1>5. Counted' /\ Authorized'
    BY <1>1 DEF IInv, Typed, Counted, RetriesBeforeGivingUp, Authorized
  <1>6. GoneOn' => GoneOn
    BY <1>1 DEF IInv, Typed, GoneOn
  <1>7. Remembers'
    BY <1>1, <1>2, <1>6, RemembersStays DEF IInv
  <1> QED
    BY <1>3, <1>4, <1>5, <1>7 DEF IInv

LEMMA ResumeKeeps == ASSUME IInv, NEW s \in Starts, Resume(s) PROVE IInv'
  <1> DEFINE rooms == IF state.accessToken THEN JoinRooms(InvitedRooms, state) ELSE {}
  <1>1. /\ UNCHANGED <<timeline, state, storage, updates, call, loop, failed, began>>
        /\ promise[s] \in {"resolved", "rejected"}
        /\ promise' = [promise EXCEPT ![s] = IF @ = "resolved" THEN "resumed" ELSE "refused"]
        /\ joining' = joining \cup rooms /\ dropped' = dropped \ rooms
    BY DEF Resume, Join, store, told
  <1>2. Grown /\ Present' = Present
    BY <1>1, NotGrown DEF IInv
  <1>3. rooms \subseteq Rooms
    BY DEF JoinRooms, InvitedRooms
  <1>4. Typed'
    BY <1>1, <1>2, <1>3 DEF IInv, Typed, Outcomes
  <1>5. Spoken' /\ Stored' /\ StoreAgrees' /\ Waiting' /\ Called'
    BY <1>1, <1>2, SpokenStays, StoredStays, StoreAgreesStays, WaitingStays DEF IInv
  <1>6. Counted' /\ Authorized'
    BY <1>1 DEF IInv, Typed, Counted, RetriesBeforeGivingUp, Authorized
  <1>7. Remembers'
    <2> SUFFICES ASSUME GoneOn', NEW room \in Rooms,
                        state.rooms[room] = "invited",
                        room \notin Answered(state.syncToken, Present)'
                 PROVE  room \in joining' \cup dropped'
      BY <1>1 DEF Remembers
    <2>1. CASE room \in joining \cup dropped
      BY <1>1, <2>1
    <2>2. CASE loop[s] # "stopped"
      <3>1. state.accessToken
        BY <1>1, <2>2 DEF IInv, Authorized
      <3>2. room \in rooms
        BY <3>1 DEF JoinRooms, InvitedRooms
      <3> QED BY <1>1, <3>2
    <2>3. CASE loop[s] = "stopped" /\ room \notin joining \cup dropped
      <3>1. GoneOn
        BY <1>1, <2>3 DEF GoneOn, IInv, Typed
      <3>2. Answered(state.syncToken, Present)' = Answered(state.syncToken, Present)
        BY <1>1, <1>2 DEF Answered
      <3> QED BY <2>3, <3>1, <3>2 DEF IInv, Remembers
    <2> QED BY <2>1, <2>2, <2>3
  <1> QED
    BY <1>4, <1>5, <1>6, <1>7 DEF IInv

----------------------------------------------------------------------------
(* Logins and syncs. *)

LEMMA SetStateFields ==
    ASSUME NEW partial, NEW old
    PROVE  /\ SetState(partial, old).syncToken = Or(partial.syncToken, old.syncToken)
           /\ SetState(partial, old).pollingRetries
                = Or(partial.pollingRetries, old.pollingRetries)
           /\ SetState(partial, old).accessToken = (partial.accessToken \/ old.accessToken)
           /\ \A room \in Rooms : SetState(partial, old).rooms[room] =
                 IF Given(partial.rooms, room) = "unknown" THEN old.rooms[room]
                                                           ELSE Given(partial.rooms, room)
           /\ old.rooms \in [Rooms -> Statuses]
                => SetState(partial, old).rooms \in [Rooms -> Statuses]
  <1>0. PICK new, rooms : new = partial.rooms /\ rooms = old.rooms
    OBVIOUS
  <1>1. SetState(partial, old).rooms = MergeRooms(rooms, new)
    BY <1>0 DEF SetState
  <1>2. ASSUME NEW room \in Rooms
        PROVE  MergeRooms(rooms, new)[room] =
                 IF Given(new, room) = "unknown" THEN rooms[room] ELSE Given(new, room)
    <2>1. MergeRooms(rooms, new)[room] = MergeRoom(room, new, rooms[room])
      BY DEF MergeRooms
    <2>2. \A r : MergeRoom(room, new, r) = IF Given(new, room) = "unknown" THEN r ELSE Given(new, room)
      BY GivenBy
    <2> QED BY <2>1, <2>2
  <1>3. ASSUME rooms \in [Rooms -> Statuses]
        PROVE  MergeRooms(rooms, new) \in [Rooms -> Statuses]
    <2>1. \A room \in Rooms : Given(new, room) \in Statuses
      BY GivenBy
    <2>2. \A room \in Rooms : MergeRooms(rooms, new)[room] \in Statuses
      BY <1>2, <1>3, <2>1
    <2> QED BY <2>2 DEF MergeRooms
  <1> QED
    BY <1>0, <1>1, <1>2, <1>3 DEF SetState

LEMMA SyncKeeps ==
    ASSUME IInv, NEW s \in Starts, LoggedIn(s) \/ Tick(s)
    PROVE  IInv'
  <1>1. /\ Idle /\ loop[s] \in {"login", "timer"} /\ Sync(s, state.syncToken)
        /\ UNCHANGED <<timeline, joining, dropped, storage, updates, promise, failed, began>>
    BY DEF LoggedIn, Tick, store, history, told
  <1>2. /\ state'.syncToken = state.syncToken /\ state'.pollingRetries = state.pollingRetries
        /\ state'.accessToken
        /\ \A room \in Rooms : state'.rooms[room] = state.rooms[room]
        /\ state'.rooms \in [Rooms -> Statuses]
    <2>1. CASE LoggedIn(s)
      <3> DEFINE partial == [Nothing EXCEPT !.accessToken = TRUE]
      <3>1. state' = SetState(partial, state)
        BY <2>1 DEF LoggedIn
      <3>2. /\ partial.syncToken = 0 /\ partial.pollingRetries = 0 /\ partial.accessToken = TRUE
            /\ partial.rooms = {}
        BY DEF Nothing
      <3> HIDE DEF partial
      <3>3. /\ state'.syncToken = state.syncToken
            /\ state'.pollingRetries = state.pollingRetries
            /\ \A room \in Rooms : state'.rooms[room] = state.rooms[room]
            /\ state'.rooms \in [Rooms -> Statuses]
        <4>1. \A room : Given(partial.rooms, room) = "unknown"
          BY <3>2, NoneGiven
        <4>2. state.rooms \in [Rooms -> Statuses]
          BY DEF IInv, Typed
        <4>3. state'.rooms \in [Rooms -> Statuses]
          BY <3>1, <4>2, SetStateFields
        <4>4. \A room \in Rooms : state'.rooms[room] = state.rooms[room]
          BY <3>1, <4>1, SetStateFields
        <4> QED BY <3>1, <3>2, <4>3, <4>4, SetStateFields DEF Or
      <3>4. state'.accessToken
        BY <3>1, <3>2, SetStateFields, Zenon
      <3> QED BY <3>3, <3>4
    <2>2. CASE Tick(s)
      BY <2>2 DEF Tick, store, IInv, Typed, Authorized
    <2> QED BY <2>1, <2>2
  <1>3. Grown /\ Present' = Present
    BY <1>1, NotGrown DEF IInv
  <1>4. /\ updates = <<>> /\ loop' = [loop EXCEPT ![s] = "syncing"]
        /\ call' = IF call = <<>> THEN <<[since |-> state.syncToken, atLeast |-> Present]>>
                                  ELSE call
    BY <1>1 DEF Idle, Sync
  <1>5. Typed'
    BY <1>1, <1>2, <1>3, <1>4 DEF IInv, Typed, Labels
  <1>6. Spoken' /\ Stored' /\ StoreAgrees'
    BY <1>1, <1>2, <1>3, SpokenStays, StoredStays, StoreAgreesStays DEF IInv
  <1>7. Waiting'
    BY <1>1, <1>4 DEF Waiting, IInv
  <1>8. Called'
    <2>1. CASE call = <<>>
      <3>1. call'[1] = [since |-> state.syncToken, atLeast |-> Present]
        BY <1>4, <2>1
      <3> QED BY <1>1, <1>2, <1>3, <1>4, <3>1, Lengths DEF Called, IInv, Typed
    <2>2. CASE call # <<>>
      BY <1>1, <1>2, <1>3, <1>4, <2>2 DEF Called, IInv
    <2> QED BY <2>1, <2>2
  <1>9. Counted' /\ Authorized'
    BY <1>1, <1>2, <1>4 DEF IInv, Typed, Counted, RetriesBeforeGivingUp, Authorized
  <1>10. GoneOn' => GoneOn
    BY <1>1, <1>4 DEF IInv, Typed, GoneOn, Authorized
  <1>11. Remembers'
    BY <1>1, <1>2, <1>3, <1>10, RemembersStays DEF IInv
  <1> QED
    BY <1>5, <1>6, <1>7, <1>8, <1>9, <1>11 DEF IInv

\* The queue that the end of a call makes.
LEMMA Queue ==
    ASSUME NEW partial, UpdateForEach(partial)
    PROVE  /\ updates' \in Seq({updates'[1]})
           /\ updates' # <<>> => updates'[1] = partial
  <1>1. IsFiniteSet(Starts)
    BY FS_Interval, BoundsAreNatural DEF Starts
  <1>2. Cardinality(Syncing) \in Nat
    BY <1>1, FS_Subset, FS_CardinalityType DEF Syncing
  <1>3. updates' = [k \in 1..Cardinality(Syncing) |-> partial]
    BY DEF UpdateForEach
  <1>4. CASE Cardinality(Syncing) = 0
    BY <1>3, <1>4
  <1>5. CASE Cardinality(Syncing) # 0
    <2>1. updates'[1] = partial
      BY <1>2, <1>3, <1>5
    <2>2. updates' \in Seq({partial})
      BY <1>2, <1>3, IsASeq
    <2> QED BY <2>1, <2>2
  <1> QED
    BY <1>4, <1>5

\* What both ends of a call change.
LEMMA CallEnds ==
    ASSUME IInv, call # <<>>, call' = <<>>,
           NEW outcome \in {"resolved", "rejected"}, Settle(outcome),
           UNCHANGED <<timeline, joining, state, storage, dropped, began>>,
           loop' \in [Starts -> Labels], failed' \in Nat,
           \A s \in Starts : IF s \in Syncing THEN loop'[s] \in {"timer", "threw", "gaveUp"}
                                              ELSE loop'[s] = loop[s]
    PROVE  Typed' /\ Spoken' /\ Stored' /\ StoreAgrees' /\ Called' /\ Authorized' /\ Remembers'
  <1>1. Grown /\ Present' = Present
    BY NotGrown DEF IInv
  <1>2. /\ promise' \in [Starts -> Outcomes]
        /\ \A s \in Starts :
              \/ promise'[s] = promise[s]
              \/ s \in Syncing /\ promise[s] = "pending" /\ promise'[s] = outcome
    BY DEF Settle, IInv, Typed, Outcomes
  <1>3. \A s \in Starts : s \in Syncing <=> loop[s] = "syncing"
    BY DEF Syncing
  <1>4. Typed'
    BY <1>1, <1>2 DEF IInv, Typed
  <1>5. Spoken' /\ Stored' /\ StoreAgrees' /\ Called'
    BY <1>1, SpokenStays, StoredStays, StoreAgreesStays DEF IInv, Called
  <1>6. Authorized'
    BY <1>2, <1>3 DEF IInv, Authorized
  <1>7. GoneOn' => GoneOn
    BY <1>2, <1>3 DEF GoneOn
  <1>8. Remembers'
    BY <1>1, <1>7, RemembersStays DEF IInv
  <1> QED
    BY <1>4, <1>5, <1>6, <1>8

\* A room that had an event is one that the homeserver knows.
LEMMA AnsweredKnown ==
    ASSUME Typed, Spoken, NEW since \in Nat, NEW until \in 0..Present,
           NEW room \in Answered(since, until)
    PROVE  Membership(room, until) \in {"invited", "joined", "left"}
  <1>0. Present \in Nat /\ Present = Len(timeline) /\ timeline \in Seq(Event) /\ room \in Rooms
    BY Lengths DEF Typed, Answered
  <1>1. PICK k \in (since + 1)..until : timeline[k].room = room
    BY DEF Answered
  <1>2. k \in 1..until /\ k \in 1..Present
    BY <1>0, <1>1
  <1>3. Changes(room, until) # {}
    <2>1. CASE timeline[k].kind = "message"
      <3>1. Membership(room, k) = "joined"
        BY <1>1, <1>2, <2>1 DEF Spoken
      <3>2. Changes(room, k) # {}
        BY <3>1 DEF Membership
      <3>3. 1..k \subseteq 1..until
        BY <1>0, <1>2
      <3> QED BY <3>2, <3>3 DEF Changes
    <2>2. CASE timeline[k].kind # "message"
      BY <1>1, <1>2, <2>2 DEF Changes
    <2> QED BY <2>1, <2>2
  <1> QED
    BY <1>0, <1>3, MembershipOfChanged

LEMMA FromSyncGives ==
    ASSUME Typed, Spoken, NEW since \in Nat, NEW until \in 0..Present, NEW room \in Rooms,
           NEW twice, twice \subseteq (IF OneSection THEN {} ELSE Relisted(since, until))
    PROVE  IF room \in Answered(since, until)
           THEN /\ Given(FromSync(since, until, twice), room) # "unknown"
                /\ Agrees(Given(FromSync(since, until, twice), room), room, until)
           ELSE Given(FromSync(since, until, twice), room) = "unknown"
  <1>1. /\ twice \subseteq Answered(since, until)
        /\ room \in twice => ~OneSection /\ Membership(room, until) = "invited"
    BY DEF Relisted, Answered
  <1>2. PICK rooms : rooms = FromSync(since, until, twice)
    OBVIOUS
  <1>3. \A status : <<room, status>> \in rooms <=>
           \/ room \in Answered(since, until) /\ status = Membership(room, until)
           \/ room \in twice /\ status = "left"
    BY <1>2 DEF FromSync
  <1>4. CASE room \notin Answered(since, until)
    BY <1>1, <1>2, <1>3, <1>4 DEF Given, MergeRoom
  <1>5. CASE room \in Answered(since, until)
    <2>1. Membership(room, until) \in {"invited", "joined", "left"}
      BY <1>5, AnsweredKnown
    <2>2. /\ Given(rooms, room) # "unknown"
          /\ \/ Given(rooms, room) = Membership(room, until)
             \/ room \in twice /\ Given(rooms, room) = "left"
      BY <1>3, <1>5, <2>1 DEF Given, MergeRoom
    <2> QED BY <1>1, <1>2, <1>5, <2>2 DEF Agrees
  <1> QED
    BY <1>4, <1>5

\* The update that an answer makes is of a sync since the store's token.
LEMMA AnswerOf ==
    ASSUME IInv, NEW until \in Nat, NEW twice, SyncAnswers(until, twice)
    PROVE  \E partial :
              /\ UpdateForEach(partial) /\ OfAnswerSince(partial, state.syncToken)
              /\ partial = Synced(state.syncToken, until, twice)
              /\ partial.syncToken = until /\ partial.pollingRetries = 0
              /\ until \in state.syncToken..Present
              /\ twice \subseteq (IF OneSection THEN {} ELSE Relisted(state.syncToken, until))
  <1>0. PICK partial : partial = Synced(call[1].since, until, twice)
    OBVIOUS
  <1>1. /\ call # <<>> /\ until \in call[1].atLeast..Present /\ UpdateForEach(partial)
        /\ twice \subseteq (IF OneSection THEN {} ELSE Relisted(call[1].since, until))
    BY <1>0 DEF SyncAnswers
  <1>2. /\ partial.syncToken = until /\ partial.pollingRetries = 0 /\ partial.isRunning
        /\ partial.rooms = FromSync(call[1].since, until, twice)
        /\ partial.messages = MessagesFromSync(call[1].since, until, twice)
    BY <1>0 DEF Synced, Nothing
  <1>3. PICK since : since = state.syncToken
    OBVIOUS
  <1>4. /\ call[1].since = since /\ since \in 0..Present /\ since \in Nat
        /\ until \in since..Present /\ until \in 0..Present
    BY <1>1, <1>3, Lengths DEF IInv, Called, Typed
  <1>5. ASSUME NEW room \in Rooms PROVE RoomOfAnswer(partial, since, room)
    <2>1. IF room \in Answered(since, until)
          THEN /\ Given(partial.rooms, room) # "unknown"
               /\ Agrees(Given(partial.rooms, room), room, until)
          ELSE Given(partial.rooms, room) = "unknown"
      BY <1>1, <1>2, <1>4, FromSyncGives DEF IInv
    <2>2. \/ partial.messages[room] = Messages(room, since, until)
          \/ partial.messages[room] = <<>> /\ Membership(room, until) = "invited"
      BY <1>2, <1>4 DEF MessagesFromSync
    <2> QED BY <1>2, <2>1, <2>2 DEF RoomOfAnswer
  <1>6. OfAnswerSince(partial, since)
    BY <1>2, <1>4, <1>5 DEF OfAnswerSince
  <1> QED
    BY <1>0, <1>1, <1>2, <1>3, <1>4, <1>6

LEMMA SyncAnswersKeeps ==
    ASSUME IInv, NEW until \in Nat, NEW twice, SyncAnswers(until, twice)
    PROVE  IInv'
  <1>0. PICK partial :
          /\ UpdateForEach(partial) /\ OfAnswerSince(partial, state.syncToken)
          /\ partial.syncToken = until /\ partial.pollingRetries = 0
    BY AnswerOf
  <1>1. /\ call # <<>> /\ call' = <<>> /\ Settle("resolved")
        /\ loop' = [s \in Starts |-> IF s \in Syncing THEN "timer" ELSE loop[s]]
        /\ UNCHANGED <<timeline, joining, state, storage, dropped, failed, began>>
    BY DEF SyncAnswers, told
  <1>2. loop' \in [Starts -> Labels]
    BY <1>1 DEF IInv, Typed, Labels
  <1>3. Typed' /\ Spoken' /\ Stored' /\ StoreAgrees' /\ Called' /\ Authorized' /\ Remembers'
    BY <1>1, <1>2, CallEnds DEF IInv, Typed
  <1>4. Counted'
    BY <1>1 DEF IInv, Counted, RetriesBeforeGivingUp
  <1>5. OfAnswer(partial)'
    <2>1. OfAnswer(partial)
      BY <1>0 DEF OfAnswer, IInv, Typed
    <2> QED BY <1>1, <2>1, NotGrown, OfAnswerStays DEF IInv
  <1>6. Waiting'
    <2>1. /\ updates' \in Seq({updates'[1]})
          /\ updates' # <<>> => updates'[1] = partial
      BY <1>0, Queue
    <2>2. partial.pollingRetries \in 0..failed'
      BY <1>0, <1>1 DEF IInv, Typed
    <2> QED BY <1>1, <1>5, <2>1, <2>2 DEF Waiting
  <1> QED
    BY <1>3, <1>4, <1>6 DEF IInv

LEMMA SyncThrowsKeeps == ASSUME IInv, SyncThrows PROVE IInv'
  <1>1. /\ call # <<>> /\ call' = <<>> /\ Settle("resolved") /\ updates = <<>>
        /\ loop' = [s \in Starts |-> IF s \in Syncing THEN "threw" ELSE loop[s]]
        /\ UNCHANGED <<timeline, joining, state, storage, updates, dropped, failed, began>>
    BY DEF SyncThrows, Idle, store, history, told
  <1>2. loop' \in [Starts -> Labels]
    BY <1>1 DEF IInv, Typed, Labels
  <1>3. Typed' /\ Spoken' /\ Stored' /\ StoreAgrees' /\ Called' /\ Authorized' /\ Remembers'
    BY <1>1, <1>2, CallEnds DEF IInv, Typed
  <1>4. Counted' /\ Waiting'
    BY <1>1 DEF IInv, Counted, RetriesBeforeGivingUp, Waiting
  <1> QED
    BY <1>3, <1>4 DEF IInv

LEMMA SyncFailsKeeps == ASSUME IInv, SyncFails PROVE IInv'
  <1>0. PICK partial : partial = [Nothing EXCEPT !.pollingRetries = state.pollingRetries + 1]
    OBVIOUS
  <1>1. /\ call # <<>> /\ call' = <<>> /\ failed' = failed + 1
        /\ UpdateForEach(partial) /\ Settle("rejected")
        /\ loop' = [s \in Starts |->
              IF s \notin Syncing THEN loop[s]
              ELSE IF ContinueSyncing(state.pollingRetries) THEN "timer" ELSE "gaveUp"]
        /\ UNCHANGED <<timeline, joining, state, storage, dropped, began>>
    BY <1>0 DEF SyncFails, told
  <1>2. /\ partial.syncToken = 0 /\ partial.pollingRetries = state.pollingRetries + 1
        /\ ~partial.isRunning /\ partial.rooms = {} /\ partial.messages = NoMessages
    BY <1>0 DEF Nothing
  <1>3. loop' \in [Starts -> Labels]
    BY <1>1 DEF IInv, Typed, Labels
  <1>4. failed' \in Nat
    BY <1>1 DEF IInv, Typed
  <1>5. Typed' /\ Spoken' /\ Stored' /\ StoreAgrees' /\ Called' /\ Authorized' /\ Remembers'
    BY <1>1, <1>3, <1>4, CallEnds
  <1>6. Counted'
    BY <1>1 DEF IInv, Typed, Counted, RetriesBeforeGivingUp, ContinueSyncing, MAX_POLLING_RETRIES
  <1>7. Waiting'
    <2>1. /\ updates' \in Seq({updates'[1]})
          /\ updates' # <<>> => updates'[1] = partial
      BY <1>1, Queue
    <2>2. partial.pollingRetries \in 0..failed'
      BY <1>1, <1>2 DEF IInv, Typed, Counted
    <2> QED BY <1>1, <1>2, <2>1, <2>2 DEF Waiting, OfError
  <1> QED
    BY <1>5, <1>6, <1>7 DEF IInv

----------------------------------------------------------------------------
(* Updates and restarts. *)

\* What an update makes of the token and of the rooms.
LEMMA UpdatedStore ==
    ASSUME Typed, StoreAgrees, NEW u, OfAnswer(u) \/ OfError(u), NEW s, s = SetState(u, state)
    PROVE  /\ s.syncToken \in state.syncToken..Present
           /\ s.rooms \in [Rooms -> Statuses]
           /\ \A room \in Rooms :
                 /\ Agrees(s.rooms[room], room, s.syncToken)
                 /\ IF Given(u.rooms, room) = "unknown"
                    THEN /\ s.rooms[room] = state.rooms[room]
                         /\ room \in Answered(state.syncToken, Present)
                              => room \in Answered(s.syncToken, Present)
                    ELSE s.rooms[room] = Given(u.rooms, room)
           /\ OfAnswer(u) => s.syncToken = u.syncToken
           /\ OfError(u) => s.syncToken = state.syncToken
  <1>1. Present \in Nat /\ state.syncToken \in 0..Present
    BY Lengths DEF Typed
  <1>2. /\ s.syncToken = Or(u.syncToken, state.syncToken)
        /\ \A room \in Rooms : s.rooms[room] =
              IF Given(u.rooms, room) = "unknown" THEN state.rooms[room] ELSE Given(u.rooms, room)
    BY SetStateFields
  <1>3. s.rooms \in [Rooms -> Statuses]
    <2>1. state.rooms \in [Rooms -> Statuses]
      BY DEF Typed
    <2> QED BY <2>1, SetStateFields
  <1>4. CASE OfError(u)
    <2>1. s.syncToken = state.syncToken
      BY <1>2, <1>4 DEF OfError, Or
    <2>2. \A room : Given(u.rooms, room) = "unknown"
      BY <1>4, NoneGiven DEF OfError
    <2>3. \A room \in Rooms :
            s.rooms[room] = state.rooms[room] /\ Agrees(s.rooms[room], room, s.syncToken)
      BY <1>2, <2>1, <2>2 DEF StoreAgrees
    <2>4. OfAnswer(u) => FALSE
      BY <1>4 DEF OfError, OfAnswer, OfAnswerSince
    <2> QED BY <1>1, <1>3, <2>1, <2>2, <2>3, <2>4
  <1>5. CASE OfAnswer(u)
    <2>0. PICK since \in 0..Present :
            state.syncToken \in {since, u.syncToken} /\ OfAnswerSince(u, since)
      BY <1>5 DEF OfAnswer
    <2>1. /\ u.isRunning /\ u.syncToken \in since..Present
          /\ \A room \in Rooms :
                IF room \in Answered(since, u.syncToken)
                THEN /\ Given(u.rooms, room) # "unknown"
                     /\ Agrees(Given(u.rooms, room), room, u.syncToken)
                ELSE Given(u.rooms, room) = "unknown"
      BY <2>0 DEF OfAnswerSince, RoomOfAnswer
    <2>2. s.syncToken = u.syncToken /\ u.syncToken \in state.syncToken..Present
      BY <1>1, <1>2, <2>0, <2>1 DEF Or
    <2>3. ASSUME NEW room \in Rooms, room \notin Answered(since, u.syncToken)
          PROVE  Agrees(state.rooms[room], room, u.syncToken)
      <3>1. Membership(room, u.syncToken) = Membership(room, since)
        BY <1>1, <2>1, <2>3, MembershipUntil
      <3> QED BY <2>0, <3>1 DEF StoreAgrees, Agrees
    <2>4. ASSUME NEW room \in Rooms, room \notin Answered(since, u.syncToken),
                 room \in Answered(state.syncToken, Present)
          PROVE  room \in Answered(s.syncToken, Present)
      <3>1. PICK k \in (state.syncToken + 1)..Present : timeline[k].room = room
        BY <2>4 DEF Answered
      <3>2. k \notin (since + 1)..u.syncToken
        BY <2>4, <3>1 DEF Answered
      <3>3. k \in (u.syncToken + 1)..Present
        BY <1>1, <2>0, <2>1, <3>1, <3>2
      <3> QED BY <2>2, <3>1, <3>3 DEF Answered
    <2>5. OfError(u) => FALSE
      BY <2>1 DEF OfError
    <2>6. ASSUME NEW room \in Rooms
          PROVE  /\ Agrees(s.rooms[room], room, u.syncToken)
                 /\ IF Given(u.rooms, room) = "unknown"
                    THEN /\ s.rooms[room] = state.rooms[room]
                         /\ room \in Answered(state.syncToken, Present)
                              => room \in Answered(s.syncToken, Present)
                    ELSE s.rooms[room] = Given(u.rooms, room)
      BY <1>2, <2>1, <2>3, <2>4
    <2> QED BY <1>3, <2>2, <2>5, <2>6
  <1> QED
    BY <1>4, <1>5

\* The update that is first in the queue.
LEMMA FirstUpdate ==
    ASSUME IInv, updates # <<>>
    PROVE  \E u :
              /\ u = updates[1] /\ u = Head(updates) /\ updates \in Seq({u})
              /\ call = <<>> /\ u.pollingRetries \in 0..failed
              /\ OfAnswer(u) \/ OfError(u)
  <1>0. PICK u : u = updates[1]
    OBVIOUS
  <1>1. updates \in Seq({u})
    BY <1>0 DEF IInv, Waiting
  <1>2. Head(updates) = u
    BY <1>1, HeadTailProperties
  <1> QED
    BY <1>0, <1>1, <1>2 DEF IInv, Waiting

LEMMA UpdateKeeps == ASSUME IInv, Update PROVE IInv'
  <1>0. PICK u :
          /\ u = updates[1] /\ u = Head(updates) /\ updates \in Seq({u})
          /\ call = <<>> /\ u.pollingRetries \in 0..failed
          /\ OfAnswer(u) \/ OfError(u)
    BY FirstUpdate DEF Update
  <1> DEFINE rooms == JoinRooms(EmitInvite(u.rooms), state')
  <1>1. /\ state' = SetState(u, state) /\ updates # <<>>
        /\ joining' = joining \cup rooms /\ dropped' = dropped \ rooms
        /\ updates' = Tail(updates)
        /\ UNCHANGED <<timeline, storage, call, loop, promise, began, failed>>
    BY <1>0 DEF Update, Join
  <1>2. Grown /\ Present' = Present /\ Present \in Nat
    BY <1>1, NotGrown, Lengths DEF IInv
  <1>3. /\ state'.syncToken \in state.syncToken..Present
        /\ state'.rooms \in [Rooms -> Statuses]
        /\ \A room \in Rooms :
              /\ Agrees(state'.rooms[room], room, state'.syncToken)
              /\ IF Given(u.rooms, room) = "unknown"
                 THEN /\ state'.rooms[room] = state.rooms[room]
                      /\ room \in Answered(state.syncToken, Present)
                           => room \in Answered(state'.syncToken, Present)
                 ELSE state'.rooms[room] = Given(u.rooms, room)
        /\ OfAnswer(u) => state'.syncToken = u.syncToken
    BY <1>0, <1>1, UpdatedStore DEF IInv
  <1>4. /\ state'.pollingRetries \in Nat /\ state'.pollingRetries <= failed
    <2>1. state'.pollingRetries = Or(u.pollingRetries, state.pollingRetries)
      BY <1>1, SetStateFields
    <2> QED BY <1>0, <2>1 DEF IInv, Typed, Counted, Or
  <1>5. rooms \subseteq Rooms
    BY DEF JoinRooms, EmitInvite
  <1>6. Typed'
    <2>1. state'.syncToken \in 0..Present' /\ began' \in 0..state'.syncToken
      BY <1>1, <1>2, <1>3 DEF IInv, Typed
    <2> QED BY <1>1, <1>3, <1>4, <1>5, <2>1 DEF IInv, Typed
  <1>7. Spoken' /\ Stored'
    BY <1>1, <1>2, SpokenStays, StoredStays DEF IInv
  <1>8. StoreAgrees'
    <2>1. PICK token : token = state'.syncToken
      OBVIOUS
    <2>2. \A room \in Rooms : Membership(room, token)' = Membership(room, token)
      BY <1>1 DEF Membership, Changes
    <2> QED BY <1>3, <2>1, <2>2 DEF StoreAgrees, Agrees
  <1>9. OfAnswer(u) => OfAnswer(u)'
    <2> SUFFICES ASSUME OfAnswer(u) PROVE OfAnswer(u)'
      OBVIOUS
    <2>1. PICK since \in 0..Present :
            state.syncToken \in {since, u.syncToken} /\ OfAnswerSince(u, since)
      BY DEF OfAnswer
    <2>2. OfAnswerSince(u, since)'
      BY <1>2, <2>1, OfAnswerSinceStays DEF IInv
    <2> QED BY <1>2, <1>3, <2>2 DEF OfAnswer
  <1>10. Waiting'
    <2>1. updates' \in Seq({u})
      BY <1>0, <1>1, HeadTailProperties
    <2>2. updates' # <<>> => updates'[1] = u
      <3>1. updates' # <<>> => 1 \in 1..Len(updates')
        BY <2>1, EmptySeq
      <3> QED BY <2>1, <3>1, ElementOfSeq
    <2>3. updates' \in Seq({updates'[1]})
      <3>1. CASE updates' = <<>>
        BY <3>1, EmptySeq
      <3>2. CASE updates' # <<>>
        BY <2>1, <2>2, <3>2
      <3> QED BY <3>1, <3>2
    <2>4. updates' # <<>> => OfAnswer(updates[1])' \/ OfError(updates[1])'
      BY <1>0, <1>9, <2>2 DEF OfAnswer, OfAnswerSince, RoomOfAnswer, OfError
    <2> QED BY <1>0, <1>1, <2>2, <2>3, <2>4 DEF Waiting
  <1>11. Called'
    BY <1>0, <1>1 DEF Called
  <1>12. Counted'
    BY <1>1, <1>4 DEF IInv, Counted, RetriesBeforeGivingUp
  <1>13. Authorized'
    <2>1. state.accessToken => state'.accessToken
      BY <1>1, SetStateFields, Zenon
    <2> QED BY <1>1, <2>1 DEF IInv, Authorized
  <1>14. Remembers'
    <2> SUFFICES ASSUME GoneOn', NEW room \in Rooms,
                        state'.rooms[room] = "invited",
                        room \notin Answered(state.syncToken, Present)'
                 PROVE  room \in joining' \cup dropped'
      BY DEF Remembers
    <2>1. CASE Given(u.rooms, room) # "unknown"
      <3>1. Given(u.rooms, room) = "invited"
        BY <1>3, <2>1
      <3>2. <<room, "invited">> \in u.rooms
        BY <3>1, GivenBy
      <3>3. room \in rooms
        BY <3>2 DEF JoinRooms, EmitInvite
      <3> QED BY <1>1, <3>3
    <2>2. CASE Given(u.rooms, room) = "unknown"
      <3>1. room \notin Answered(state'.syncToken, Present)
        BY <1>1, <1>2 DEF Answered
      <3>2. /\ state.rooms[room] = "invited"
            /\ room \notin Answered(state.syncToken, Present)
        BY <1>3, <2>2, <3>1
      <3>3. GoneOn
        BY <1>1 DEF GoneOn
      <3>4. room \in joining \cup dropped
        BY <3>2, <3>3 DEF IInv, Remembers
      <3> QED BY <1>1, <3>4
    <2> QED BY <2>1, <2>2
  <1> QED
    BY <1>6, <1>7, <1>8, <1>10, <1>11, <1>12, <1>13, <1>14 DEF IInv

\* What is preserved of a store is as true as the store.
LEMMA PreservedFaithful ==
    ASSUME NEW s, s.rooms \in [Rooms -> Statuses], s.syncToken \in 0..Present,
           \A room \in Rooms : Agrees(s.rooms[room], room, s.syncToken)
    PROVE  Faithful(Preserved(s)) /\ Preserved(s).syncToken = s.syncToken
  <1>1. PICK kept : kept = Preserved(s)
    OBVIOUS
  <1>2. /\ kept.pollingRetries = 0 /\ kept.syncToken = s.syncToken
        /\ kept.rooms = {<<room, s.rooms[room]>> :
                            room \in {r \in Rooms : s.rooms[r] # "unknown"}}
    BY <1>1 DEF Preserved, Nothing
  <1>3. ASSUME NEW room \in Rooms PROVE Given(kept.rooms, room) = s.rooms[room]
    <2>1. \A status : <<room, status>> \in kept.rooms
                         <=> status = s.rooms[room] /\ status # "unknown"
      BY <1>2
    <2>2. s.rooms[room] \in Statuses
      OBVIOUS
    <2> QED BY <2>1, <2>2 DEF Given, MergeRoom, Statuses
  <1> QED
    BY <1>1, <1>2, <1>3 DEF Faithful

LEMMA NothingFaithful == ASSUME Typed PROVE Faithful(Nothing) /\ Nothing.syncToken = 0
  <1>1. \A room \in Rooms : Membership(room, 0) = "unknown"
    BY DEF Membership, Changes
  <1> QED
    BY <1>1, Lengths, NoneGiven DEF Faithful, Nothing, Agrees

LEMMA PersistKeeps == ASSUME IInv, Persist PROVE IInv'
  <1>1. /\ storage' = Preserved(state)
        /\ UNCHANGED <<timeline, state, updates, call, loop, promise, failed, joining, dropped, began>>
    BY DEF Persist, history, told
  <1>2. Grown /\ Present' = Present
    BY <1>1, NotGrown DEF IInv
  <1>3. Typed' /\ Spoken' /\ StoreAgrees' /\ Waiting' /\ Called'
    BY <1>1, <1>2, SpokenStays, StoreAgreesStays, WaitingStays DEF IInv, Typed
  <1>4. Stored'
    <2>1. PICK kept : kept = Preserved(state)
      OBVIOUS
    <2>2. Faithful(kept)
      BY <2>1, PreservedFaithful DEF IInv, Typed, StoreAgrees
    <2>3. Faithful(kept)'
      BY <1>2, <2>2, FaithfulStays DEF IInv
    <2> QED BY <1>1, <2>1, <2>3 DEF Stored, Faithful, Agrees, Given
  <1>5. Counted' /\ Authorized'
    BY <1>1 DEF IInv, Counted, RetriesBeforeGivingUp, Authorized
  <1>6. Remembers'
    BY <1>1, <1>2, RemembersStays DEF IInv, GoneOn
  <1> QED
    BY <1>3, <1>4, <1>5, <1>6 DEF IInv

\* The next process, with what the one before left.
LEMMA NewProcessKeeps ==
    ASSUME Typed, Spoken, NEW stored, Faithful(stored), NewProcess(stored)
    PROVE  IInv' /\ state'.syncToken = stored.syncToken
  <1>1. /\ storage' = stored /\ state' = SetState(stored, Fresh) /\ began' = stored.syncToken
        /\ updates' = <<>> /\ call' = <<>> /\ joining' = {} /\ dropped' = {}
        /\ loop' = [s \in Starts |-> IF loop[s] = "none" THEN "none" ELSE "stopped"]
        /\ promise' = [s \in Starts |-> IF loop[s] = "none" THEN "none" ELSE "gone"]
        /\ failed' = 0 /\ UNCHANGED timeline
    BY DEF NewProcess
  <1>2. Grown /\ Present' = Present /\ Present \in Nat
    BY <1>1, NotGrown, Lengths
  <1>3. Faithful(stored)'
    BY <1>2, FaithfulStays
  <1>4. Stored'
    BY <1>1, <1>3 DEF Stored, Faithful, Agrees, Given
  <1>5. /\ Fresh.syncToken = 0 /\ Fresh.pollingRetries = 0
        /\ \A room \in Rooms : Fresh.rooms[room] = "unknown"
        /\ Fresh.rooms \in [Rooms -> Statuses]
    BY DEF Fresh, Statuses
  <1>6. stored.syncToken \in 0..Present /\ stored.pollingRetries = 0
    BY DEF Faithful
  <1>7. /\ state'.syncToken = stored.syncToken /\ state'.pollingRetries = 0
        /\ \A room \in Rooms : state'.rooms[room] = Given(stored.rooms, room)
    <2>1. /\ state'.syncToken = Or(stored.syncToken, 0)
          /\ state'.pollingRetries = Or(stored.pollingRetries, 0)
      BY <1>1, <1>5, SetStateFields
    <2>2. \A room \in Rooms : state'.rooms[room] =
             IF Given(stored.rooms, room) = "unknown" THEN Fresh.rooms[room]
                                                      ELSE Given(stored.rooms, room)
      BY <1>1, SetStateFields
    <2> QED BY <1>5, <1>6, <2>1, <2>2 DEF Or
  <1>8. state'.rooms \in [Rooms -> Statuses]
    BY <1>1, <1>5, SetStateFields
  <1>9. StoreAgrees'
    <2>1. \A room \in Rooms : Agrees(Given(stored.rooms, room), room, stored.syncToken)'
      BY <1>3 DEF Faithful
    <2> QED BY <1>7, <2>1 DEF StoreAgrees, Agrees, Given
  <1>10. Typed'
    <2>1. state'.syncToken \in 0..Present' /\ began' \in 0..state'.syncToken
      BY <1>1, <1>2, <1>6, <1>7
    <2> QED BY <1>1, <1>7, <1>8, <2>1 DEF Typed, Labels, Outcomes
  <1>11. Spoken'
    BY <1>2, SpokenStays
  <1>12. Waiting' /\ Called'
    BY <1>1, EmptySeq DEF Waiting, Called
  <1>13. Counted' /\ Authorized' /\ Remembers'
    BY <1>1, <1>7 DEF Counted, RetriesBeforeGivingUp, Authorized, Remembers, GoneOn
  <1> QED
    BY <1>4, <1>7, <1>9, <1>10, <1>11, <1>12, <1>13 DEF IInv

\* What the next process finds: what the storage had, or what the update that
\* was cut off left there.
LEMMA Found ==
    ASSUME IInv, Restart \/ CutOff
    PROVE  \E stored :
              /\ NewProcess(stored) /\ Faithful(stored)
              /\ \/ stored.syncToken = 0
                 \/ stored.syncToken = storage.syncToken
                 \/ \E u : /\ CutOff /\ u = Head(updates) /\ OfAnswer(u)
                           /\ stored.syncToken = u.syncToken
  <1>0. Faithful(storage) /\ Faithful(Nothing) /\ Nothing.syncToken = 0
    BY NothingFaithful DEF IInv, Stored
  <1>1. ASSUME NewProcess(Kept(storage))
        PROVE  \E stored :
                  /\ NewProcess(stored) /\ Faithful(stored)
                  /\ stored.syncToken = 0 \/ stored.syncToken = storage.syncToken
    BY <1>0, <1>1 DEF Kept
  <1>2. CASE Restart
    BY <1>1, <1>2 DEF Restart
  <1>3. CASE CutOff
    <2>0. PICK u :
            /\ u = Head(updates)
            /\ OfAnswer(u) \/ OfError(u)
      BY <1>3, FirstUpdate DEF CutOff
    <2>1. CASE NewProcess(Kept(storage))
      BY <1>1, <2>1
    <2>2. CASE u.isRunning /\ NewProcess(Kept(Preserved(SetState(u, state))))
      <3>1. OfAnswer(u)
        BY <2>0, <2>2 DEF OfError
      <3>2. PICK s : s = SetState(u, state)
        OBVIOUS
      <3>3. /\ s.syncToken \in 0..Present /\ s.rooms \in [Rooms -> Statuses]
            /\ \A room \in Rooms : Agrees(s.rooms[room], room, s.syncToken)
            /\ s.syncToken = u.syncToken
        <4>1. s.syncToken \in state.syncToken..Present
          BY <3>1, <3>2, UpdatedStore DEF IInv
        <4>2. s.syncToken \in 0..Present
          BY <4>1, Lengths DEF IInv, Typed
        <4> QED BY <3>1, <3>2, <4>2, UpdatedStore DEF IInv
      <3>4. Faithful(Preserved(s)) /\ Preserved(s).syncToken = s.syncToken
        BY <3>3, PreservedFaithful
      <3>5. CASE Durable
        BY <1>3, <2>0, <2>2, <3>1, <3>2, <3>3, <3>4, <3>5 DEF Kept
      <3>6. CASE ~Durable
        BY <1>0, <2>2, <3>6 DEF Kept
      <3> QED BY <3>5, <3>6
    <2>3. \/ NewProcess(Kept(storage))
          \/ u.isRunning /\ NewProcess(Kept(Preserved(SetState(u, state))))
      BY <1>3, <2>0 DEF CutOff
    <2> QED BY <2>1, <2>2, <2>3
  <1> QED
    BY <1>2, <1>3

LEMMA RestartKeeps == ASSUME IInv, Restart \/ CutOff PROVE IInv'
  <1>1. \E stored : NewProcess(stored) /\ Faithful(stored)
    BY Found
  <1> QED
    BY <1>1, NewProcessKeeps DEF IInv

----------------------------------------------------------------------------
LEMMA Steps == ASSUME IInv, [Next]_vars PROVE IInv'
  <1>1. ASSUME NEW room \in Rooms, Invite(room) \/ Write(room) \/ Kick(room) \/ Create(room)
        PROVE  IInv'
    BY <1>1, HappensKeeps
  <1>2. ASSUME NEW room \in Rooms, Joined(room) \/ JoinFails(room) PROVE IInv'
    BY <1>2, JoinedKeeps, JoinFailsKeeps
  <1>3. ASSUME NEW s \in Starts, Start(s) \/ LoginFails(s) \/ Resume(s) PROVE IInv'
    BY <1>3, StartKeeps, ResumeKeeps
  <1>4. ASSUME NEW s \in Starts, LoggedIn(s) \/ Tick(s) PROVE IInv'
    BY <1>4, SyncKeeps
  <1>5. ASSUME NEW until \in 0..MaxEvents, NEW twice, SyncAnswers(until, twice) PROVE IInv'
    BY <1>5, SyncAnswersKeeps, BoundsAreNatural
  <1>6. CASE SyncFails \/ SyncThrows
    BY <1>6, SyncFailsKeeps, SyncThrowsKeeps
  <1>7. CASE Update \/ Persist
    BY <1>7, UpdateKeeps, PersistKeeps
  <1>8. CASE Restart \/ CutOff
    BY <1>8, RestartKeeps
  <1>9. CASE UNCHANGED vars
    BY <1>9, StutterKeeps
  <1> QED
    BY <1>1, <1>2, <1>3, <1>4, <1>5, <1>6, <1>7, <1>8, <1>9
       DEF Next, Homeserver, Client, Application

\* The inductive invariant holds in every reachable state of the client
\* (MatrixClient.start, poll and joinRooms, MatrixClientStore.update).
THEOREM Invariance == Spec => []IInv
  BY InitIInv, Steps, PTL DEF Spec

\* The status the store gives a room is the membership the homeserver had at
\* the sync token (MatrixClientStore.mergeRooms, initFromStorage).
THEOREM Agreement == Spec => []StoreAgrees
  <1>1. IInv => StoreAgrees
    BY DEF IInv
  <1> QED BY <1>1, Invariance, PTL

\* A loop gives up only after more failures than there are retries
\* (MatrixClient.poll).
THEOREM Retries == Spec => []RetriesBeforeGivingUp
  <1>1. IInv => RetriesBeforeGivingUp
    BY DEF IInv, Counted
  <1> QED BY <1>1, Invariance, PTL

\* No invitation is forgotten, but one whose join failed (MatrixClient's
\* invitedRooms and joinRooms, MatrixClientEventEmitter.emitInvite).
THEOREM Invitations == Spec => []NoInvitationForgotten
  <1>1. IInv => NoInvitationForgotten
    BY StatusIsCurrent DEF IInv, Remembers, GoneOn, NoInvitationForgotten, Agrees
  <1> QED BY <1>1, Invariance, PTL
----------------------------------------------------------------------------
(* Types: what a partial state is made of. *)

LEMMA MembershipType ==
    ASSUME timeline \in Seq(Event), NEW room \in Rooms, NEW n \in 0..Len(timeline)
    PROVE  Membership(room, n) \in Statuses
  <1>1. CASE Changes(room, n) = {}
    BY <1>1 DEF Membership, Statuses
  <1>2. CASE Changes(room, n) # {}
    BY <1>2, MembershipOfChanged DEF Statuses
  <1> QED
    BY <1>1, <1>2

LEMMA WrittenType ==
    ASSUME NEW room, NEW since \in Nat, NEW until \in Nat
    PROVE  /\ Written(room, since, until) \subseteq 1..until
           /\ Written(room, since, until) \subseteq Nat
           /\ IsFiniteSet(Written(room, since, until))
  <1>1. Written(room, since, until) \subseteq 1..until
    BY DEF Written
  <1>2. Written(room, since, until) \subseteq Nat
    BY <1>1
  <1> QED
    BY <1>1, <1>2, FiniteRange

LEMMA MessagesType ==
    ASSUME NEW room, NEW since \in Nat, NEW until \in 0..MaxEvents
    PROVE  Messages(room, since, until) \in Seq(1..MaxEvents)
  <1>1. until \in Nat /\ 1..until \subseteq 1..MaxEvents
    BY BoundsAreNatural
  <1>2. /\ Written(room, since, until) \subseteq 1..MaxEvents
        /\ Written(room, since, until) \subseteq Nat /\ IsFiniteSet(Written(room, since, until))
    BY <1>1, WrittenType
  <1>3. Messages(room, since, until) \in Seq(Written(room, since, until))
    BY <1>2, InOrderProperties DEF Messages
  <1> QED
    BY <1>2, <1>3, SeqMonotonic

LEMMA NoMessagesType == IsMessages(NoMessages)
  BY EmptySeq DEF IsMessages, NoMessages

LEMMA PartialNothing ==
    /\ IsPartial(Nothing) /\ Fresh \in StoreState
    /\ IsPartial([Nothing EXCEPT !.accessToken = TRUE])
    /\ \A n \in Nat : IsPartial([Nothing EXCEPT !.pollingRetries = n])
  <1>1. 0 \in 0..MaxEvents /\ 0 \in Nat
    BY BoundsAreNatural
  <1>2. IsPartial(Nothing)
    BY <1>1, NoMessagesType DEF IsPartial, Nothing
  <1>3. Fresh \in StoreState
    BY <1>1 DEF Fresh, StoreState, Statuses
  <1>4. IsPartial([Nothing EXCEPT !.accessToken = TRUE])
    BY <1>1, NoMessagesType DEF IsPartial, Nothing
  <1>5. ASSUME NEW n \in Nat PROVE IsPartial([Nothing EXCEPT !.pollingRetries = n])
    BY <1>1, NoMessagesType DEF IsPartial, Nothing
  <1> QED
    BY <1>2, <1>3, <1>4, <1>5

LEMMA PartialAnswer ==
    ASSUME Typed, Present <= MaxEvents, NEW since \in 0..Present, NEW until \in since..Present,
           NEW twice \in SUBSET Rooms
    PROVE  IsPartial(Synced(since, until, twice))
  <1>1. /\ until \in 0..MaxEvents /\ since \in Nat /\ Present \in Nat /\ until \in 0..Present
    BY BoundsAreNatural, Lengths
  <1>2. \A room \in Rooms : Membership(room, until) \in Statuses
    BY <1>1, MembershipType, Lengths DEF Typed
  <1>3. FromSync(since, until, twice) \subseteq Rooms \X Statuses
    BY <1>2 DEF FromSync, Answered, Statuses
  <1>4. IsMessages(MessagesFromSync(since, until, twice))
    BY <1>1, MessagesType, EmptySeq DEF IsMessages, MessagesFromSync
  <1> QED
    BY <1>1, <1>3, <1>4 DEF IsPartial, Synced, Nothing

LEMMA PartialPreserved == ASSUME NEW s \in StoreState PROVE IsPartial(Preserved(s))
  <1>1. {<<room, s.rooms[room]>> : room \in {r \in Rooms : s.rooms[r] # "unknown"}}
          \subseteq Rooms \X Statuses
    BY DEF StoreState
  <1>2. s.syncToken \in 0..MaxEvents
    BY DEF StoreState
  <1> QED
    BY <1>1, <1>2, NoMessagesType DEF IsPartial, Preserved, Nothing

LEMMA SetStateType ==
    ASSUME NEW u, IsPartial(u), NEW s \in StoreState
    PROVE  SetState(u, s) \in StoreState
  <1>1. SetState(u, s).rooms \in [Rooms -> Statuses]
    <2>1. s.rooms \in [Rooms -> Statuses]
      BY DEF StoreState
    <2> QED BY <2>1, SetStateFields
  <1>2. MergeRooms(s.rooms, u.rooms) \in [Rooms -> Statuses]
    BY <1>1 DEF SetState
  <1>3. /\ Or(u.syncToken, s.syncToken) \in 0..MaxEvents
        /\ Or(u.pollingRetries, s.pollingRetries) \in Nat
    BY DEF IsPartial, StoreState, Or
  <1>4. (u.isRunning \/ s.isRunning) \in BOOLEAN /\ (u.accessToken \/ s.accessToken) \in BOOLEAN
    OBVIOUS
  <1> QED
    BY <1>2, <1>3, <1>4 DEF StoreState, SetState

\* The variables' types, one by one.
TimelineType == timeline \in Seq(Event) /\ Len(timeline) <= MaxEvents
StorageType == IsPartial(storage)
UpdatesType == \A k \in DOMAIN updates : IsPartial(updates[k])
CallType == call \in {<<>>} \cup [1..1 -> [since : 0..MaxEvents, atLeast : 0..MaxEvents]]
ToldType == began \in 0..MaxEvents /\ IsMessages(delivered) /\ earlier \subseteq 1..MaxEvents
CountersType == failed \in Nat /\ streak \in 0..failed /\ errors \in 0..MaxErrors

LEMMA TypeParts ==
    TypeOK <=>
        /\ TimelineType /\ state \in StoreState /\ StorageType /\ UpdatesType /\ CallType
        /\ joining \subseteq Rooms /\ dropped \subseteq Rooms
        /\ loop \in [Starts -> Labels] /\ promise \in [Starts -> Outcomes]
        /\ ToldType /\ CountersType
  BY DEF TypeOK, TimelineType, StorageType, UpdatesType, CallType, ToldType, CountersType

\* Every step keeps the timeline, or adds an event to it, and every other
\* variable of these types changes in a few steps only.
LEMMA Changing ==
    ASSUME [Next]_vars
    PROVE  /\ \/ UNCHANGED timeline
              \/ \E room \in Rooms, kind \in Kinds : Happens(room, kind)
           /\ \/ UNCHANGED errors
              \/ RequestFails
           /\ \/ Persist \/ Restart \/ CutOff
              \/ UNCHANGED storage
           /\ \/ Update \/ Restart \/ CutOff
              \/ UNCHANGED <<began, delivered, earlier>>
           /\ \/ Update \/ Restart \/ CutOff \/ UNCHANGED state
              \/ \E s \in Starts : LoggedIn(s)
           /\ \/ Update \/ Restart \/ CutOff \/ SyncFails \/ UNCHANGED updates
              \/ \E until \in 0..MaxEvents, twice \in SUBSET Rooms : SyncAnswers(until, twice)
           /\ \/ UNCHANGED call \/ call' = <<>>
              \/ call' = <<[since |-> state.syncToken, atLeast |-> Present]>>
           /\ \/ UNCHANGED <<failed, streak>>
              \/ failed' = failed + 1 /\ streak' = streak + 1
              \/ failed' = failed /\ streak' = 0
              \/ failed' = 0 /\ streak' = 0
  <1>1. ASSUME NEW room \in Rooms, Invite(room) \/ Write(room) \/ Kick(room) \/ Create(room)
        PROVE  /\ \E kind \in Kinds : Happens(room, kind)
               /\ UNCHANGED <<errors, storage, told, state, updates, call, failed, streak>>
    BY <1>1 DEF Invite, Write, Kick, Create, Kinds, store, history
  <1>2. ASSUME NEW room \in Rooms, Joined(room) \/ JoinFails(room)
        PROVE  /\ UNCHANGED timeline \/ \E kind \in Kinds : Happens(room, kind)
               /\ UNCHANGED errors \/ RequestFails
               /\ UNCHANGED <<storage, told, state, updates, call, failed, streak>>
    BY <1>2 DEF Joined, JoinFails, Kinds, store, history
  <1>3. ASSUME NEW s \in Starts, Start(s) \/ LoginFails(s) \/ Resume(s) \/ Tick(s)
        PROVE  /\ UNCHANGED errors \/ RequestFails
               /\ \/ UNCHANGED call
                  \/ call' = <<[since |-> state.syncToken, atLeast |-> Present]>>
               /\ UNCHANGED <<timeline, storage, told, state, updates, failed, streak>>
    BY <1>3 DEF Start, LoginFails, Resume, Tick, Sync, store, history
  <1>4. ASSUME NEW s \in Starts, LoggedIn(s)
        PROVE  /\ \/ UNCHANGED call
                  \/ call' = <<[since |-> state.syncToken, atLeast |-> Present]>>
               /\ UNCHANGED <<errors, timeline, storage, told, updates, failed, streak>>
    BY <1>4 DEF LoggedIn, Sync, history
  <1>5. ASSUME NEW until \in 0..MaxEvents, NEW twice \in SUBSET Rooms, SyncAnswers(until, twice)
        PROVE  /\ call' = <<>> /\ failed' = failed /\ streak' = 0
               /\ UNCHANGED <<errors, timeline, storage, told, state>>
    BY <1>5 DEF SyncAnswers
  <1>6. ASSUME SyncFails
        PROVE  /\ RequestFails /\ call' = <<>> /\ failed' = failed + 1 /\ streak' = streak + 1
               /\ UNCHANGED <<timeline, storage, told, state>>
    BY <1>6 DEF SyncFails
  <1>7. ASSUME SyncThrows
        PROVE  /\ RequestFails /\ call' = <<>>
               /\ UNCHANGED <<timeline, storage, told, state, updates, failed, streak>>
    BY <1>7 DEF SyncThrows, store, history
  <1>8. ASSUME Update PROVE UNCHANGED <<errors, timeline, storage, call, failed, streak>>
    BY <1>8 DEF Update
  <1>9. ASSUME Persist
        PROVE  UNCHANGED <<errors, timeline, told, state, updates, call, failed, streak>>
    BY <1>9 DEF Persist, history
  <1>10. ASSUME Restart \/ CutOff
         PROVE  call' = <<>> /\ failed' = 0 /\ streak' = 0 /\ UNCHANGED <<errors, timeline>>
    BY <1>10 DEF Restart, CutOff, NewProcess
  <1>11. ASSUME UNCHANGED vars
         PROVE  UNCHANGED <<errors, timeline, storage, told, state, updates, call, failed, streak>>
    BY <1>11 DEF vars, told
  <1> QED
    BY <1>1, <1>2, <1>3, <1>4, <1>5, <1>6, <1>7, <1>8, <1>9, <1>10, <1>11
       DEF Next, Homeserver, Client, Application, told

LEMMA TypeInit == Init => TypeOK
  <1> SUFFICES ASSUME Init PROVE TypeOK
    OBVIOUS
  <1>1. /\ timeline = <<>> /\ joining = {} /\ dropped = {}
        /\ state = Fresh /\ storage = Nothing /\ updates = <<>> /\ call = <<>>
        /\ loop = [s \in Starts |-> "none"] /\ promise = [s \in Starts |-> "none"]
        /\ began = 0 /\ delivered = NoMessages /\ earlier = {}
        /\ failed = 0 /\ streak = 0 /\ errors = 0
    BY DEF Init
  <1>2. TimelineType /\ ToldType
    BY <1>1, EmptySeq, NoMessagesType, BoundsAreNatural DEF TimelineType, ToldType
  <1>3. state \in StoreState /\ StorageType
    BY <1>1, PartialNothing DEF StorageType
  <1>4. UpdatesType /\ CallType
    BY <1>1 DEF UpdatesType, CallType
  <1>5. CountersType
    BY <1>1, BoundsAreNatural DEF CountersType
  <1>6. loop \in [Starts -> Labels] /\ promise \in [Starts -> Outcomes]
    BY <1>1 DEF Labels, Outcomes
  <1> QED
    BY <1>1, <1>2, <1>3, <1>4, <1>5, <1>6, TypeParts

\* An update that waits is one of those of an answer or of an error.
LEMMA FirstUpdateType ==
    ASSUME IInv, TypeOK, updates # <<>>
    PROVE  IsPartial(Head(updates)) /\ updates \in Seq({Head(updates)})
  <1>1. PICK u : u = updates[1] /\ u = Head(updates) /\ updates \in Seq({u})
    BY FirstUpdate
  <1>2. 1 \in DOMAIN updates
    BY <1>1, EmptySeq, LenProperties
  <1> QED
    BY <1>1, <1>2, TypeParts DEF UpdatesType

LEMMA UpdatesTypeKept ==
    ASSUME IInv, TypeOK, [Next]_vars
    PROVE  UpdatesType'
  <1>1. UpdatesType /\ Typed /\ Present <= MaxEvents
    BY Lengths, TypeParts DEF IInv, TimelineType
  <1>2. CASE UNCHANGED updates
    BY <1>1, <1>2 DEF UpdatesType
  <1>3. ASSUME NEW partial, IsPartial(partial), UpdateForEach(partial) PROVE UpdatesType'
    BY <1>3 DEF UpdateForEach, UpdatesType
  <1>4. CASE SyncFails
    <2>1. state.pollingRetries + 1 \in Nat
      BY DEF IInv, Typed
    <2> QED BY <1>3, <1>4, <2>1, PartialNothing DEF SyncFails
  <1>5. ASSUME NEW until \in 0..MaxEvents, NEW twice \in SUBSET Rooms, SyncAnswers(until, twice)
        PROVE  UpdatesType'
    <2>1. PICK partial :
            /\ UpdateForEach(partial) /\ partial = Synced(state.syncToken, until, twice)
            /\ until \in state.syncToken..Present
      BY <1>5, AnswerOf, BoundsAreNatural
    <2>2. state.syncToken \in 0..Present
      BY DEF IInv, Typed
    <2>3. IsPartial(partial)
      BY <1>1, <2>1, <2>2, PartialAnswer
    <2> QED BY <1>3, <2>1, <2>3
  <1>6. CASE Update
    <2>1. PICK u : u = Head(updates)
      OBVIOUS
    <2>2. updates' = Tail(updates) /\ updates # <<>> /\ updates \in Seq({u}) /\ IsPartial(u)
      BY <1>6, <2>1, FirstUpdateType DEF Update
    <2>3. updates' \in Seq({u})
      BY <2>2, HeadTailProperties
    <2>4. \A k \in DOMAIN updates' : updates'[k] = u
      BY <2>3, ElementOfSeq, LenProperties
    <2> QED BY <2>2, <2>4 DEF UpdatesType
  <1>7. CASE Restart \/ CutOff
    BY <1>7 DEF Restart, CutOff, NewProcess, UpdatesType
  <1> QED
    BY <1>2, <1>4, <1>5, <1>6, <1>7, Changing

LEMMA ConcatMessages ==
    ASSUME NEW old, IsMessages(old), NEW new, IsMessages(new)
    PROVE  IsMessages([room \in Rooms |-> old[room] \o new[room]])
  <1>1. ASSUME NEW room \in Rooms PROVE old[room] \o new[room] \in Seq(1..MaxEvents)
    <2>1. old[room] \in Seq(1..MaxEvents) /\ new[room] \in Seq(1..MaxEvents)
      BY DEF IsMessages
    <2> QED BY <2>1, ConcatProperties
  <1> QED
    BY <1>1 DEF IsMessages

LEMMA MessagesAreEvents ==
    ASSUME NEW m, IsMessages(m)
    PROVE  Told(m) \subseteq 1..MaxEvents
  <1>1. ASSUME NEW room \in Rooms, NEW i \in DOMAIN m[room] PROVE m[room][i] \in 1..MaxEvents
    <2>1. m[room] \in Seq(1..MaxEvents)
      BY DEF IsMessages
    <2> QED BY <1>1, <2>1, ElementOfSeq, LenProperties
  <1> QED
    BY <1>1 DEF Told

\* The types of what the next process finds, and of what the earlier ones had.
LEMMA ProcessTypes ==
    ASSUME IInv, TypeOK, Restart \/ CutOff
    PROVE  state' \in StoreState /\ StorageType' /\ ToldType'
  <1>1. state \in StoreState /\ IsPartial(storage) /\ ToldType
    BY TypeParts DEF StorageType
  <1>2. ASSUME NEW stored, IsPartial(stored), NewProcess(Kept(stored))
        PROVE  /\ state' \in StoreState /\ StorageType'
               /\ began' \in 0..MaxEvents /\ IsMessages(delivered')
    <2>1. PICK kept : kept = Kept(stored)
      OBVIOUS
    <2>2. IsPartial(kept)
      BY <1>2, <2>1, PartialNothing DEF Kept
    <2>3. /\ storage' = kept /\ state' = SetState(kept, Fresh)
          /\ began' = kept.syncToken /\ delivered' = NoMessages
      BY <1>2, <2>1 DEF NewProcess
    <2>4. kept.syncToken \in 0..MaxEvents
      BY <2>2 DEF IsPartial
    <2> QED BY <2>2, <2>3, <2>4, PartialNothing, SetStateType, NoMessagesType DEF StorageType
  <1>3. Told(delivered) \subseteq 1..MaxEvents /\ earlier \subseteq 1..MaxEvents
    BY <1>1, MessagesAreEvents DEF ToldType
  <1>4. CASE Restart
    <2>1. NewProcess(Kept(storage)) /\ earlier' = earlier \cup Told(delivered)
      BY <1>4 DEF Restart
    <2>2. earlier' \subseteq 1..MaxEvents
      BY <1>3, <2>1
    <2> QED BY <1>1, <1>2, <2>1, <2>2 DEF ToldType
  <1>5. CASE CutOff
    <2>1. PICK u : u = Head(updates)
      OBVIOUS
    <2>2. /\ updates # <<>>
          /\ \/ NewProcess(Kept(storage))
             \/ NewProcess(Kept(Preserved(SetState(u, state))))
          /\ earlier' = earlier \cup Told(delivered) \cup Told(u.messages)
      BY <1>5, <2>1 DEF CutOff
    <2>3. IsPartial(u)
      BY <2>1, <2>2, FirstUpdateType
    <2>4. Told(u.messages) \subseteq 1..MaxEvents
      BY <2>3, MessagesAreEvents DEF IsPartial
    <2>6. earlier' \subseteq 1..MaxEvents
      BY <1>3, <2>2, <2>4
    <2>7. IsPartial(Preserved(SetState(u, state)))
      BY <1>1, <2>3, SetStateType, PartialPreserved
    <2> QED BY <1>1, <1>2, <2>2, <2>6, <2>7 DEF ToldType
  <1> QED
    BY <1>4, <1>5

LEMMA StoreTypesKept ==
    ASSUME IInv, TypeOK, [Next]_vars
    PROVE  state' \in StoreState /\ StorageType' /\ ToldType'
  <1>1. state \in StoreState /\ StorageType /\ ToldType
    BY TypeParts
  <1>2. CASE Restart \/ CutOff
    BY <1>2, ProcessTypes
  <1>3. CASE Update
    <2>0. PICK u : u = Head(updates)
      OBVIOUS
    <2>1. /\ updates # <<>> /\ state' = SetState(u, state)
          /\ delivered' = EmitMessage(u.messages)
          /\ UNCHANGED <<storage, began, earlier>>
      BY <1>3, <2>0 DEF Update
    <2>2. IsPartial(u)
      BY <2>0, <2>1, FirstUpdateType
    <2>3. state' \in StoreState
      BY <1>1, <2>1, <2>2, SetStateType
    <2>4. ToldType'
      <3>1. PICK old, new : old = delivered /\ new = u.messages
        OBVIOUS
      <3>2. IsMessages([room \in Rooms |-> old[room] \o new[room]])
        BY <1>1, <2>2, <3>1, ConcatMessages DEF ToldType, IsPartial
      <3>3. IsMessages(delivered')
        BY <2>1, <3>1, <3>2 DEF EmitMessage
      <3> QED BY <1>1, <2>1, <3>3 DEF ToldType
    <2> QED BY <1>1, <2>1, <2>3, <2>4 DEF StorageType
  <1>4. CASE Persist
    <2>1. storage' = Preserved(state) /\ UNCHANGED <<state, began, delivered, earlier>>
      BY <1>4 DEF Persist, history, told
    <2> QED BY <1>1, <2>1, PartialPreserved DEF StorageType, ToldType
  <1>5. ASSUME UNCHANGED <<storage, began, delivered, earlier>>,
               UNCHANGED state \/ \E s \in Starts : LoggedIn(s)
        PROVE  state' \in StoreState /\ StorageType' /\ ToldType'
    <2>1. state' \in StoreState
      BY <1>1, <1>5, PartialNothing, SetStateType DEF LoggedIn
    <2> QED BY <1>1, <1>5, <2>1 DEF StorageType, ToldType
  <1> QED
    BY <1>2, <1>3, <1>4, <1>5, Changing

LEMMA TypeKept == ASSUME IInv, TypeOK, [Next]_vars PROVE TypeOK'
  <1>1. IInv'
    BY Steps
  <1>2. TimelineType'
    <2>1. CASE UNCHANGED timeline
      BY <2>1, TypeParts DEF TimelineType
    <2>2. ASSUME NEW room \in Rooms, NEW kind \in Kinds, Happens(room, kind)
          PROVE  TimelineType'
      <3>1. timeline' \in Seq(Event)
        BY <1>1 DEF IInv, Typed
      <3>2. Len(timeline) < MaxEvents /\ Len(timeline') = Len(timeline) + 1
        BY <2>2, GrownByEvent DEF Happens, Present, IInv
      <3>3. Len(timeline) \in Nat
        BY DEF IInv, Typed
      <3> QED BY <3>1, <3>2, <3>3, BoundsAreNatural DEF TimelineType
    <2> QED BY <2>1, <2>2, Changing
  <1>3. state' \in StoreState /\ StorageType' /\ ToldType' /\ UpdatesType'
    BY StoreTypesKept, UpdatesTypeKept
  <1>4. CallType'
    <2>1. CallType /\ Present \in 0..MaxEvents /\ state.syncToken \in 0..MaxEvents
      BY Lengths, TypeParts, BoundsAreNatural DEF TimelineType, IInv, Typed
    <2>2. CASE call' = <<[since |-> state.syncToken, atLeast |-> Present]>>
      BY <2>1, <2>2 DEF CallType
    <2> QED BY <2>1, <2>2, Changing DEF CallType
  <1>5. CountersType'
    <2>1. CountersType
      BY TypeParts
    <2>2. errors' \in 0..MaxErrors
      BY <2>1, BoundsAreNatural, Changing DEF CountersType, RequestFails
    <2>3. failed' \in Nat /\ streak' \in 0..failed'
      BY <2>1, Changing DEF CountersType
    <2> QED BY <2>2, <2>3 DEF CountersType
  <1>6. /\ joining' \subseteq Rooms /\ dropped' \subseteq Rooms
        /\ loop' \in [Starts -> Labels] /\ promise' \in [Starts -> Outcomes]
    BY <1>1 DEF IInv, Typed
  <1>7. (/\ TimelineType /\ state \in StoreState /\ StorageType /\ UpdatesType /\ CallType
         /\ joining \subseteq Rooms /\ dropped \subseteq Rooms
         /\ loop \in [Starts -> Labels] /\ promise \in [Starts -> Outcomes]
         /\ ToldType /\ CountersType)' => TypeOK'
    BY DEF TypeOK, TimelineType, StorageType, UpdatesType, CallType, ToldType, CountersType
  <1> QED
    BY <1>2, <1>3, <1>4, <1>5, <1>6, <1>7

\* Every variable has its type (MatrixClient, MatrixClientStore), whatever the
\* bounds.
THEOREM Types == Spec => []TypeOK
  <1>1. IInv /\ TypeOK /\ [Next]_vars => (IInv /\ TypeOK)'
    BY Steps, TypeKept
  <1> QED
    BY InitIInv, TypeInit, <1>1, PTL DEF Spec

----------------------------------------------------------------------------
(* Deliveries: no message is skipped. *)

\* Every message up to a token is accounted for.
Known(k) == Delivered(k) \/ k \in earlier

CoveredUpTo(token) ==
    \A k \in 1..token :
        timeline[k].kind = "message" => Known(k) \/ InvitedAgain(k, token)

\* The store's token and the one the next process may begin with.
Covering == CoveredUpTo(state.syncToken) /\ CoveredUpTo(storage.syncToken)

LEMMA EventsRoom ==
    ASSUME Typed, NEW k \in 1..Present
    PROVE  timeline[k].room \in Rooms
  <1>1. timeline[k] \in Event
    BY Lengths, ElementOfSeq DEF Typed
  <1> QED
    BY <1>1 DEF Event

\* A joined room that is invited in the end was left and invited again.
LEMMA InvitedLater ==
    ASSUME Typed, Spoken, NEW until \in 0..Present, NEW k \in 1..until,
           timeline[k].kind = "message", Membership(timeline[k].room, until) = "invited"
    PROVE  InvitedAgain(k, until)
  <1>0. Present \in Nat /\ Present = Len(timeline) /\ timeline \in Seq(Event)
    BY Lengths DEF Typed
  <1>1. PICK room \in Rooms : room = timeline[k].room
    BY <1>0, EventsRoom
  <1>2. k \in 1..Present /\ k \in 0..Present
    BY <1>0
  <1>3. Membership(room, k) = "joined" /\ Membership(room, until) = "invited"
    BY <1>1, <1>2 DEF Spoken
  <1>4. Changes(room, until) # {}
    BY <1>3 DEF Membership
  <1>5. PICK last \in 1..until :
          /\ Changes(room, until) \subseteq 1..last
          /\ timeline[last].room = room /\ timeline[last].kind = "invited"
    BY <1>0, <1>3, <1>4, MembershipOfChanged
  <1>6. CASE last <= k
    <2>1. Changes(room, until) = Changes(room, k)
      <3>1. ASSUME NEW j \in 1..until, j \in Changes(room, until) PROVE j \in 1..k
        BY <1>0, <1>5, <1>6, <3>1
      <3>2. 1..k \subseteq 1..until
        BY <1>0
      <3> QED BY <3>1, <3>2 DEF Changes
    <2>2. Membership(room, until) = Membership(room, k)
      BY <2>1 DEF Membership
    <2> QED BY <1>3, <2>2
  <1>7. CASE last > k
    <2>1. last \in (k + 1)..until
      BY <1>0, <1>7
    <2> QED BY <1>1, <1>5, <2>1 DEF InvitedAgain
  <1> QED
    BY <1>0, <1>6, <1>7

LEMMA InvitedAgainLater ==
    ASSUME NEW since \in Nat, NEW until \in Nat, since <= until, NEW k, InvitedAgain(k, since)
    PROVE  InvitedAgain(k, until)
  <1>1. PICK j \in (k + 1)..since :
          timeline[j].room = timeline[k].room /\ timeline[j].kind = "invited"
    BY DEF InvitedAgain
  <1>2. j \in (k + 1)..until
    BY <1>1
  <1> QED
    BY <1>1, <1>2 DEF InvitedAgain

LEMMA InvitedAgainStays ==
    ASSUME Typed, Grown, NEW token \in 0..Present, NEW k \in 1..token
    PROVE  InvitedAgain(k, token)' <=> InvitedAgain(k, token)
  <1>1. k \in 1..Len(timeline) /\ \A j \in (k + 1)..token : j \in 1..Len(timeline)
    BY Lengths
  <1>2. timeline'[k] = timeline[k] /\ \A j \in (k + 1)..token : timeline'[j] = timeline[j]
    BY <1>1 DEF Grown
  <1> QED
    BY <1>2 DEF InvitedAgain

\* What was told stays told.
LEMMA CoveredStays ==
    ASSUME Typed, Grown, NEW token \in 0..Present, CoveredUpTo(token),
           \A k \in 1..token : Known(k) => Known(k)'
    PROVE  CoveredUpTo(token)'
  <1>1. ASSUME NEW k \in 1..token, timeline'[k].kind = "message"
        PROVE  Known(k)' \/ InvitedAgain(k, token)'
    <2>1. timeline'[k] = timeline[k]
      BY Lengths DEF Grown
    <2>2. Known(k) \/ InvitedAgain(k, token)
      BY <1>1, <2>1 DEF CoveredUpTo
    <2> QED BY <2>2, InvitedAgainStays
  <1> QED
    BY <1>1 DEF CoveredUpTo

LEMMA NothingCovered == CoveredUpTo(0)
  BY DEF CoveredUpTo

\* What one sequence after another has.
LEMMA ConcatShape ==
    ASSUME NEW old \in Seq(Nat), NEW new \in Seq(Nat)
    PROVE  /\ \A i \in DOMAIN (old \o new) :
                 \/ i \in DOMAIN old /\ (old \o new)[i] = old[i]
                 \/ \E j \in DOMAIN new : i = Len(old) + j /\ (old \o new)[i] = new[j]
           /\ \A i \in DOMAIN old : i \in DOMAIN (old \o new) /\ (old \o new)[i] = old[i]
           /\ \A i \in DOMAIN new :
                 Len(old) + i \in DOMAIN (old \o new) /\ (old \o new)[Len(old) + i] = new[i]
  <1>0. PICK all : all = old \o new
    OBVIOUS
  <1>1. /\ DOMAIN old = 1..Len(old) /\ DOMAIN new = 1..Len(new)
        /\ Len(old) \in Nat /\ Len(new) \in Nat
    BY LenProperties
  <1>2. /\ DOMAIN all = 1..(Len(old) + Len(new))
        /\ \A i \in 1..(Len(old) + Len(new)) :
              all[i] = IF i <= Len(old) THEN old[i] ELSE new[i - Len(old)]
    BY <1>0, <1>1, ConcatProperties, LenProperties
  <1>3. ASSUME NEW i \in DOMAIN all
        PROVE  \/ i \in DOMAIN old /\ all[i] = old[i]
               \/ \E j \in DOMAIN new : i = Len(old) + j /\ all[i] = new[j]
    <2>1. CASE i <= Len(old)
      BY <1>1, <1>2, <2>1
    <2>2. CASE ~(i <= Len(old))
      <3>1. PICK j : j = i - Len(old)
        OBVIOUS
      <3>2. j \in DOMAIN new /\ i = Len(old) + j
        BY <1>1, <1>2, <2>2, <3>1
      <3>3. all[i] = new[j]
        BY <1>1, <1>2, <2>2, <3>1
      <3> QED BY <3>2, <3>3
    <2> QED BY <2>1, <2>2
  <1>4. ASSUME NEW i \in DOMAIN old PROVE i \in DOMAIN all /\ all[i] = old[i]
    BY <1>1, <1>2
  <1>5. ASSUME NEW i \in DOMAIN new
        PROVE  Len(old) + i \in DOMAIN all /\ all[Len(old) + i] = new[i]
    <2>1. /\ Len(old) + i \in 1..(Len(old) + Len(new)) /\ ~(Len(old) + i <= Len(old))
          /\ (Len(old) + i) - Len(old) = i
      BY <1>1
    <2> QED BY <1>2, <2>1
  <1> QED
    BY <1>0, <1>3, <1>4, <1>5

LEMMA ConcatIncreases ==
    ASSUME NEW old \in Seq(Nat), NEW new \in Seq(Nat), Increases(old), Increases(new),
           \A i \in DOMAIN old, j \in DOMAIN new : old[i] < new[j]
    PROVE  Increases(old \o new)
  <1>0. PICK all : all = old \o new
    OBVIOUS
  <1>1. /\ DOMAIN old = 1..Len(old) /\ DOMAIN new = 1..Len(new)
        /\ Len(old) \in Nat /\ Len(new) \in Nat
    BY LenProperties
  <1>2. \A i \in DOMAIN all :
           \/ i \in DOMAIN old /\ all[i] = old[i]
           \/ \E j \in DOMAIN new : i = Len(old) + j /\ all[i] = new[j]
    BY <1>0, ConcatShape
  <1>3. ASSUME NEW i \in DOMAIN all, NEW j \in DOMAIN all, i < j PROVE all[i] < all[j]
    <2>1. CASE j \in DOMAIN old /\ all[j] = old[j]
      <3>1. i \in DOMAIN old /\ all[i] = old[i]
        BY <1>1, <1>2, <1>3, <2>1
      <3> QED BY <1>3, <2>1, <3>1 DEF Increases
    <2>2. ASSUME NEW q \in DOMAIN new, j = Len(old) + q, all[j] = new[q]
          PROVE  all[i] < all[j]
      <3>1. CASE i \in DOMAIN old /\ all[i] = old[i]
        BY <2>2, <3>1
      <3>2. ASSUME NEW p \in DOMAIN new, i = Len(old) + p, all[i] = new[p]
            PROVE  all[i] < all[j]
        <4>1. p < q
          BY <1>1, <1>3, <2>2, <3>2
        <4> QED BY <2>2, <3>2, <4>1 DEF Increases
      <3> QED BY <1>2, <3>1, <3>2
    <2> QED BY <1>2, <2>1, <2>2
  <1> QED
    BY <1>0, <1>3 DEF Increases

LEMMA MessagesAreNumbers ==
    ASSUME NEW m, IsMessages(m), NEW room \in Rooms
    PROVE  m[room] \in Seq(Nat)
  <1>1. m[room] \in Seq(1..MaxEvents) /\ 1..MaxEvents \subseteq Nat
    BY BoundsAreNatural DEF IsMessages
  <1> QED
    BY <1>1, SeqMonotonic

\* The messages that an update has for a room.
Has(messages, k) ==
    \E i \in DOMAIN messages[timeline[k].room] : messages[timeline[k].room][i] = k

\* An answer brings what the store's token does not cover yet.
LEMMA AnswerCovers ==
    ASSUME Typed, Spoken, NEW u, OfAnswer(u), CoveredUpTo(state.syncToken),
           NEW k \in 1..u.syncToken, timeline[k].kind = "message"
    PROVE  Known(k) \/ Has(u.messages, k) \/ InvitedAgain(k, u.syncToken)
  <1>0. PICK since \in 0..Present :
          state.syncToken \in {since, u.syncToken} /\ OfAnswerSince(u, since)
    BY DEF OfAnswer
  <1>1. PICK until \in since..Present : until = u.syncToken
    BY <1>0 DEF OfAnswerSince
  <1>2. Present \in Nat /\ since \in Nat /\ until \in Nat /\ until \in 0..Present /\ k \in 1..until
    BY <1>1, Lengths
  <1>3. CASE k <= state.syncToken
    <2>1. k \in 1..state.syncToken
      BY <1>0, <1>1, <1>2, <1>3
    <2>2. Known(k) \/ InvitedAgain(k, state.syncToken)
      BY <2>1 DEF CoveredUpTo
    <2>3. state.syncToken \in Nat /\ state.syncToken <= until
      BY <1>0, <1>1, <1>2
    <2> QED BY <1>1, <1>2, <2>2, <2>3, InvitedAgainLater
  <1>4. CASE ~(k <= state.syncToken)
    <2>1. k \in (since + 1)..until /\ k \in 1..Present
      BY <1>0, <1>1, <1>2, <1>4
    <2>2. PICK room \in Rooms : room = timeline[k].room
      BY <2>1, EventsRoom
    <2>3. \/ u.messages[room] = Messages(room, since, until)
          \/ u.messages[room] = <<>> /\ Membership(room, until) = "invited"
      BY <1>0, <1>1 DEF OfAnswerSince, RoomOfAnswer
    <2>4. CASE u.messages[room] = Messages(room, since, until)
      <3>1. k \in Written(room, since, until)
        BY <2>1, <2>2 DEF Written
      <3>2. Covers(Messages(room, since, until), Written(room, since, until))
        BY <1>2, WrittenType, InOrderProperties DEF Messages
      <3> QED BY <2>2, <2>4, <3>1, <3>2 DEF Covers, Has
    <2>5. CASE Membership(room, until) = "invited"
      BY <1>1, <1>2, <2>2, <2>5, InvitedLater
    <2> QED BY <2>3, <2>4, <2>5
  <1> QED
    BY <1>3, <1>4

\* Most steps leave the tokens and what was told alone.
LEMMA TokenStays ==
    ASSUME IInv, [Next]_vars, ~Update, ~Restart, ~CutOff
    PROVE  /\ state'.syncToken = state.syncToken /\ UNCHANGED told
           /\ storage' = storage \/ storage'.syncToken = state.syncToken
           /\ Grown /\ state.syncToken \in 0..Present
  <1>1. Grown
    <2>1. CASE UNCHANGED timeline
      BY <2>1, NotGrown DEF IInv
    <2>2. ASSUME NEW room \in Rooms, NEW kind \in Kinds, Happens(room, kind) PROVE Grown
      BY <2>2, GrownByEvent DEF IInv
    <2> QED BY <2>1, <2>2, Changing
  <1>2. ASSUME NEW s \in Starts, LoggedIn(s) PROVE state'.syncToken = state.syncToken
    <2>1. PICK partial : partial = [Nothing EXCEPT !.accessToken = TRUE]
      OBVIOUS
    <2>2. partial.syncToken = 0
      BY <2>1 DEF Nothing
    <2> QED BY <1>2, <2>1, <2>2, SetStateFields DEF LoggedIn, Or
  <1>3. state'.syncToken = state.syncToken
    BY <1>2, Changing
  <1>4. UNCHANGED told
    BY Changing DEF told
  <1>5. storage' = storage \/ storage'.syncToken = state.syncToken
    <2>1. CASE Persist
      BY <2>1 DEF Persist, Preserved, Nothing
    <2> QED BY <2>1, Changing
  <1> QED
    BY <1>1, <1>3, <1>4, <1>5 DEF IInv, Typed

\* What an update does, with the one that is first in the queue.
LEMMA UpdateDoes ==
    ASSUME IInv, Update
    PROVE  \E u :
             /\ u = updates[1] /\ u = Head(updates)
             /\ updates # <<>> /\ updates' = Tail(updates) /\ updates \in Seq({u})
             /\ OfAnswer(u) \/ OfError(u)
             /\ state'.syncToken = IF OfAnswer(u) THEN u.syncToken ELSE state.syncToken
             /\ delivered' = EmitMessage(u.messages)
             /\ UNCHANGED <<timeline, storage, began, earlier>>
  <1>0. PICK u : /\ u = updates[1] /\ u = Head(updates) /\ updates \in Seq({u})
                 /\ OfAnswer(u) \/ OfError(u)
    BY FirstUpdate DEF Update
  <1>1. /\ state' = SetState(u, state)
        /\ delivered' = EmitMessage(u.messages)
        /\ updates # <<>> /\ updates' = Tail(updates)
        /\ UNCHANGED <<timeline, storage, began, earlier>>
    BY <1>0 DEF Update
  <1>2. state'.syncToken = IF OfAnswer(u) THEN u.syncToken ELSE state.syncToken
    BY <1>0, <1>1, UpdatedStore DEF IInv
  <1> QED
    BY <1>0, <1>1, <1>2

LEMMA EmittedTo ==
    ASSUME IsMessages(delivered), NEW new, IsMessages(new), delivered' = EmitMessage(new),
           UNCHANGED <<timeline, earlier>>, NEW k, timeline[k].room \in Rooms
    PROVE  Known(k)' <=> Known(k) \/ Has(new, k)
  <1>1. PICK room \in Rooms : room = timeline[k].room
    OBVIOUS
  <1>2. PICK said, more : said = delivered[room] /\ more = new[room]
    OBVIOUS
  <1>3. said \in Seq(Nat) /\ more \in Seq(Nat)
    BY <1>2, MessagesAreNumbers
  <1>4. PICK all : all = said \o more
    OBVIOUS
  <1>5. delivered'[room] = all
    BY <1>2, <1>4 DEF EmitMessage
  <1>6. /\ \A i \in DOMAIN all :
              \/ i \in DOMAIN said /\ all[i] = said[i]
              \/ \E j \in DOMAIN more : i = Len(said) + j /\ all[i] = more[j]
        /\ \A i \in DOMAIN said : i \in DOMAIN all /\ all[i] = said[i]
        /\ \A i \in DOMAIN more : Len(said) + i \in DOMAIN all /\ all[Len(said) + i] = more[i]
    BY <1>3, <1>4, ConcatShape
  <1>7. ASSUME NEW i \in DOMAIN all, all[i] = k PROVE Delivered(k) \/ Has(new, k)
    BY <1>1, <1>2, <1>6, <1>7 DEF Delivered, Has
  <1>8. ASSUME NEW i \in DOMAIN said, said[i] = k PROVE Delivered(k)'
    BY <1>1, <1>5, <1>6, <1>8 DEF Delivered
  <1>9. ASSUME NEW i \in DOMAIN more, more[i] = k PROVE Delivered(k)'
    BY <1>1, <1>5, <1>6, <1>9 DEF Delivered
  <1>10. Delivered(k)' => Delivered(k) \/ Has(new, k)
    BY <1>1, <1>5, <1>7 DEF Delivered
  <1>11. Delivered(k) => Delivered(k)'
    BY <1>1, <1>2, <1>8 DEF Delivered
  <1>12. Has(new, k) => Delivered(k)'
    BY <1>1, <1>2, <1>9 DEF Has
  <1> QED
    BY <1>10, <1>11, <1>12 DEF Known

LEMMA UpdateCovers == ASSUME IInv, TypeOK, Covering, Update PROVE Covering'
  <1>1. PICK u :
          /\ u = Head(updates) /\ updates # <<>>
          /\ OfAnswer(u) \/ OfError(u)
          /\ state'.syncToken = IF OfAnswer(u) THEN u.syncToken ELSE state.syncToken
          /\ delivered' = EmitMessage(u.messages)
          /\ UNCHANGED <<timeline, storage, began, earlier>>
    BY UpdateDoes
  <1>2. IsMessages(u.messages) /\ IsMessages(delivered)
    BY <1>1, FirstUpdateType, TypeParts DEF IsPartial, ToldType
  <1>3. Grown /\ Present \in Nat
    BY <1>1, NotGrown, Lengths DEF IInv
  <1>4. ASSUME NEW k \in 1..Present PROVE Known(k)' <=> Known(k) \/ Has(u.messages, k)
    BY <1>1, <1>2, EventsRoom, EmittedTo DEF IInv
  <1>5. ASSUME NEW token \in 0..Present, CoveredUpTo(token) PROVE CoveredUpTo(token)'
    <2>1. 1..token \subseteq 1..Present
      BY <1>3
    <2>2. \A k \in 1..token : Known(k) => Known(k)'
      BY <1>4, <2>1
    <2> QED BY <1>3, <1>5, <2>2, CoveredStays DEF IInv
  <1>6. /\ storage.syncToken \in 0..Present /\ state.syncToken \in 0..Present
    BY DEF IInv, Typed, Stored, Faithful
  <1>7. CoveredUpTo(storage.syncToken)'
    <2>1. PICK token \in 0..Present : token = storage.syncToken
      BY <1>6
    <2>2. CoveredUpTo(token)'
      BY <1>5, <2>1 DEF Covering
    <2> QED BY <1>1, <2>1, <2>2
  <1>8. CoveredUpTo(state.syncToken)'
    <2>0. PICK token : token = state'.syncToken
      OBVIOUS
    <2>1. CASE OfAnswer(u)
      <3>1. token = u.syncToken /\ u.syncToken \in 0..Present
        <4>1. PICK since \in 0..Present : u.syncToken \in since..Present
          BY <2>1 DEF OfAnswer, OfAnswerSince
        <4> QED BY <1>1, <1>3, <2>0, <2>1, <4>1
      <3>2. ASSUME NEW k \in 1..token, timeline[k].kind = "message"
            PROVE  Known(k)' \/ InvitedAgain(k, token)
        <4>1. Known(k) \/ Has(u.messages, k) \/ InvitedAgain(k, u.syncToken)
          BY <2>1, <3>1, <3>2, AnswerCovers DEF IInv, Covering
        <4>2. k \in 1..Present
          BY <1>3, <3>1
        <4> QED BY <1>4, <3>1, <4>1, <4>2
      <3>3. CoveredUpTo(token)'
        BY <1>1, <3>2 DEF CoveredUpTo, InvitedAgain
      <3> QED BY <2>0, <3>3
    <2>2. CASE ~OfAnswer(u)
      <3>1. token \in 0..Present /\ CoveredUpTo(token)
        BY <1>1, <1>6, <2>0, <2>2 DEF Covering
      <3>2. CoveredUpTo(token)'
        BY <1>5, <3>1
      <3> QED BY <2>0, <3>2
    <2> QED BY <2>1, <2>2
  <1> QED
    BY <1>7, <1>8 DEF Covering

LEMMA ToldOf ==
    ASSUME NEW m, NEW k, timeline[k].room \in Rooms, Has(m, k)
    PROVE  k \in Told(m)
  <1>1. PICK room \in Rooms : room = timeline[k].room /\ \E i \in DOMAIN m[room] : m[room][i] = k
    BY DEF Has
  <1> QED
    BY <1>1 DEF Told

\* A process that ends leaves its messages to the earlier ones, those of the
\* update it was cut off in too.
LEMMA ProcessCovers ==
    ASSUME IInv, TypeOK, Covering, Restart \/ CutOff PROVE Covering'
  <1>0. PICK stored :
          /\ NewProcess(stored) /\ Faithful(stored)
          /\ \/ stored.syncToken = 0
             \/ stored.syncToken = storage.syncToken
             \/ \E u : /\ CutOff /\ u = Head(updates) /\ OfAnswer(u)
                       /\ stored.syncToken = u.syncToken
    BY Found
  <1>1. PICK token : token = stored.syncToken
    OBVIOUS
  <1>2. state'.syncToken = token /\ storage'.syncToken = token /\ UNCHANGED timeline
    BY <1>0, <1>1, NewProcessKeeps DEF IInv, NewProcess
  <1>3. Grown /\ Present \in Nat /\ token \in 0..Present
    BY <1>0, <1>1, <1>2, NotGrown, Lengths DEF IInv, Faithful
  <1>4. earlier \cup Told(delivered) \subseteq earlier'
    BY DEF Restart, CutOff
  <1>5. ASSUME NEW k \in 1..Present, Known(k) PROVE Known(k)'
    <2>1. k \in earlier \cup Told(delivered)
      BY <1>5, EventsRoom, ToldOf DEF IInv, Known, Delivered, Has
    <2> QED BY <1>4, <2>1 DEF Known
  <1>6. \A k \in 1..token : k \in 1..Present
    BY <1>3
  <1>7. CoveredUpTo(token)'
    <2>1. CASE CoveredUpTo(token)
      BY <1>3, <1>5, <1>6, <2>1, CoveredStays DEF IInv
    <2>2. ASSUME NEW u, CutOff, u = Head(updates), OfAnswer(u), token = u.syncToken
          PROVE  CoveredUpTo(token)'
      <3>1. Told(u.messages) \subseteq earlier'
        BY <2>2 DEF CutOff
      <3>2. ASSUME NEW k \in 1..token, timeline[k].kind = "message"
            PROVE  Known(k)' \/ InvitedAgain(k, token)
        <4>1. k \in 1..Present /\ timeline[k].room \in Rooms
          BY <1>6, EventsRoom DEF IInv
        <4>2. Known(k) \/ Has(u.messages, k) \/ InvitedAgain(k, token)
          BY <2>2, <3>2, AnswerCovers DEF IInv, Covering
        <4>3. Has(u.messages, k) => Known(k)'
          BY <3>1, <4>1, ToldOf DEF Known
        <4> QED BY <1>5, <4>1, <4>2, <4>3
      <3> QED BY <1>2, <3>2 DEF CoveredUpTo, InvitedAgain
    <2> QED BY <1>0, <1>1, <2>1, <2>2, NothingCovered DEF Covering
  <1> QED
    BY <1>2, <1>7 DEF Covering

LEMMA CoveringKept == ASSUME IInv, TypeOK, Covering, [Next]_vars PROVE Covering'
  <1>1. CASE ~Update /\ ~Restart /\ ~CutOff
    <2>1. /\ state'.syncToken = state.syncToken /\ UNCHANGED told
          /\ storage'.syncToken \in {storage.syncToken, state.syncToken}
          /\ Grown /\ state.syncToken \in 0..Present /\ storage.syncToken \in 0..Present
      BY <1>1, TokenStays DEF IInv, Stored, Faithful
    <2>2. ASSUME NEW token \in 0..Present, CoveredUpTo(token) PROVE CoveredUpTo(token)'
      <3>1. \A k \in 1..token : timeline'[k] = timeline[k]
        BY <2>1, Lengths DEF IInv, Grown
      <3>2. \A k \in 1..token : Known(k) => Known(k)'
        BY <2>1, <3>1 DEF Known, Delivered, told
      <3> QED BY <2>1, <2>2, <3>2, CoveredStays DEF IInv
    <2>3. PICK token, kept : token = state.syncToken /\ kept = storage'.syncToken
      OBVIOUS
    <2>4. CoveredUpTo(token)' /\ CoveredUpTo(kept)'
      BY <2>1, <2>2, <2>3 DEF Covering
    <2> QED BY <2>1, <2>3, <2>4 DEF Covering
  <1> QED
    BY <1>1, UpdateCovers, ProcessCovers

LEMMA InitCovering == Init => Covering
  <1> SUFFICES ASSUME Init PROVE Covering
    OBVIOUS
  <1>1. state.syncToken = 0 /\ storage.syncToken = 0
    BY DEF Init, Fresh, Nothing
  <1> QED
    BY <1>1, NothingCovered DEF Covering

\* No message is skipped, however many loops share a sync, whatever the storage
\* keeps and however slowly, and whenever the process ends, but one of a room
\* that was left and invited again, or one that an earlier process had (poll,
\* onSyncSuccess, MatrixRoom.fromSync, MatrixClientStore.update and
\* initFromStorage).
THEOREM Complete == Spec => []NoneSkipped
  <1>1. IInv /\ TypeOK /\ Covering /\ [Next]_vars => (IInv /\ TypeOK /\ Covering)'
    BY Steps, TypeKept, CoveringKept
  <1>2. Covering => NoneSkipped
    BY DEF Covering, CoveredUpTo, Known, NoneSkipped
  <1> QED
    BY InitIInv, TypeInit, InitCovering, <1>1, <1>2, PTL DEF Spec

----------------------------------------------------------------------------
(* Deliveries: each message once, where one loop polls at a time. *)

\* A client is started when the one before has stopped.
OneLoop == Patient => \A s, q \in Starts : q < s /\ loop[s] # "none" => loop[q] = "stopped"

\* The update that waits is the only one, of a sync that began at the token
\* the store still has.
Alone ==
    Patient /\ updates # <<>> =>
        Len(updates) = 1 /\ (OfAnswerSince(updates[1], state.syncToken) \/ OfError(updates[1]))

LEMMA OneLoopKept == ASSUME IInv, OneLoop, [Next]_vars PROVE OneLoop'
  <1> SUFFICES ASSUME Patient PROVE OneLoop'
    BY DEF OneLoop
  <1>0. \A s, q \in Starts : q < s /\ loop[s] # "none" => loop[q] = "stopped"
    BY DEF OneLoop
  <1>1. ASSUME \A s \in Starts : loop'[s] # loop[s] => loop[s] \notin {"none", "stopped"}
        PROVE  OneLoop'
    BY <1>0, <1>1 DEF OneLoop
  <1>2. CASE UNCHANGED loop
    BY <1>1, <1>2
  <1>3. ASSUME NEW s \in Starts, NEW label, loop[s] \in {"login", "timer"},
               loop' = [loop EXCEPT ![s] = label]
        PROVE  OneLoop'
    BY <1>1, <1>3 DEF IInv, Typed
  <1>4. ASSUME NEW s \in Starts, Start(s) PROVE OneLoop'
    <2>1. /\ loop[s] = "none" /\ \A q \in 1..(s - 1) : loop[q] = "stopped"
          /\ loop' = [loop EXCEPT ![s] = "login"]
      BY <1>4 DEF Start
    <2>2. \A q \in Starts : q < s => q \in 1..(s - 1)
      BY BoundsAreNatural DEF Starts
    <2>3. \A r \in Starts : loop'[r] = IF r = s THEN "login" ELSE loop[r]
      BY <2>1 DEF IInv, Typed
    <2>4. \A q \in Starts : q < s => q # s
      BY BoundsAreNatural DEF Starts
    <2> SUFFICES ASSUME NEW r \in Starts, NEW q \in Starts, q < r, loop'[r] # "none"
                 PROVE  loop'[q] = "stopped"
      BY DEF OneLoop
    <2>5. CASE r = s
      BY <2>1, <2>2, <2>3, <2>4, <2>5
    <2>6. CASE r # s
      BY <1>0, <2>1, <2>3, <2>6
    <2> QED BY <2>5, <2>6
  <1>6. ASSUME NEW until \in 0..MaxEvents, NEW twice, SyncAnswers(until, twice)
        PROVE  OneLoop'
    BY <1>1, <1>6 DEF SyncAnswers, Syncing
  <1>7. CASE SyncFails \/ SyncThrows
    BY <1>1, <1>7 DEF SyncFails, SyncThrows, Syncing
  <1>8. CASE Restart \/ CutOff
    <2>1. loop' = [s \in Starts |-> IF loop[s] = "none" THEN "none" ELSE "stopped"]
      BY <1>8 DEF Restart, CutOff, NewProcess
    <2> QED BY <1>0, <2>1 DEF OneLoop
  <1>9. ASSUME NEW s \in Starts, LoggedIn(s) \/ LoginFails(s) \/ Tick(s) PROVE OneLoop'
    BY <1>3, <1>9 DEF LoggedIn, LoginFails, Tick, Sync
  <1>10. ASSUME NEW s \in Starts, Resume(s) PROVE UNCHANGED loop
    BY <1>10 DEF Resume
  <1>11. ASSUME NEW room \in Rooms,
                \/ Invite(room) \/ Write(room) \/ Kick(room)
                \/ Create(room) \/ Joined(room) \/ JoinFails(room)
         PROVE  UNCHANGED loop
    BY <1>11 DEF Invite, Write, Kick, Create, Joined, JoinFails
  <1>12. ASSUME Update \/ Persist \/ UNCHANGED vars PROVE UNCHANGED loop
    BY <1>12 DEF Update, Persist, vars
  <1> QED
    BY <1>2, <1>4, <1>6, <1>7, <1>8, <1>9, <1>10, <1>11, <1>12
       DEF Next, Homeserver, Client, Application

\* One loop at most awaits the call, and so makes one update of its end.
LEMMA OneUpdate ==
    ASSUME OneLoop, Patient, NEW partial, UpdateForEach(partial), updates' # <<>>
    PROVE  Len(updates') = 1 /\ updates'[1] = partial
  <1>1. updates' = [k \in 1..Cardinality(Syncing) |-> partial]
    BY DEF UpdateForEach
  <1>2. Syncing \subseteq Starts /\ \A s \in Syncing : loop[s] = "syncing"
    BY DEF Syncing
  <1>3. \A s, q \in Syncing : ~(q < s)
    BY <1>2 DEF OneLoop
  <1>4. \A s \in Starts : s \in Nat
    BY BoundsAreNatural DEF Starts
  <1>5. \A s, q \in Syncing : s = q
    BY <1>2, <1>3, <1>4
  <1>6. Syncing = {} \/ \E s : Syncing = {s}
    BY <1>5
  <1>7. Cardinality(Syncing) \in {0, 1}
    BY <1>6, FS_EmptySet, FS_Singleton
  <1>8. Cardinality(Syncing) # 0
    <2>1. SUFFICES ASSUME Cardinality(Syncing) = 0 PROVE FALSE
      OBVIOUS
    <2>2. updates' = <<>>
      BY <1>1, <2>1
    <2> QED BY <2>2
  <1>9. updates' = [k \in 1..1 |-> partial]
    BY <1>1, <1>7, <1>8
  <1> QED
    BY <1>9

LEMMA AloneKept == ASSUME IInv, TypeOK, OneLoop, Alone, [Next]_vars PROVE Alone'
  <1> SUFFICES ASSUME Patient, updates' # <<>>
               PROVE  /\ Len(updates') = 1
                      /\ (OfAnswerSince(updates[1], state.syncToken) \/ OfError(updates[1]))'
    BY DEF Alone
  <1>1. CASE Update
    <2>1. updates # <<>> /\ updates' = Tail(updates) /\ updates \in Seq({updates[1]})
      BY <1>1 DEF Update, IInv, Waiting
    <2>2. Len(updates) = 1
      BY <2>1 DEF Alone
    <2>3. Len(updates') = 0 /\ updates' \in Seq({updates[1]})
      BY <2>1, <2>2, HeadTailProperties
    <2> QED BY <2>3, EmptySeq
  <1>2. CASE Restart \/ CutOff
    BY <1>2 DEF Restart, CutOff, NewProcess
  <1>3. ASSUME NEW until \in 0..MaxEvents, NEW twice, SyncAnswers(until, twice)
        PROVE  /\ Len(updates') = 1
               /\ (OfAnswerSince(updates[1], state.syncToken) \/ OfError(updates[1]))'
    <2>1. PICK partial : UpdateForEach(partial) /\ OfAnswerSince(partial, state.syncToken)
      BY <1>3, AnswerOf, BoundsAreNatural
    <2>2. Len(updates') = 1 /\ updates'[1] = partial
      BY <2>1, OneUpdate
    <2>3. UNCHANGED <<state, timeline>>
      BY <1>3 DEF SyncAnswers
    <2>4. OfAnswerSince(partial, state.syncToken)'
      <3>1. PICK since \in 0..Present : since = state.syncToken
        BY DEF IInv, Typed
      <3>2. OfAnswerSince(partial, since)'
        BY <2>1, <2>3, <3>1, NotGrown, OfAnswerSinceStays DEF IInv
      <3> QED BY <2>3, <3>1, <3>2
    <2> QED BY <2>2, <2>4 DEF OfAnswerSince, RoomOfAnswer
  <1>4. CASE SyncFails
    <2>1. PICK partial : partial = [Nothing EXCEPT !.pollingRetries = state.pollingRetries + 1]
      OBVIOUS
    <2>2. UpdateForEach(partial)
      BY <1>4, <2>1 DEF SyncFails
    <2>3. Len(updates') = 1 /\ updates'[1] = partial
      BY <2>2, OneUpdate
    <2>4. OfError(partial)
      BY <2>1 DEF OfError, Nothing
    <2> QED BY <2>3, <2>4 DEF OfError
  <1>5. CASE UNCHANGED updates /\ ~Update /\ ~Restart /\ ~CutOff
    <2>1. Grown /\ state'.syncToken = state.syncToken /\ state.syncToken \in 0..Present
      BY <1>5, TokenStays
    <2>2. PICK u, since : u = updates[1] /\ since = state.syncToken
      OBVIOUS
    <2>3. Len(updates) = 1 /\ (OfAnswerSince(u, since) \/ OfError(u))
      BY <1>5, <2>2 DEF Alone
    <2>4. OfAnswerSince(u, since) => OfAnswerSince(u, since)'
      BY <2>1, <2>2, OfAnswerSinceStays DEF IInv
    <2> QED BY <1>5, <2>1, <2>2, <2>3, <2>4 DEF OfAnswerSince, RoomOfAnswer, OfError
  <1> QED
    BY <1>1, <1>2, <1>3, <1>4, <1>5, Changing

\* What a room said between two tokens was told once and in order, but for
\* what a membership ended by a new invitation said.
ToldOnce(said, room, since, until) ==
    /\ Increases(said)
    /\ \A i \in DOMAIN said : said[i] \in Written(room, since, until)
    /\ \A k \in Written(room, since, until) :
          (\E i \in DOMAIN said : said[i] = k) \/ InvitedAgain(k, until)

LEMMA ToldOnceIs ==
    ExactlyOnce <=> \A room \in Rooms : ToldOnce(delivered[room], room, began, state.syncToken)
  <1>1. ASSUME NEW room \in Rooms, NEW k \in Written(room, began, state.syncToken)
        PROVE  Delivered(k) <=> \E i \in DOMAIN delivered[room] : delivered[room][i] = k
    BY <1>1 DEF Delivered, Written
  <1> QED
    BY <1>1 DEF ExactlyOnce, ToldOnce, Increases

LEMMA NoneToldYet == ASSUME NEW room, NEW token \in Nat PROVE ToldOnce(<<>>, room, token, token)
  <1>1. Written(room, token, token) = {}
    BY DEF Written
  <1> QED
    BY <1>1 DEF ToldOnce, Increases

\* The timeline's growth changes nothing of this.
LEMMA ToldOnceStays ==
    ASSUME Typed, Grown, NEW said, NEW room, NEW since \in Nat, NEW until \in 0..Present,
           ToldOnce(said, room, since, until)
    PROVE  ToldOnce(said, room, since, until)'
  <1>1. \A k \in (since + 1)..until : timeline'[k] = timeline[k] /\ k \in 1..until
    BY Lengths DEF Grown
  <1>2. Written(room, since, until)' = Written(room, since, until)
    BY <1>1 DEF Written
  <1>3. \A k \in Written(room, since, until) : InvitedAgain(k, until)' <=> InvitedAgain(k, until)
    BY <1>1, InvitedAgainStays DEF Written
  <1> QED
    BY <1>2, <1>3 DEF ToldOnce, Increases

\* The messages of an answer continue those told before.
LEMMA ToldOnceMore ==
    ASSUME Typed, Spoken, NEW room \in Rooms, NEW first \in Nat, NEW since \in Nat,
           NEW until \in 0..Present, first <= since, since <= until,
           NEW said \in Seq(Nat), ToldOnce(said, room, first, since),
           NEW more \in Seq(Nat),
           \/ more = Messages(room, since, until)
           \/ more = <<>> /\ Membership(room, until) = "invited"
    PROVE  ToldOnce(said \o more, room, first, until)
  <1>0. until \in Nat
    BY Lengths
  <1>1. /\ Increases(more)
        /\ \A i \in DOMAIN more : more[i] \in Written(room, since, until)
        /\ \A k \in Written(room, since, until) :
              (\E i \in DOMAIN more : more[i] = k) \/ InvitedAgain(k, until)
    <2>1. CASE more = Messages(room, since, until)
      <3>1. PICK S : S = Written(room, since, until)
        OBVIOUS
      <3>2. S \subseteq Nat /\ IsFiniteSet(S)
        BY <1>0, <3>1, WrittenType
      <3>3. /\ more \in Seq(S) /\ Increases(more) /\ Covers(more, S)
        BY <2>1, <3>1, <3>2, InOrderProperties DEF Messages
      <3>4. \A i \in DOMAIN more : more[i] \in S
        BY <3>3, ElementOfSeq, LenProperties
      <3> QED BY <3>1, <3>3, <3>4 DEF Covers
    <2>2. CASE more = <<>> /\ Membership(room, until) = "invited"
      <3>1. ASSUME NEW k \in Written(room, since, until) PROVE InvitedAgain(k, until)
        <4>1. k \in 1..until /\ timeline[k].room = room /\ timeline[k].kind = "message"
          BY <1>0 DEF Written
        <4> QED BY <2>2, <4>1, InvitedLater
      <3> QED BY <2>2, <3>1 DEF Increases
    <2> QED BY <2>1, <2>2
  <1>2. /\ Written(room, first, since) \subseteq Written(room, first, until)
        /\ Written(room, since, until) \subseteq Written(room, first, until)
        /\ \A k \in Written(room, first, until) :
              k \in Written(room, first, since) \/ k \in Written(room, since, until)
        /\ \A k \in Written(room, first, since) : \A l \in Written(room, since, until) : k < l
    BY <1>0 DEF Written
  <1>3. /\ Increases(said)
        /\ \A i \in DOMAIN said : said[i] \in Written(room, first, since)
        /\ \A k \in Written(room, first, since) :
              (\E i \in DOMAIN said : said[i] = k) \/ InvitedAgain(k, since)
    BY DEF ToldOnce
  <1>4. PICK all : all = said \o more
    OBVIOUS
  <1>5. Increases(all)
    <2>1. \A i \in DOMAIN said, j \in DOMAIN more : said[i] < more[j]
      BY <1>1, <1>2, <1>3
    <2> QED BY <1>1, <1>3, <1>4, <2>1, ConcatIncreases
  <1>6. /\ \A i \in DOMAIN all :
              \/ i \in DOMAIN said /\ all[i] = said[i]
              \/ \E j \in DOMAIN more : i = Len(said) + j /\ all[i] = more[j]
        /\ \A i \in DOMAIN said : i \in DOMAIN all /\ all[i] = said[i]
        /\ \A i \in DOMAIN more : Len(said) + i \in DOMAIN all /\ all[Len(said) + i] = more[i]
    BY <1>4, ConcatShape
  <1>7. \A i \in DOMAIN all : all[i] \in Written(room, first, until)
    BY <1>1, <1>2, <1>3, <1>6
  <1>8. ASSUME NEW k \in Written(room, first, until)
        PROVE  (\E i \in DOMAIN all : all[i] = k) \/ InvitedAgain(k, until)
    <2>1. CASE k \in Written(room, first, since)
      <3>1. InvitedAgain(k, since) => InvitedAgain(k, until)
        BY <1>0, InvitedAgainLater
      <3> QED BY <1>3, <1>6, <2>1, <3>1
    <2>2. CASE k \in Written(room, since, until)
      BY <1>1, <1>6, <2>2
    <2> QED BY <1>2, <2>1, <2>2
  <1> QED
    BY <1>4, <1>5, <1>7, <1>8 DEF ToldOnce

LEMMA ExactlyOnceKept ==
    ASSUME IInv, TypeOK, Alone, ExactlyOnce, Patient, [Next]_vars
    PROVE  ExactlyOnce'
  <1>0. /\ state.syncToken \in 0..Present /\ Present \in Nat
        /\ began \in Nat /\ began <= state.syncToken
    BY Lengths DEF IInv, Typed
  <1>1. PICK first, since, said : first = began /\ since = state.syncToken /\ said = delivered
    OBVIOUS
  <1>2. \A room \in Rooms : ToldOnce(said[room], room, first, since)
    BY <1>1, ToldOnceIs
  <1>3. SUFFICES ASSUME NEW room \in Rooms
                 PROVE  ToldOnce(delivered[room], room, began, state.syncToken)'
    <2>1. (\A room \in Rooms : ToldOnce(delivered[room], room, began, state.syncToken))'
             => ExactlyOnce'
      BY ToldOnceIs, PTL
    <2> QED BY <2>1
  <1>4. CASE ~Update /\ ~Restart /\ ~CutOff
    <2>1. began' = first /\ delivered' = said /\ state'.syncToken = since /\ Grown
      BY <1>1, <1>4, TokenStays DEF told
    <2>2. ToldOnce(said[room], room, first, since)'
      BY <1>0, <1>1, <1>2, <2>1, ToldOnceStays DEF IInv
    <2> QED BY <2>1, <2>2 DEF ToldOnce, Increases
  <1>5. CASE Restart \/ CutOff
    <2>1. PICK stored : NewProcess(stored) /\ Faithful(stored)
      BY <1>5, Found
    <2>2. PICK token : token = stored.syncToken
      OBVIOUS
    <2>3. /\ state'.syncToken = token /\ began' = token /\ token \in Nat
          /\ delivered'[room] = <<>>
      BY <1>0, <2>1, <2>2, NewProcessKeeps DEF IInv, NewProcess, Faithful, NoMessages
    <2>4. ToldOnce(<<>>, room, token, token)'
      <3>1. ToldOnce(<<>>, room, token, token)
        BY <2>3, NoneToldYet
      <3>2. Written(room, token, token) = {} /\ Written(room, token, token)' = {}
        BY <2>3 DEF Written
      <3> QED BY <3>1, <3>2 DEF ToldOnce, Increases
    <2> QED BY <2>3, <2>4 DEF ToldOnce, Increases
  <1>6. CASE Update
    <2>1. PICK u :
             /\ u = updates[1] /\ u = Head(updates) /\ updates # <<>>
             /\ state'.syncToken = IF OfAnswer(u) THEN u.syncToken ELSE state.syncToken
             /\ delivered' = EmitMessage(u.messages)
             /\ UNCHANGED <<timeline, began>>
      BY <1>6, UpdateDoes
    <2>2. /\ said[room] \in Seq(Nat) /\ u.messages[room] \in Seq(Nat)
      BY <1>1, <2>1, FirstUpdateType, TypeParts, MessagesAreNumbers DEF IsPartial, ToldType
    <2>3. PICK until : until = state'.syncToken
      OBVIOUS
    <2>4. delivered'[room] = said[room] \o u.messages[room] /\ began' = first
      BY <1>1, <2>1 DEF EmitMessage
    <2>5. ToldOnce(said[room] \o u.messages[room], room, first, until)
      <3>1. OfAnswerSince(u, since) \/ OfError(u)
        BY <1>1, <2>1 DEF Alone
      <3>2. CASE OfAnswerSince(u, since)
        <4>1. OfAnswer(u)
          BY <1>0, <1>1, <3>2 DEF OfAnswer
        <4>2. until = u.syncToken /\ until \in since..Present
          BY <2>1, <2>3, <3>2, <4>1 DEF OfAnswerSince
        <4>3. /\ since \in Nat /\ first \in Nat /\ first <= since /\ since <= until
              /\ until \in 0..Present
          BY <1>0, <1>1, <4>2
        <4>4. \/ u.messages[room] = Messages(room, since, until)
              \/ u.messages[room] = <<>> /\ Membership(room, until) = "invited"
          BY <3>2, <4>2 DEF OfAnswerSince, RoomOfAnswer
        <4> QED BY <1>2, <2>2, <4>3, <4>4, ToldOnceMore DEF IInv
      <3>3. CASE OfError(u)
        <4>1. ~OfAnswer(u)
          BY <3>3 DEF OfError, OfAnswer, OfAnswerSince
        <4>2. until = since
          BY <1>1, <2>1, <2>3, <4>1
        <4>3. u.messages[room] = <<>>
          BY <3>3 DEF OfError, NoMessages
        <4>4. said[room] \o u.messages[room] = said[room]
          BY <2>2, <4>3, ConcatEmptySeq
        <4> QED BY <1>2, <4>2, <4>4
      <3> QED BY <3>1, <3>2, <3>3
    <2>6. ToldOnce(said[room] \o u.messages[room], room, first, until)'
      BY <2>1, <2>5 DEF ToldOnce, Increases, Written, InvitedAgain
    <2>7. PICK all : all = said[room] \o u.messages[room]
      OBVIOUS
    <2> QED BY <2>3, <2>4, <2>6, <2>7 DEF ToldOnce, Increases
  <1> QED
    BY <1>4, <1>5, <1>6

\* Each message from the token a process begins with up to its sync token is
\* delivered once, in order, to the listeners of an application that starts
\* one client at a time, whatever the storage keeps: but for one of a room that
\* was left and invited again (MatrixClient.poll, onSyncSuccess,
\* MatrixClientStore.update, MatrixRoom.fromSync, MatrixClientEventEmitter).
THEOREM Deliveries ==
    ASSUME Patient
    PROVE  Spec => []ExactlyOnce
  <1> DEFINE DInv == IInv /\ TypeOK /\ OneLoop /\ Alone /\ ExactlyOnce
  <1>1. Init => DInv
    <2>1. Init => OneLoop /\ Alone
      BY DEF Init, OneLoop, Alone
    <2>2. ASSUME Init, NEW room \in Rooms
          PROVE  ToldOnce(delivered[room], room, began, state.syncToken)
      <3>1. delivered[room] = <<>> /\ began = 0 /\ state.syncToken = 0
        BY <2>2 DEF Init, Fresh, NoMessages
      <3> QED BY <3>1, NoneToldYet
    <2> QED BY <2>1, <2>2, ToldOnceIs, InitIInv, TypeInit
  <1>2. DInv /\ [Next]_vars => DInv'
    BY Steps, TypeKept, OneLoopKept, AloneKept, ExactlyOnceKept
  <1>3. DInv => ExactlyOnce
    OBVIOUS
  <1> HIDE DEF DInv
  <1> QED
    BY <1>1, <1>2, <1>3, PTL DEF Spec
=============================================================================
