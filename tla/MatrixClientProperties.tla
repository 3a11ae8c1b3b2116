----------------------- MODULE MatrixClientProperties -----------------------
(***************************************************************************)
(* What the matrix client promises to the application that starts it.      *)
(***************************************************************************)
EXTENDS MatrixClient

IsMessages(m) == m \in [Rooms -> Seq(1..MaxEvents)]

IsPartial(u) ==
    /\ DOMAIN u = {"isRunning", "accessToken", "syncToken", "pollingRetries", "rooms", "messages"}
    /\ u.isRunning \in BOOLEAN /\ u.accessToken \in BOOLEAN
    /\ u.syncToken \in 0..MaxEvents /\ u.pollingRetries \in Nat
    /\ u.rooms \subseteq Rooms \X Statuses
    /\ IsMessages(u.messages)

StoreState ==
    [isRunning : BOOLEAN, accessToken : BOOLEAN, syncToken : 0..MaxEvents,
     pollingRetries : Nat, rooms : [Rooms -> Statuses]]

\* Every variable has its type.
TypeOK ==
    /\ timeline \in Seq(Event) /\ Len(timeline) <= MaxEvents
    /\ joining \subseteq Rooms
    /\ state \in StoreState
    /\ IsPartial(storage)
    /\ \A k \in DOMAIN updates : IsPartial(updates[k])
    /\ call \in {<<>>} \cup [1..1 -> [since : 0..MaxEvents, atLeast : 0..MaxEvents]]
    /\ loop \in [Starts -> Labels]
    /\ promise \in [Starts -> Outcomes]
    /\ began \in 0..MaxEvents /\ IsMessages(delivered) /\ earlier \subseteq 1..MaxEvents
    /\ dropped \subseteq Rooms
    /\ failed \in Nat /\ streak \in 0..failed
    /\ errors \in 0..MaxErrors

\* The room was invited again after the k-th event, up to the token.
InvitedAgain(k, token) ==
    \E j \in (k + 1)..token :
        timeline[j].room = timeline[k].room /\ timeline[j].kind = "invited"

Delivered(k) ==
    \E i \in DOMAIN delivered[timeline[k].room] : delivered[timeline[k].room][i] = k

\* While one loop polls, a process calls the listeners with the messages from
\* the token it began with up to the sync token in order and none twice,
\* whatever the Storage keeps and however slowly: no sync begins from a token
\* the pending updates will replace.  It misses only what a room said before
\* it was left and invited again, which the answer that holds both may drop.
ExactlyOnce ==
    \A room \in Rooms :
        /\ \A i, j \in DOMAIN delivered[room] :
              i < j => delivered[room][i] < delivered[room][j]
        /\ \A i \in DOMAIN delivered[room] :
              delivered[room][i] \in Written(room, began, state.syncToken)
        /\ \A k \in Written(room, began, state.syncToken) :
              Delivered(k) \/ InvitedAgain(k, state.syncToken)

\* No message up to the sync token is skipped, whatever the Storage keeps and
\* however many loops poll, but for two causes: the room was left and invited
\* again in one answer, or an earlier process had the message, and told it or
\* was telling it when it ended.
NoneSkipped ==
    \A k \in 1..state.syncToken :
        timeline[k].kind = "message" =>
            Delivered(k) \/ k \in earlier \/ InvitedAgain(k, state.syncToken)

Agrees(status, room, token) ==
    \/ status = Membership(room, token)
    \/ ~OneSection /\ Membership(room, token) = "invited" /\ status = "left"

\* The status the store gives a room, from which joinRooms and inviteToRooms
\* decide, is the membership the homeserver had at the sync token; where an
\* answer may list a room twice, it may be "left" for one invited again.
StoreAgrees == \A room \in Rooms : Agrees(state.rooms[room], room, state.syncToken)

\* A loop gives up only after MAX_POLLING_RETRIES retries: although it tests a
\* count that the update of onSyncError has not raised yet, and two loops may
\* share one failing call.
RetriesBeforeGivingUp ==
    \A s \in Starts : loop[s] = "gaveUp" => failed > MAX_POLLING_RETRIES

\* No invitation is forgotten: once the application has gone on after start,
\* a room whose invitation the client has read is being joined, unless a POST
\* for it failed: though invitations reach the application in two ways, the
\* INVITE event and invitedRooms, and start resolves before the rooms of the
\* first answer are in the store, or rejects while its loop goes on.  An answer
\* that lists the room twice hides the invitation from invitedRooms.
NoInvitationForgotten ==
    (OneSection /\ \E s \in Starts : loop[s] # "stopped" /\ promise[s] \in {"resumed", "refused"})
    => \A room \in Rooms :
        /\ Membership(room, Present) = "invited"
        /\ room \notin Answered(state.syncToken, Present)
        => room \in joining \cup dropped

\* While a loop polls, the sync token passes every message of the homeserver,
\* unless the process ends, gives up or meets an answer that lacks a section.
\* That no message it passes was skipped is NoneSkipped.
Polling ==
    /\ \E s \in Starts : loop[s] \in {"syncing", "timer"}
    /\ \A s \in Starts : loop[s] \notin {"threw", "gaveUp"}

Arrives ==
    \A k \in 1..MaxEvents :
        (k <= Len(timeline) /\ timeline[k].kind = "message" /\ Polling)
            ~> (state.syncToken >= k \/ ~Polling)

----------------------------------------------------------------------------
(* What a comment or the code's own intent says and the code does not do.    *)

\* onSyncSuccess sets pollingRetries: 0 (MatrixClient.ts:125): the retries are
\* counted since the last successful sync.
RetriesSinceSuccess ==
    \A s \in Starts : loop[s] = "gaveUp" => streak > MAX_POLLING_RETRIES
=============================================================================
