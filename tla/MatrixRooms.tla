---------------------------- MODULE MatrixRooms ----------------------------
(***************************************************************************)
(* How the matrix client rebuilds one room from sync answers: the          *)
(* MatrixRoom constructors over the homeserver's events, and merge, which  *)
(* MatrixClientStore.mergeRooms applies to what it had.                    *)
(*                                                                         *)
(* The homeserver cuts the room's events into batches of one or more, each *)
(* in the section of the membership the client has by then.  A batch may   *)
(* begin with state events, which repeat events of earlier batches, and it *)
(* may contain an event twice.                                             *)
(***************************************************************************)
EXTENDS InOrder, SequencesExt

CONSTANTS
    Users,
    MaxEvents,   \* events of the room (a bound)
    MaxRepeats,  \* repeats of earlier events, and of its own, in a batch (a bound)
    MaxRestarts, \* restarts of the client (a bound)
    None

Types == {"create", "join", "leave", "text", "image"}
Sections == {"joined", "invited", "left"}

\* event_id is optional.
Event == [type : Types, sender : Users, id : 1..MaxEvents \cup {None}]

\* A message keeps the sender and the text, which stands for the event's id.
Message == [sender : Users, content : 1..MaxEvents \cup {None}]

MatrixRoom ==
    [status : Sections, members : Seq(Users), messages : Seq(Message)]

ASSUME RoomsAssumption ==
    /\ {MaxEvents, MaxRepeats, MaxRestarts} \subseteq Nat
    /\ None \notin Nat /\ None \notin MatrixRoom

VARIABLES
    room,      \* the store's record of the room; None before the first batch
    batches,   \* history: the events of all the batches
    since,     \* history: those since the client was last restarted
    created,   \* how many events have an id
    restarts

vars == <<room, batches, since, created, restarts>>

----------------------------------------------------------------------------
(* utils/events.ts and MatrixMessage.from: only text becomes a message. *)

IsCreateEvent(e) == e.type = "create"
AnyMembership(e) == e.type \in {"join", "leave"}                 \* mutant

IsJoinEvent(e) == e.type = "join"
IsMessageEvent(e) == e.type \in {"text", "image"}
IsTextMessageEvent(e) == e.type = "text"

----------------------------------------------------------------------------
(* MatrixRoom. *)

\* An event without an id is kept.
GetUniqueEvents(events) ==
    Pick(events, {i \in DOMAIN events : \/ events[i].id = None
                                       \/ \A j \in 1..(i - 1) : events[j].id # events[i].id})

RemoveDuplicates(members) ==
    Pick(members, {i \in DOMAIN members : \A j \in 1..(i - 1) : members[j] # members[i]})

GetMembersFromEvents(events) ==
    LET unique == GetUniqueEvents(Pick(events,
                    {i \in DOMAIN events : IsCreateEvent(events[i]) \/ IsJoinEvent(events[i])}))
    IN  RemoveDuplicates([i \in DOMAIN unique |-> unique[i].sender])

UniqueMessageEvents(events) ==
    GetUniqueEvents(Pick(events, {i \in DOMAIN events : IsMessageEvent(events[i])}))

KeepsUndefined(events) ==                                        \* mutant
    LET unique == UniqueMessageEvents(events)
    IN  [i \in DOMAIN unique |->
            IF IsTextMessageEvent(unique[i])
            THEN [sender |-> unique[i].sender, content |-> unique[i].id] ELSE None]

GetMessagesFromEvents(events) ==
    LET unique == UniqueMessageEvents(events)
        texts == Pick(unique, {i \in DOMAIN unique : IsTextMessageEvent(unique[i])})
    IN  [i \in DOMAIN texts |-> [sender |-> texts[i].sender, content |-> texts[i].id]]

\* fromJoined, fromInvited and fromLeft: an invitation has no messages.
FromSync(section, events) ==
    [status |-> section,
     members |-> GetMembersFromEvents(events),
     messages |-> IF section = "invited" THEN <<>> ELSE GetMessagesFromEvents(events)]

MergeNewestFirst(new, old) ==                                    \* mutant
    IF old = None THEN new
    ELSE [status |-> new.status,
          members |-> RemoveDuplicates(old.members \o new.members),
          messages |-> new.messages \o old.messages]

Merge(new, old) ==
    IF old = None THEN new
    ELSE [status |-> new.status,
          members |-> RemoveDuplicates(old.members \o new.members),
          messages |-> old.messages \o new.messages]

----------------------------------------------------------------------------
(* The homeserver's batches. *)

Occurring(s) == {s[i] : i \in DOMAIN s}

\* The next n events: an invitation shows only stripped state events, which
\* may lack an id.
NewEvents(section, n) ==
    {[i \in 1..n |-> [type |-> shown[i].type, sender |-> shown[i].sender,
                      id |-> IF shown[i].named THEN created + i ELSE None]] :
        shown \in [1..n -> [type : IF section = "invited" THEN Types \ {"text", "image"}
                                                         ELSE Types,
                            sender : Users,
                            named : {TRUE, section # "invited"}]]}

\* The state a batch begins with: earlier events that are no messages.
States == SeqOf({e \in Occurring(batches) : ~IsMessageEvent(e)}, MaxRepeats)

\* The events of a batch that occur in it again.
Repeats(events) == SeqOf(Occurring(events), MaxRepeats)

\* A sync answer with this room in it.
Sync(section, state, new, again) ==
    /\ LET events == state \o new \o again IN
          /\ room' = Merge(FromSync(section, events), room)
          /\ batches' = batches \o events
          /\ since' = since \o events
    /\ created' = created + Len(new)
    /\ UNCHANGED restarts

\* A client over the same storage: prepareData has dropped the messages.
Restart ==
    /\ room # None /\ restarts < MaxRestarts
    /\ room' = Merge([room EXCEPT !.messages = <<>>], None)
    /\ since' = <<>>
    /\ restarts' = restarts + 1
    /\ UNCHANGED <<batches, created>>

Init ==
    /\ room = None /\ batches = <<>> /\ since = <<>>
    /\ created = 0 /\ restarts = 0

Next ==
    \/ \E section \in Sections, n \in 1..(MaxEvents - created), state \in States :
          \E new \in NewEvents(section, n) : \E again \in Repeats(new) :
             Sync(section, state, new, again)
    \/ Restart

Spec == Init /\ [][Next]_vars

----------------------------------------------------------------------------
\* Every variable has its type.
TypeOK ==
    /\ room \in MatrixRoom \cup {None}
    /\ batches \in Seq(Event) /\ since \in Seq(Event)
    /\ created \in 0..MaxEvents /\ restarts \in 0..MaxRestarts

\* However the homeserver cuts the room's events into batches, and although it
\* repeats some within a batch and some in later ones, the room is the one a
\* single batch of all would have given.
BatchingIrrelevant ==
    room # None =>
        /\ room.members = GetMembersFromEvents(batches)
        /\ room.messages = GetMessagesFromEvents(since)

\* Against what a room is: its members are those who created or joined it,
\* and its messages the text events received, each once and in order.
RoomExact ==
    room # None =>
        /\ Occurring(room.members) =
              {e.sender : e \in {f \in Occurring(batches) : f.type \in {"create", "join"}}}
        /\ \A i, j \in DOMAIN room.members : i < j => room.members[i] # room.members[j]
        /\ {m.content : m \in Occurring(room.messages)} =
              {e.id : e \in {f \in Occurring(since) : f.type = "text"}}
        /\ \A i, j \in DOMAIN room.messages :
              i < j => room.messages[i].content < room.messages[j].content
=============================================================================
