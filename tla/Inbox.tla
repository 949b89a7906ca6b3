------------------------------- MODULE Inbox --------------------------------
(***************************************************************************)
(* The notification-service: the Linked Data Notifications inbox of a node. *)
(* It is a slice of pointers behind one read-write lock.  A handler holds   *)
(* the lock only inside the store's methods: a notification gets its ID and *)
(* its time before the lock is taken, and List and Get hand out pointers    *)
(* that the handler encodes after the lock is released, while an Acknowledge *)
(* may be changing what they point to.  Nothing survives the process.       *)
(***************************************************************************)
EXTENDS Naturals, Sequences, FiniteSets

CONSTANTS
    Requests,       \* the requests clients send, each once; a notification is
                    \* known by the request that brought it (its fresh UUID)
    Types,          \* the notification types
    AnyType,        \* the empty type filter
    Calls,          \* what a request may ask for
    NoCall,         \* a request not sent yet asks for nothing
    NoId,           \* an ID that no notification has, or none
    MaxTime         \* bound of the model: the last time of the clock

Ops == {"receive", "list", "get", "ack", "stats"}

(* What a request asks: the types of the notification it brings, if its     *)
(* body is one; the filter of a list; the ID in a path.                     *)
Bodies == {"wrong content type", "not a JSON object", "notification"}
CallType ==
    [op : Ops, body : Bodies, types : SUBSET Types, filter : Types \cup {AnyType},
     id : Requests \cup {NoId}]

ASSUME InboxAssumption ==
    /\ AnyType \notin Types
    /\ Calls \subseteq CallType
    /\ NoCall \notin Calls
    /\ NoId \notin Requests
    /\ MaxTime \in Nat

VARIABLES
    notifications,  \* Inbox.notifications, in order
    now,            \* the clock
    req             \* req[r]: the goroutine that serves r, and its answer

vars == <<notifications, now, req>>

Notification == [id : Requests, receivedAt : 0..MaxTime, types : SUBSET Types, acknowledged : BOOLEAN]

(* receivedAt: the stamp of a notification not yet stored; listed: the      *)
(* pointers handed out by the store; encoded: what is in the answer so far, *)
(* as [id, acknowledged]; total and acked: the counts of an answer; before: *)
(* history, the requests already granted when this one was sent.            *)
Working == {"sent", "stamped", "encoding"}
Item == [id : Requests, acknowledged : BOOLEAN]

Idle ==
    [pc |-> "idle", call |-> NoCall, receivedAt |-> 0, listed |-> <<>>, encoded |-> <<>>,
     code |-> 0, total |-> 0, acked |-> 0, before |-> {}]

Init ==
    /\ notifications = <<>>
    /\ now = 0
    /\ req = [r \in Requests |-> Idle]

-----------------------------------------------------------------------------
Stored(id) == \E i \in 1..Len(notifications) : notifications[i].id = id
Position(id) == CHOOSE i \in 1..Len(notifications) : notifications[i].id = id
At(id) == notifications[Position(id)]

(* A client knows an ID, a fresh UUID, only once the inbox has it.          *)
Known(id) == id = NoId \/ Stored(id)

Granted(r) == req[r].pc = "answered" /\ req[r].code \in {200, 201}

Send(r) ==
    /\ req[r].pc = "idle"
    /\ \E c \in {d \in Calls : Known(d.id)} :
          req' = [req EXCEPT ![r].pc = "sent", ![r].call = c,
                             ![r].before = {q \in Requests : Granted(q)}]
    /\ UNCHANGED <<notifications, now>>

Tick ==
    /\ now < MaxTime
    /\ now' = now + 1
    /\ UNCHANGED <<notifications, req>>

Asks(r, op) == req[r].pc = "sent" /\ req[r].call.op = op

Answer(r, code) == req' = [req EXCEPT ![r].pc = "answered", ![r].code = code]

(* InboxReceive() before Add(): 415, then 400.                              *)
Refuse(r) ==
    /\ Asks(r, "receive")
    /\ req[r].call.body # "notification"
    /\ Answer(r, IF req[r].call.body = "wrong content type" THEN 415 ELSE 400)
    /\ UNCHANGED <<notifications, now>>

(* Mutation: local time, an hour ahead, for UTC.                            *)
StampLocalTime(r) ==
    /\ Asks(r, "receive")
    /\ req[r].call.body = "notification"
    /\ req' = [req EXCEPT ![r].pc = "stamped", ![r].receivedAt = now + 1]
    /\ UNCHANGED <<notifications, now>>

(* Add() before the lock.                                                   *)
Stamp(r) ==
    /\ Asks(r, "receive")
    /\ req[r].call.body = "notification"
    /\ req' = [req EXCEPT ![r].pc = "stamped", ![r].receivedAt = now]
    /\ UNCHANGED <<notifications, now>>

New(r) ==
    [id |-> r, receivedAt |-> req[r].receivedAt, types |-> req[r].call.types,
     acknowledged |-> FALSE]

(* Mutation: the slice is read before the lock is taken, and an append that *)
(* another request made meanwhile is overwritten.                           *)
AddOverwrites(r) ==
    /\ req[r].pc = "stamped"
    /\ \E n \in 0..Len(notifications) :
          notifications' = Append(SubSeq(notifications, 1, n), New(r))
    /\ Answer(r, 201)
    /\ UNCHANGED now

(* Mutation: the newest notification comes first.                           *)
AddInFront(r) ==
    /\ req[r].pc = "stamped"
    /\ notifications' = <<New(r)>> \o notifications
    /\ Answer(r, 201)
    /\ UNCHANGED now

(* Add() under the lock.                                                    *)
Add(r) ==
    /\ req[r].pc = "stamped"
    /\ notifications' = Append(notifications, New(r))
    /\ Answer(r, 201)
    /\ UNCHANGED now

Wanted(n, filter) == filter = AnyType \/ filter \in n.types

(* The loop of List(): the notifications a filter lets through, in order.   *)
Listed(filter) ==
    LET ids[i \in 0..Len(notifications)] ==
            IF i = 0 THEN <<>>
            ELSE IF Wanted(notifications[i], filter)
                 THEN Append(ids[i - 1], notifications[i].id)
                 ELSE ids[i - 1]
    IN ids[Len(notifications)]

(* List() under the lock; totalItems is its length.                         *)
List(r) ==
    /\ Asks(r, "list")
    /\ req' = [req EXCEPT ![r].pc = "encoding", ![r].listed = Listed(req[r].call.filter)]
    /\ UNCHANGED <<notifications, now>>

(* Get() under the lock: the pointer.                                       *)
Get(r) ==
    /\ Asks(r, "get")
    /\ Stored(req[r].call.id)
    /\ req' = [req EXCEPT ![r].pc = "encoding", ![r].listed = <<req[r].call.id>>]
    /\ UNCHANGED <<notifications, now>>

NotFound(r) ==
    /\ Asks(r, "get") \/ Asks(r, "ack")
    /\ ~Stored(req[r].call.id)
    /\ Answer(r, 404)
    /\ UNCHANGED <<notifications, now>>

(* The encoder, outside the lock, follows the next pointer.  Its read of    *)
(* Acknowledged may race with the write of it, and sees one value or the    *)
(* other.                                                                   *)
Encode(r) ==
    LET k == Len(req[r].encoded) + 1 IN
    /\ req[r].pc = "encoding"
    /\ k <= Len(req[r].listed)
    /\ req' = [req EXCEPT
                  ![r].encoded = Append(@, [id |-> req[r].listed[k],
                       acknowledged |-> At(req[r].listed[k]).acknowledged])]
    /\ UNCHANGED <<notifications, now>>

Encoded(r) ==
    /\ req[r].pc = "encoding"
    /\ Len(req[r].encoded) = Len(req[r].listed)
    /\ req' = [req EXCEPT ![r].pc = "answered", ![r].code = 200,
                          ![r].total = Len(req[r].listed), ![r].listed = <<>>]
    /\ UNCHANGED <<notifications, now>>

(* Mutation: the copy, not the stored notification, is marked.              *)
AcknowledgeACopy(r) ==
    /\ Asks(r, "ack")
    /\ Stored(req[r].call.id)
    /\ Answer(r, 200)
    /\ UNCHANGED <<notifications, now>>

Acknowledge(r) ==
    /\ Asks(r, "ack")
    /\ Stored(req[r].call.id)
    /\ notifications' =
          [notifications EXCEPT ![Position(req[r].call.id)].acknowledged = TRUE]
    /\ Answer(r, 200)
    /\ UNCHANGED now

AcknowledgedIn(seq) == Cardinality({i \in 1..Len(seq) : seq[i].acknowledged})

(* Mutation: the pending notifications are counted as acknowledged.         *)
StatsSwapped(r) ==
    /\ Asks(r, "stats")
    /\ req' = [req EXCEPT ![r].pc = "answered", ![r].code = 200,
                          ![r].total = Len(notifications),
                          ![r].acked = Len(notifications) - AcknowledgedIn(notifications)]
    /\ UNCHANGED <<notifications, now>>

Stats(r) ==
    /\ Asks(r, "stats")
    /\ req' = [req EXCEPT ![r].pc = "answered", ![r].code = 200,
                          ![r].total = Len(notifications),
                          ![r].acked = AcknowledgedIn(notifications)]
    /\ UNCHANGED <<notifications, now>>

(* The process ends and starts again with an empty inbox.  A request in     *)
(* flight gets no answer, and an answer given before binds the new process  *)
(* to nothing: both are past.                                               *)
Restart ==
    /\ \E r \in Requests : req[r].pc \notin {"idle", "past"}
    /\ notifications' = <<>>
    /\ req' = [r \in Requests |->
                 IF req[r].pc = "idle" THEN req[r] ELSE [Idle EXCEPT !.pc = "past"]]
    /\ UNCHANGED now

Serve(r) ==
    \/ Refuse(r) \/ Stamp(r) \/ Add(r)
    \/ List(r) \/ Get(r) \/ NotFound(r) \/ Encode(r) \/ Encoded(r)
    \/ Acknowledge(r) \/ Stats(r)

Next ==
    \/ \E r \in Requests : Send(r) \/ Serve(r)
    \/ Tick
    \/ Restart

Spec == Init /\ [][Next]_vars

-----------------------------------------------------------------------------
RequestType ==
    [pc : {"idle", "answered", "past"} \cup Working, call : Calls \cup {NoCall},
     receivedAt : 0..MaxTime, listed : Seq(Requests), encoded : Seq(Item),
     code : {0, 200, 201, 400, 404, 415}, total : Nat, acked : Nat,
     before : SUBSET Requests]

TypeOK ==
    /\ notifications \in Seq(Notification)
    /\ now \in 0..MaxTime
    /\ req \in [Requests -> RequestType]

Answered(r, op, code) ==
    req[r].pc = "answered" /\ req[r].call.op = op /\ req[r].code = code

(* A notification answered 201 is in the inbox, once, however many requests *)
(* add at the same time.                                                    *)
ReceivedKeptOnce ==
    \A r \in Requests : Answered(r, "receive", 201) =>
        \E i \in 1..Len(notifications) :
            /\ notifications[i].id = r
            /\ \A j \in 1..Len(notifications) \ {i} : notifications[j].id # r

(* What had been acknowledged, or received, in the eyes of clients when r   *)
(* was sent.                                                                *)
AckedBefore(r) == {req[q].call.id : q \in {p \in req[r].before : Answered(p, "ack", 200)}}
ReceivedBefore(r) == {q \in req[r].before : Answered(q, "receive", 201)}

(* A list, though encoded outside the lock, is right for some moment of the *)
(* request, item by item: it misses no wanted notification that was there   *)
(* when it was sent and shows none that was never received; an item shown   *)
(* as acknowledged is, and one acknowledged before the request shows it.    *)
ListsTrue ==
    \A r \in {q \in Requests : Answered(q, "list", 200) \/ Answered(q, "get", 200)} :
        LET shown == {req[r].encoded[i] : i \in 1..Len(req[r].encoded)}
            wanted == {q \in ReceivedBefore(r) :
                          \/ req[r].call.filter = AnyType
                          \/ req[r].call.filter \in req[q].call.types}
        IN
        /\ req[r].call.op = "list" => wanted \subseteq {n.id : n \in shown}
        /\ \A n \in shown :
              /\ Stored(n.id)
              /\ n.acknowledged => At(n.id).acknowledged
              /\ n.id \in AckedBefore(r) => n.acknowledged
              /\ req[r].call.op = "list" /\ req[r].call.filter # AnyType
                 => req[r].call.filter \in At(n.id).types

(* The inbox is in the order in which clients know the notifications to     *)
(* have arrived, and so are the times: a request sent after the 201 of      *)
(* another comes after it.  (Of two requests at once the later may have the *)
(* earlier time, since the stamp is taken before the lock.)                 *)
RealTimeOrder ==
    \A r, q \in Requests :
        /\ Answered(r, "receive", 201)
        /\ q \in ReceivedBefore(r)
        => /\ Position(q) < Position(r)
           /\ At(q).receivedAt <= At(r).receivedAt

(* Counts agree with the answers that came before them: a count of the      *)
(* stats is not less than what a list or another count had shown.           *)
StatsMonotonic ==
    \A r \in Requests : Answered(r, "stats", 200) =>
        \A q \in req[r].before :
            /\ Answered(q, "list", 200) \/ Answered(q, "stats", 200)
               => req[q].total <= req[r].total
            /\ Answered(q, "list", 200)
               => AcknowledgedIn(req[q].encoded) <= req[r].acked
            /\ Answered(q, "stats", 200) => req[q].acked <= req[r].acked

(* Nothing but the end of the process removes a notification, moves it,     *)
(* rewrites it, or takes an acknowledgement back.                           *)
KeepsAll ==
    /\ Len(notifications) <= Len(notifications')
    /\ \A i \in 1..Len(notifications) :
          LET n == notifications[i] m == notifications'[i] IN
          /\ [m EXCEPT !.acknowledged = FALSE] = [n EXCEPT !.acknowledged = FALSE]
          /\ n.acknowledged => m.acknowledged
NothingTakenBack == [][KeepsAll \/ Restart]_vars
=============================================================================
