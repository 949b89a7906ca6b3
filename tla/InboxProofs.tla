---------------------------- MODULE InboxProofs -----------------------------
(***************************************************************************)
(* What holds of the inbox for every set of requests, calls and types, any  *)
(* clock and any number of restarts.                                        *)
(*                                                                          *)
(* First the order in which notifications come to be in the inbox, which    *)
(* does not depend on what the fields listed, encoded, total and acked of a *)
(* request hold; then what a list is made of, by induction; then what the   *)
(* answers tell.                                                            *)
(***************************************************************************)
EXTENDS Inbox, FiniteSetTheorems, WellFoundedInduction, NaturalsInduction, TLAPS

Pcs == {"idle", "answered", "past"} \cup Working
Codes == {0, 200, 201, 400, 404, 415}

(* The states of requests, but for four fields, of which only that they have *)
(* values, the members of some L.                                           *)
Shapes(L) ==
    [Requests ->
        [pc : Pcs, call : Calls \cup {NoCall}, receivedAt : 0..MaxTime, listed : L,
         encoded : L, code : Codes, total : L, acked : L, before : SUBSET Requests]]

(* g is f but for r, whose constrained fields are as given.                 *)
Gives(f, g, r, pc, call, receivedAt, code, before) ==
    /\ \A q \in Requests \ {r} : g[q] = f[q]
    /\ g[r].pc = pc
    /\ g[r].call = call
    /\ g[r].receivedAt = receivedAt
    /\ g[r].code = code
    /\ g[r].before = before

-----------------------------------------------------------------------------
(* Assigning one field of one request.                                      *)

LEMMA ShapesWiden ==
    ASSUME NEW L, NEW M, L \subseteq M, NEW f \in Shapes(L)
    PROVE  f \in Shapes(M)
BY DEF Shapes

LEMMA SetPc ==
    ASSUME NEW L, NEW f \in Shapes(L), NEW r \in Requests, NEW v \in Pcs
    PROVE  LET g == [f EXCEPT ![r].pc = v] IN
           /\ g \in Shapes(L)
           /\ Gives(f, g, r, v, f[r].call, f[r].receivedAt, f[r].code, f[r].before)
BY DEF Shapes, Gives

LEMMA SetCall ==
    ASSUME NEW L, NEW f \in Shapes(L), NEW r \in Requests, NEW v \in Calls
    PROVE  LET g == [f EXCEPT ![r].call = v] IN
           /\ g \in Shapes(L)
           /\ Gives(f, g, r, f[r].pc, v, f[r].receivedAt, f[r].code, f[r].before)
BY DEF Shapes, Gives

LEMMA SetReceivedAt ==
    ASSUME NEW L, NEW f \in Shapes(L), NEW r \in Requests, NEW v \in 0..MaxTime
    PROVE  LET g == [f EXCEPT ![r].receivedAt = v] IN
           /\ g \in Shapes(L)
           /\ Gives(f, g, r, f[r].pc, f[r].call, v, f[r].code, f[r].before)
BY DEF Shapes, Gives

LEMMA SetCode ==
    ASSUME NEW L, NEW f \in Shapes(L), NEW r \in Requests, NEW v \in Codes
    PROVE  LET g == [f EXCEPT ![r].code = v] IN
           /\ g \in Shapes(L)
           /\ Gives(f, g, r, f[r].pc, f[r].call, f[r].receivedAt, v, f[r].before)
BY DEF Shapes, Gives

LEMMA SetBefore ==
    ASSUME NEW L, NEW f \in Shapes(L), NEW r \in Requests, NEW v \in SUBSET Requests
    PROVE  LET g == [f EXCEPT ![r].before = v] IN
           /\ g \in Shapes(L)
           /\ Gives(f, g, r, f[r].pc, f[r].call, f[r].receivedAt, f[r].code, v)
BY DEF Shapes, Gives

LEMMA SetListed ==
    ASSUME NEW L, NEW f \in Shapes(L), NEW r \in Requests, NEW v \in L
    PROVE  LET g == [f EXCEPT ![r].listed = v] IN
           /\ g \in Shapes(L)
           /\ Gives(f, g, r, f[r].pc, f[r].call, f[r].receivedAt, f[r].code, f[r].before)
BY DEF Shapes, Gives

LEMMA SetEncoded ==
    ASSUME NEW L, NEW f \in Shapes(L), NEW r \in Requests, NEW v \in L
    PROVE  LET g == [f EXCEPT ![r].encoded = v] IN
           /\ g \in Shapes(L)
           /\ Gives(f, g, r, f[r].pc, f[r].call, f[r].receivedAt, f[r].code, f[r].before)
BY DEF Shapes, Gives

LEMMA SetTotal ==
    ASSUME NEW L, NEW f \in Shapes(L), NEW r \in Requests, NEW v \in L
    PROVE  LET g == [f EXCEPT ![r].total = v] IN
           /\ g \in Shapes(L)
           /\ Gives(f, g, r, f[r].pc, f[r].call, f[r].receivedAt, f[r].code, f[r].before)
BY DEF Shapes, Gives

LEMMA SetAcked ==
    ASSUME NEW L, NEW f \in Shapes(L), NEW r \in Requests, NEW v \in L
    PROVE  LET g == [f EXCEPT ![r].acked = v] IN
           /\ g \in Shapes(L)
           /\ Gives(f, g, r, f[r].pc, f[r].call, f[r].receivedAt, f[r].code, f[r].before)
BY DEF Shapes, Gives

-----------------------------------------------------------------------------
(* What the steps do to the request they serve.                             *)

Shaped == \E L : req \in Shapes(L)

(* The steps that neither stamp nor store anything: r was being served, is  *)
(* encoding or answered afterwards, and is not answered 201.                *)
Turns(r) ==
    \E pc, code :
        /\ pc \in {"answered", "encoding"}
        /\ pc = "answered" => code # 201
        /\ req[r].pc \in {"sent", "encoding"}
        /\ Gives(req, req', r, pc, req[r].call, req[r].receivedAt, code, req[r].before)

Answers(f, r, code) == [f EXCEPT ![r].pc = "answered", ![r].code = code]

LEMMA AnswersShape ==
    ASSUME NEW L, NEW f \in Shapes(L), NEW r \in Requests, NEW code \in Codes
    PROVE  /\ Answers(f, r, code) \in Shapes(L)
           /\ Gives(f, Answers(f, r, code), r, "answered", f[r].call, f[r].receivedAt,
                    code, f[r].before)
<1> DEFINE f1 == [f EXCEPT ![r].pc = "answered"]
           f2 == [f1 EXCEPT ![r].code = code]
<1>1. f1 \in Shapes(L) /\ Gives(f, f1, r, "answered", f[r].call, f[r].receivedAt, f[r].code, f[r].before)
  BY SetPc DEF Pcs
<1> HIDE DEF f1
<1>2. f2 \in Shapes(L) /\ Gives(f1, f2, r, f1[r].pc, f1[r].call, f1[r].receivedAt, code, f1[r].before)
  BY <1>1, SetCode
<1>3. Answers(f, r, code) = f2
  BY DEF Answers, f1
<1> HIDE DEF f2
<1>4. QED
  BY <1>1, <1>2, <1>3 DEF Gives

LEMMA AnswerTurns ==
    ASSUME Shaped, NEW r \in Requests, NEW code \in Codes \ {201},
           req[r].pc = "sent", Answer(r, code)
    PROVE  Shaped' /\ Turns(r)
<1>1. PICK L : req \in Shapes(L)
  BY DEF Shaped
<1>2. req' = Answers(req, r, code)
  BY DEF Answer, Answers
<1>3. /\ req' \in Shapes(L)
      /\ Gives(req, req', r, "answered", req[r].call, req[r].receivedAt, code, req[r].before)
  BY <1>1, <1>2, AnswersShape
<1>4. QED
  BY <1>3 DEF Shaped, Turns

LEMMA ListedTurns ==
    ASSUME Shaped, NEW r \in Requests, NEW ids, req[r].pc = "sent",
           req' = [req EXCEPT ![r].pc = "encoding", ![r].listed = ids]
    PROVE  Shaped' /\ Turns(r)
<1>1. PICK L : req \in Shapes(L)
  BY DEF Shaped
<1> DEFINE M == L \cup {ids}
           f1 == [req EXCEPT ![r].pc = "encoding"]
           f2 == [f1 EXCEPT ![r].listed = ids]
<1>2. req \in Shapes(M)
  BY <1>1, ShapesWiden
<1>3. f1 \in Shapes(M)
      /\ Gives(req, f1, r, "encoding", req[r].call, req[r].receivedAt, req[r].code, req[r].before)
  BY <1>2, SetPc DEF Pcs, Working
<1> HIDE DEF f1
<1>4. f2 \in Shapes(M)
      /\ Gives(f1, f2, r, f1[r].pc, f1[r].call, f1[r].receivedAt, f1[r].code, f1[r].before)
  BY <1>3, SetListed
<1>5. req' = f2
  BY DEF f1
<1> HIDE DEF f2, M
<1>6. Gives(req, req', r, "encoding", req[r].call, req[r].receivedAt, req[r].code, req[r].before)
  BY <1>3, <1>4, <1>5 DEF Gives
<1>7. Shaped'
  BY <1>4, <1>5 DEF Shaped
<1>8. Turns(r)
  <2>1. "encoding" # "answered"
    OBVIOUS
  <2>2. QED
    BY <1>6, <2>1 DEF Turns
<1>9. QED
  BY <1>7, <1>8

LEMMA EncodeTurns ==
    ASSUME Shaped, NEW r \in Requests, Encode(r)
    PROVE  Shaped' /\ Turns(r)
<1>1. PICK L : req \in Shapes(L)
  BY DEF Shaped
<1>2. PICK v : req' = [req EXCEPT ![r].encoded = v]
  BY DEF Encode
<1> DEFINE M == L \cup {v}
<1>3. req \in Shapes(M)
  BY <1>1, ShapesWiden
<1>4. req' \in Shapes(M)
      /\ Gives(req, req', r, req[r].pc, req[r].call, req[r].receivedAt, req[r].code, req[r].before)
  BY <1>2, <1>3, SetEncoded
<1>5. req[r].pc = "encoding"
  BY DEF Encode
<1>6. QED
  BY <1>4, <1>5 DEF Shaped, Turns

LEMMA EncodedTurns ==
    ASSUME Shaped, NEW r \in Requests, Encoded(r)
    PROVE  Shaped' /\ Turns(r)
<1>1. PICK L : req \in Shapes(L)
  BY DEF Shaped
<1> DEFINE total == Len(req[r].listed)
           M == L \cup {total, <<>>}
           f1 == Answers(req, r, 200)
           f2 == [f1 EXCEPT ![r].total = total]
           f3 == [f2 EXCEPT ![r].listed = <<>>]
<1>2. req \in Shapes(M)
  BY <1>1, ShapesWiden
<1>3. f1 \in Shapes(M)
      /\ Gives(req, f1, r, "answered", req[r].call, req[r].receivedAt, 200, req[r].before)
  BY <1>2, AnswersShape DEF Codes
<1>4. req' = f3 /\ req[r].pc = "encoding"
  BY DEF Encoded, Answers
<1> HIDE DEF f1
<1>5. f2 \in Shapes(M)
      /\ Gives(f1, f2, r, f1[r].pc, f1[r].call, f1[r].receivedAt, f1[r].code, f1[r].before)
  BY <1>3, SetTotal
<1> HIDE DEF f2
<1>6. f3 \in Shapes(M)
      /\ Gives(f2, f3, r, f2[r].pc, f2[r].call, f2[r].receivedAt, f2[r].code, f2[r].before)
  BY <1>5, SetListed
<1> HIDE DEF f3, M
<1>7. Gives(req, req', r, "answered", req[r].call, req[r].receivedAt, 200, req[r].before)
  BY <1>3, <1>4, <1>5, <1>6 DEF Gives
<1>8. QED
  BY <1>4, <1>6, <1>7 DEF Shaped, Turns

LEMMA StatsTurns ==
    ASSUME Shaped, NEW r \in Requests, Stats(r)
    PROVE  Shaped' /\ Turns(r)
<1>1. PICK L : req \in Shapes(L)
  BY DEF Shaped
<1>2. PICK total, acked :
         req' = [req EXCEPT ![r].pc = "answered", ![r].code = 200,
                            ![r].total = total, ![r].acked = acked]
  BY DEF Stats
<1> DEFINE M == L \cup {total, acked}
           f1 == Answers(req, r, 200)
           f2 == [f1 EXCEPT ![r].total = total]
           f3 == [f2 EXCEPT ![r].acked = acked]
<1>3. req \in Shapes(M)
  BY <1>1, ShapesWiden
<1>4. f1 \in Shapes(M)
      /\ Gives(req, f1, r, "answered", req[r].call, req[r].receivedAt, 200, req[r].before)
  BY <1>3, AnswersShape DEF Codes
<1>5. req' = f3 /\ req[r].pc = "sent"
  BY <1>2 DEF Stats, Asks, Answers
<1> HIDE DEF f1
<1>6. f2 \in Shapes(M)
      /\ Gives(f1, f2, r, f1[r].pc, f1[r].call, f1[r].receivedAt, f1[r].code, f1[r].before)
  BY <1>4, SetTotal
<1> HIDE DEF f2
<1>7. f3 \in Shapes(M)
      /\ Gives(f2, f3, r, f2[r].pc, f2[r].call, f2[r].receivedAt, f2[r].code, f2[r].before)
  BY <1>6, SetAcked
<1> HIDE DEF f3, M
<1>8. Gives(req, req', r, "answered", req[r].call, req[r].receivedAt, 200, req[r].before)
  BY <1>4, <1>5, <1>6, <1>7 DEF Gives
<1>9. QED
  BY <1>5, <1>7, <1>8 DEF Shaped, Turns

LEMMA QuietTurns ==
    ASSUME Shaped, NEW r \in Requests,
           \/ Refuse(r) \/ List(r) \/ Get(r) \/ NotFound(r)
           \/ Encode(r) \/ Encoded(r) \/ Stats(r)
    PROVE  Shaped' /\ Turns(r) /\ UNCHANGED <<notifications, now>>
<1>1. {200, 400, 404, 415} \subseteq Codes \ {201}
  BY DEF Codes
<1>2. CASE Refuse(r)
  <2>1. req[r].pc = "sent"
    BY <1>2 DEF Refuse, Asks
  <2>2. Answer(r, 415) \/ Answer(r, 400)
    BY <1>2 DEF Refuse
  <2>3. 415 \in Codes \ {201} /\ 400 \in Codes \ {201}
    BY <1>1
  <2>4. Shaped' /\ Turns(r)
    BY <2>1, <2>2, <2>3, AnswerTurns
  <2>5. QED
    BY <1>2, <2>4 DEF Refuse
<1>3. CASE NotFound(r)
  <2>1. req[r].pc = "sent" /\ Answer(r, 404) /\ 404 \in Codes \ {201}
    BY <1>1, <1>3 DEF NotFound, Asks
  <2>2. QED
    BY <1>3, <2>1, AnswerTurns DEF NotFound
<1>4. CASE List(r)
  <2>1. PICK ids : req' = [req EXCEPT ![r].pc = "encoding", ![r].listed = ids]
    BY <1>4 DEF List
  <2>2. QED
    BY <1>4, <2>1, ListedTurns DEF List, Asks
<1>5. CASE Get(r)
  <2>1. \E ids : req' = [req EXCEPT ![r].pc = "encoding", ![r].listed = ids]
    BY <1>5 DEF Get
  <2>2. QED
    BY <1>5, <2>1, ListedTurns DEF Get, Asks
<1>6. CASE Encode(r)
  BY <1>6, EncodeTurns DEF Encode
<1>7. CASE Encoded(r)
  BY <1>7, EncodedTurns DEF Encoded
<1>8. CASE Stats(r)
  BY <1>8, StatsTurns DEF Stats
<1>9. QED
  BY <1>2, <1>3, <1>4, <1>5, <1>6, <1>7, <1>8

LEMMA SendGives ==
    ASSUME Shaped, NEW r \in Requests, Send(r)
    PROVE  /\ Shaped'
           /\ \E c \in Calls :
                 Gives(req, req', r, "sent", c, req[r].receivedAt, req[r].code,
                       {q \in Requests : Granted(q)})
<1>1. PICK L : req \in Shapes(L)
  BY DEF Shaped
<1> DEFINE before == {q \in Requests : Granted(q)}
<1>2. PICK c \in Calls :
         req' = [req EXCEPT ![r].pc = "sent", ![r].call = c, ![r].before = before]
  BY DEF Send
<1>3. before \in SUBSET Requests
  OBVIOUS
<1> DEFINE f1 == [req EXCEPT ![r].pc = "sent"]
           f2 == [f1 EXCEPT ![r].call = c]
           f3 == [f2 EXCEPT ![r].before = before]
<1> HIDE DEF before
<1>4. f1 \in Shapes(L)
      /\ Gives(req, f1, r, "sent", req[r].call, req[r].receivedAt, req[r].code, req[r].before)
  BY <1>1, SetPc DEF Pcs, Working
<1>5. req' = f3
  BY <1>2
<1> HIDE DEF f1
<1>6. f2 \in Shapes(L)
      /\ Gives(f1, f2, r, f1[r].pc, c, f1[r].receivedAt, f1[r].code, f1[r].before)
  BY <1>4, SetCall
<1> HIDE DEF f2
<1>7. f3 \in Shapes(L)
      /\ Gives(f2, f3, r, f2[r].pc, f2[r].call, f2[r].receivedAt, f2[r].code, before)
  BY <1>3, <1>6, SetBefore
<1> HIDE DEF f3
<1>8. Gives(req, req', r, "sent", c, req[r].receivedAt, req[r].code, before)
  BY <1>4, <1>5, <1>6, <1>7 DEF Gives
<1>9. QED
  BY <1>5, <1>7, <1>8 DEF Shaped, before

LEMMA StampGives ==
    ASSUME Shaped, now \in 0..MaxTime, NEW r \in Requests, Stamp(r)
    PROVE  /\ Shaped'
           /\ Gives(req, req', r, "stamped", req[r].call, now, req[r].code, req[r].before)
<1>1. PICK L : req \in Shapes(L)
  BY DEF Shaped
<1> DEFINE f1 == [req EXCEPT ![r].pc = "stamped"]
           f2 == [f1 EXCEPT ![r].receivedAt = now]
<1>2. f1 \in Shapes(L)
      /\ Gives(req, f1, r, "stamped", req[r].call, req[r].receivedAt, req[r].code, req[r].before)
  BY <1>1, SetPc DEF Pcs, Working
<1>3. req' = f2
  BY DEF Stamp
<1> HIDE DEF f1
<1>4. f2 \in Shapes(L)
      /\ Gives(f1, f2, r, f1[r].pc, f1[r].call, now, f1[r].code, f1[r].before)
  BY <1>2, SetReceivedAt
<1> HIDE DEF f2
<1>5. Gives(req, req', r, "stamped", req[r].call, now, req[r].code, req[r].before)
  BY <1>2, <1>3, <1>4 DEF Gives
<1>6. QED
  BY <1>3, <1>4, <1>5 DEF Shaped

-----------------------------------------------------------------------------
(* The first half of the inductive invariant.  That the inbox is in the     *)
(* order in which clients saw it grow needs to be known before the later    *)
(* notification is stored: from the moment it is stamped, its time is not   *)
(* before that of any notification answered when it was sent, all of which  *)
(* are stored by then.                                                      *)

Typed ==
    /\ notifications \in Seq(Notification)
    /\ now \in 0..MaxTime
    /\ Shaped

Entry == 1..Len(notifications)

UniqueIds ==
    \A i, j \in Entry : notifications[i].id = notifications[j].id => i = j

EntriesAnswered == \A i \in Entry : Answered(notifications[i].id, "receive", 201)

AnswersStored ==
    \A r \in Requests : Answered(r, "receive", 201) =>
        \E i \in Entry : notifications[i].id = r

TimesPast ==
    /\ \A i \in Entry : notifications[i].receivedAt <= now
    /\ \A r \in Requests : req[r].pc = "stamped" =>
          req[r].receivedAt <= now /\ req[r].call.op = "receive"

CallsSent == \A r \in Requests : req[r].pc \notin {"idle", "past"} => req[r].call \in Calls

BeforeAnswered ==
    \A r \in Requests : \A q \in req[r].before :
        req[q].pc = "answered" /\ req[r].pc # "idle"

Ordered ==
    \A r \in Requests : \A q \in req[r].before : \A i \in Entry :
        notifications[i].id = q =>
            /\ req[r].pc = "stamped" => notifications[i].receivedAt <= req[r].receivedAt
            /\ \A j \in Entry : notifications[j].id = r =>
                  i < j /\ notifications[i].receivedAt <= notifications[j].receivedAt

IInv ==
    /\ Typed /\ UniqueIds /\ EntriesAnswered /\ AnswersStored
    /\ TimesPast /\ CallsSent /\ BeforeAnswered /\ Ordered

LEMMA EntryTypes ==
    ASSUME Typed
    PROVE  /\ Len(notifications) \in Nat
           /\ \A i \in Entry : /\ notifications[i] \in Notification
                               /\ notifications[i].id \in Requests
                               /\ notifications[i].receivedAt \in 0..MaxTime
<1>1. \A i \in Entry : notifications[i] \in Notification
  BY DEF Typed, Entry
<1>2. QED
  BY <1>1 DEF Typed, Notification

LEMMA RequestTypes ==
    ASSUME Typed, NEW r \in Requests
    PROVE  req[r].receivedAt \in 0..MaxTime /\ req[r].before \subseteq Requests
BY DEF Typed, Shaped, Shapes

(* A request at work is not in the inbox, and no other was sent after it    *)
(* was granted.                                                             *)
LEMMA AtWork ==
    ASSUME IInv, NEW r \in Requests, req[r].pc # "answered"
    PROVE  /\ \A i \in Entry : notifications[i].id # r
           /\ \A s \in Requests : r \notin req[s].before
BY DEF IInv, EntriesAnswered, Answered, BeforeAnswered

LEMMA InvInit == Init => IInv
<1> SUFFICES ASSUME Init
             PROVE  IInv
  OBVIOUS
<1>1. notifications = <<>> /\ Entry = {} /\ now = 0
  BY DEF Init, Entry
<1>2. \A r \in Requests : req[r].pc = "idle" /\ req[r].before = {}
  <2>1. Idle.pc = "idle" /\ Idle.before = {}
    BY DEF Idle
  <2>2. QED
    BY <2>1 DEF Init
<1>3. Typed
  <2>1. Idle \in [pc : Pcs, call : Calls \cup {NoCall}, receivedAt : 0..MaxTime,
                  listed : {<<>>, 0}, encoded : {<<>>, 0}, code : Codes,
                  total : {<<>>, 0}, acked : {<<>>, 0}, before : SUBSET Requests]
    BY InboxAssumption DEF Idle, Pcs, Codes
  <2>2. req \in Shapes({<<>>, 0})
    BY <2>1 DEF Init, Shapes
  <2>3. QED
    BY <1>1, <2>2, InboxAssumption DEF Typed, Shaped
<1>4. UniqueIds /\ EntriesAnswered /\ Ordered
  BY <1>1, <1>2 DEF UniqueIds, EntriesAnswered, Ordered
<1>5. AnswersStored /\ TimesPast /\ CallsSent /\ BeforeAnswered
  BY <1>1, <1>2 DEF AnswersStored, Answered, TimesPast, CallsSent, BeforeAnswered
<1>6. QED
  BY <1>3, <1>4, <1>5 DEF IInv

(* A step of a request that leaves the inbox as it is, acknowledgements     *)
(* apart.                                                                   *)
LEMMA TurnKeeps ==
    ASSUME IInv, NEW r \in Requests, Turns(r), Shaped', now' = now,
           notifications' \in Seq(Notification),
           Len(notifications') = Len(notifications),
           \A i \in Entry : /\ notifications'[i].id = notifications[i].id
                            /\ notifications'[i].receivedAt = notifications[i].receivedAt
    PROVE  IInv'
<1>1. PICK pc, code :
         /\ pc \in {"answered", "encoding"}
         /\ pc = "answered" => code # 201
         /\ req[r].pc \in {"sent", "encoding"}
         /\ Gives(req, req', r, pc, req[r].call, req[r].receivedAt, code, req[r].before)
  BY DEF Turns
<1>2. /\ \A q \in Requests \ {r} : req'[q] = req[q]
      /\ req'[r].pc = pc /\ req'[r].call = req[r].call /\ req'[r].code = code
      /\ req'[r].before = req[r].before
  BY <1>1 DEF Gives
<1>3. Entry' = Entry
  BY DEF Entry
<1>4. /\ \A i \in Entry : notifications[i].id # r
      /\ \A s \in Requests : r \notin req[s].before
  BY <1>1, AtWork
<1>5. \A i \in Entry : notifications[i].id \in Requests
  BY EntryTypes DEF IInv
<1>6. \A s \in Requests : req'[s].before = req[s].before /\ req[s].before \subseteq Requests
  BY <1>2, RequestTypes DEF IInv
<1>7. Typed'
  BY DEF IInv, Typed
<1>8. UniqueIds'
  BY <1>3 DEF IInv, UniqueIds
<1>9. EntriesAnswered'
  BY <1>2, <1>3, <1>4, <1>5 DEF IInv, EntriesAnswered, Answered
<1>10. AnswersStored'
  BY <1>1, <1>2, <1>3 DEF IInv, AnswersStored, Answered
<1>11. TimesPast'
  BY <1>1, <1>2, <1>3 DEF IInv, TimesPast
<1>12. CallsSent'
  BY <1>1, <1>2 DEF IInv, CallsSent
<1>13. BeforeAnswered'
  BY <1>1, <1>2, <1>4, <1>6 DEF IInv, BeforeAnswered
<1>14. Ordered'
  <2> SUFFICES ASSUME NEW s \in Requests, NEW q \in req[s].before, NEW i \in Entry,
                      notifications[i].id = q
               PROVE  /\ req'[s].pc = "stamped" =>
                            notifications[i].receivedAt <= req'[s].receivedAt
                      /\ \A j \in Entry : notifications[j].id = s =>
                            i < j /\ notifications[i].receivedAt <= notifications[j].receivedAt
    BY <1>3, <1>6 DEF Ordered
  <2>1. req'[s].pc = "stamped" => req'[s] = req[s]
    BY <1>1, <1>2
  <2>2. QED
    BY <2>1 DEF IInv, Ordered
<1>15. QED
  BY <1>7, <1>8, <1>9, <1>10, <1>11, <1>12, <1>13, <1>14 DEF IInv

LEMMA AcknowledgeTurns ==
    ASSUME IInv, NEW r \in Requests, Acknowledge(r)
    PROVE  /\ Turns(r) /\ Shaped' /\ now' = now
           /\ notifications' \in Seq(Notification)
           /\ Len(notifications') = Len(notifications)
           /\ \A i \in Entry : \/ notifications'[i] = notifications[i]
                               \/ notifications'[i] = [notifications[i] EXCEPT !.acknowledged = TRUE]
<1> DEFINE p == Position(req[r].call.id)
<1>1. p \in Entry
  BY DEF Acknowledge, Stored, Position, Entry
<1>2. notifications' = [notifications EXCEPT ![p].acknowledged = TRUE]
  BY DEF Acknowledge
<1> HIDE DEF p
<1>3. notifications[p] \in Notification /\ notifications \in Seq(Notification)
  BY <1>1, EntryTypes DEF IInv, Typed
<1>4. [notifications[p] EXCEPT !.acknowledged = TRUE] \in Notification
  BY <1>3 DEF Notification
<1>5. /\ notifications' \in Seq(Notification)
      /\ Len(notifications') = Len(notifications)
  BY <1>1, <1>2, <1>3, <1>4 DEF Entry
<1>6. \A i \in Entry : \/ notifications'[i] = notifications[i]
                       \/ notifications'[i] = [notifications[i] EXCEPT !.acknowledged = TRUE]
  <2>1. p \in DOMAIN notifications
    BY <1>1, <1>3 DEF Entry
  <2>2. notifications'[p] = [notifications[p] EXCEPT !.acknowledged = TRUE]
    BY <1>2, <2>1, Zenon
  <2>3. \A i \in Entry \ {p} : notifications'[i] = notifications[i]
    BY <1>2, <1>3 DEF Entry
  <2>4. QED
    BY <2>2, <2>3
<1>7. Turns(r) /\ Shaped'
  BY AnswerTurns DEF Acknowledge, Asks, Codes, IInv, Typed
<1>8. QED
  BY <1>5, <1>6, <1>7 DEF Acknowledge

LEMMA SendKeeps ==
    ASSUME IInv, NEW r \in Requests, Send(r)
    PROVE  IInv'
<1> DEFINE granted == {q \in Requests : Granted(q)}
<1>1. PICK c \in Calls :
         Gives(req, req', r, "sent", c, req[r].receivedAt, req[r].code, granted)
  BY SendGives DEF IInv, Typed
<1>2. /\ \A q \in Requests \ {r} : req'[q] = req[q]
      /\ req'[r].pc = "sent" /\ req'[r].call = c /\ req'[r].before = granted
  BY <1>1 DEF Gives
<1>3. /\ req[r].pc = "idle" /\ notifications' = notifications /\ now' = now
      /\ Entry' = Entry
  BY DEF Send, Entry
<1>4. /\ \A i \in Entry : notifications[i].id # r
      /\ \A s \in Requests : r \notin req[s].before
  BY <1>3, AtWork
<1>5. \A i \in Entry : notifications[i].id \in Requests
  BY EntryTypes DEF IInv
<1>6. r \notin granted /\ \A q \in granted : q \in Requests /\ req[q].pc = "answered"
  BY <1>3 DEF Granted
<1> HIDE DEF granted
<1>7. \A s \in Requests : req[s].before \subseteq Requests
  BY RequestTypes DEF IInv
<1>8. Typed'
  BY <1>3, SendGives DEF IInv, Typed
<1>9. UniqueIds'
  BY <1>3 DEF IInv, UniqueIds
<1>10. EntriesAnswered'
  BY <1>2, <1>3, <1>4, <1>5 DEF IInv, EntriesAnswered, Answered
<1>11. AnswersStored'
  BY <1>2, <1>3 DEF IInv, AnswersStored, Answered
<1>12. TimesPast'
  BY <1>2, <1>3 DEF IInv, TimesPast
<1>13. CallsSent'
  BY <1>2 DEF IInv, CallsSent
<1>14. BeforeAnswered'
  BY <1>2, <1>4, <1>6, <1>7 DEF IInv, BeforeAnswered
<1>15. Ordered'
  BY <1>2, <1>3, <1>4 DEF IInv, Ordered
<1>16. QED
  BY <1>8, <1>9, <1>10, <1>11, <1>12, <1>13, <1>14, <1>15 DEF IInv

LEMMA StampKeeps ==
    ASSUME IInv, NEW r \in Requests, Stamp(r)
    PROVE  IInv'
<1>1. /\ Shaped'
      /\ Gives(req, req', r, "stamped", req[r].call, now, req[r].code, req[r].before)
  BY StampGives DEF IInv, Typed
<1>2. /\ \A q \in Requests \ {r} : req'[q] = req[q]
      /\ req'[r].pc = "stamped" /\ req'[r].call = req[r].call
      /\ req'[r].receivedAt = now /\ req'[r].before = req[r].before
  BY <1>1 DEF Gives
<1>3. /\ req[r].pc = "sent" /\ req[r].call.op = "receive"
      /\ notifications' = notifications /\ now' = now /\ Entry' = Entry
  BY DEF Stamp, Asks, Entry
<1>4. /\ \A i \in Entry : notifications[i].id # r
      /\ \A s \in Requests : r \notin req[s].before
  BY <1>3, AtWork
<1>5. \A i \in Entry : notifications[i].id \in Requests
  BY EntryTypes DEF IInv
<1>6. now \in Nat /\ \A s \in Requests : req'[s].before = req[s].before /\ req[s].before \subseteq Requests
  BY <1>2, RequestTypes DEF IInv, Typed
<1>7. Typed'
  BY <1>1, <1>3 DEF IInv, Typed
<1>8. UniqueIds'
  BY <1>3 DEF IInv, UniqueIds
<1>9. EntriesAnswered'
  BY <1>2, <1>3, <1>4, <1>5 DEF IInv, EntriesAnswered, Answered
<1>10. AnswersStored'
  BY <1>2, <1>3 DEF IInv, AnswersStored, Answered
<1>11. TimesPast'
  BY <1>2, <1>3, <1>6 DEF IInv, TimesPast
<1>12. CallsSent'
  BY <1>2, <1>3 DEF IInv, CallsSent
<1>13. BeforeAnswered'
  BY <1>2, <1>4, <1>6 DEF IInv, BeforeAnswered
<1>14. Ordered'
  <2> SUFFICES ASSUME NEW s \in Requests, NEW q \in req[s].before, NEW i \in Entry,
                      notifications[i].id = q
               PROVE  /\ req'[s].pc = "stamped" =>
                            notifications[i].receivedAt <= req'[s].receivedAt
                      /\ \A j \in Entry : notifications[j].id = s =>
                            i < j /\ notifications[i].receivedAt <= notifications[j].receivedAt
    BY <1>3, <1>6 DEF Ordered
  <2>1. CASE s = r
    BY <1>2, <1>4, <2>1 DEF IInv, TimesPast
  <2>2. CASE s # r
    BY <1>2, <2>2 DEF IInv, Ordered
  <2>3. QED
    BY <2>1, <2>2
<1>15. QED
  BY <1>7, <1>8, <1>9, <1>10, <1>11, <1>12, <1>13, <1>14 DEF IInv

LEMMA AddKeeps ==
    ASSUME IInv, NEW r \in Requests, Add(r)
    PROVE  IInv'
<1> DEFINE n == Len(notifications)
<1>1. PICK L : req \in Shapes(L)
  BY DEF IInv, Typed, Shaped
<1>2. /\ req' \in Shapes(L)
      /\ Gives(req, req', r, "answered", req[r].call, req[r].receivedAt, 201, req[r].before)
  <2>1. req' = Answers(req, r, 201)
    BY DEF Add, Answer, Answers
  <2>2. QED
    BY <1>1, <2>1, AnswersShape DEF Codes
<1>3. /\ \A q \in Requests \ {r} : req'[q] = req[q]
      /\ req'[r].pc = "answered" /\ req'[r].code = 201 /\ req'[r].call = req[r].call
      /\ req'[r].receivedAt = req[r].receivedAt /\ req'[r].before = req[r].before
  BY <1>2 DEF Gives
<1>4. /\ req[r].pc = "stamped" /\ now' = now
      /\ notifications' = Append(notifications, New(r))
  BY DEF Add
<1>5. /\ \A i \in Entry : notifications[i].id # r
      /\ \A s \in Requests : r \notin req[s].before
  BY <1>4, AtWork
<1>6. /\ \A i \in Entry : /\ notifications[i].id \in Requests
                          /\ notifications[i].receivedAt \in Nat
      /\ n \in Nat
      /\ \A s \in Requests : req'[s].before = req[s].before /\ req[s].before \subseteq Requests
  BY <1>3, EntryTypes, RequestTypes DEF IInv
<1>7. req[r].receivedAt \in 0..MaxTime /\ req[r].receivedAt <= now /\ req[r].call.op = "receive"
  BY <1>4, RequestTypes DEF IInv, TimesPast
<1>8. New(r) \in Notification /\ New(r).id = r /\ New(r).receivedAt = req[r].receivedAt
  <2>1. req[r].call \in CallType
    BY <1>4, InboxAssumption DEF IInv, CallsSent
  <2>2. req[r].call.types \subseteq Types
    BY <2>1 DEF CallType
  <2>3. QED
    BY <1>7, <2>2 DEF New, Notification
<1>9. /\ notifications' \in Seq(Notification)
      /\ Len(notifications') = n + 1
      /\ notifications'[n + 1] = New(r)
      /\ \A i \in Entry : notifications'[i] = notifications[i]
      /\ Entry' = Entry \cup {n + 1} /\ n + 1 \notin Entry
      /\ \A i \in Entry : i < n + 1
  <2>1. notifications \in Seq(Notification)
    BY DEF IInv, Typed
  <2>2. QED
    BY <1>4, <1>8, <2>1 DEF Entry
<1> HIDE DEF n
<1>10. Typed'
  BY <1>2, <1>4, <1>9 DEF IInv, Typed, Shaped
<1>11. UniqueIds'
  BY <1>5, <1>8, <1>9 DEF IInv, UniqueIds
<1>12. EntriesAnswered'
  BY <1>3, <1>5, <1>6, <1>7, <1>8, <1>9 DEF IInv, EntriesAnswered, Answered
<1>13. AnswersStored'
  <2>1. ASSUME NEW s \in Requests, Answered(s, "receive", 201)'
        PROVE  \E i \in Entry' : notifications'[i].id = s
    <3>1. CASE s = r
      BY <1>8, <1>9, <3>1
    <3>2. CASE s # r
      <4>1. Answered(s, "receive", 201)
        BY <1>3, <2>1, <3>2 DEF Answered
      <4>2. PICK i \in Entry : notifications[i].id = s
        BY <4>1 DEF IInv, AnswersStored
      <4>3. QED
        BY <1>9, <4>2
    <3>3. QED
      BY <3>1, <3>2
  <2>2. QED
    BY <2>1 DEF AnswersStored
<1>14. TimesPast'
  <2>1. \A i \in Entry' : notifications'[i].receivedAt <= now'
    BY <1>4, <1>7, <1>8, <1>9 DEF IInv, TimesPast
  <2>2. \A s \in Requests : req'[s].pc = "stamped" => s # r /\ req'[s] = req[s]
    BY <1>3
  <2>3. QED
    BY <1>4, <2>1, <2>2 DEF IInv, TimesPast
<1>15. CallsSent'
  BY <1>3, <1>4 DEF IInv, CallsSent
<1>16. BeforeAnswered'
  BY <1>3, <1>5, <1>6 DEF IInv, BeforeAnswered
<1>17. Ordered'
  <2> SUFFICES ASSUME NEW s \in Requests, NEW q \in req[s].before, NEW i \in Entry',
                      notifications'[i].id = q
               PROVE  /\ req'[s].pc = "stamped" =>
                            notifications'[i].receivedAt <= req'[s].receivedAt
                      /\ \A j \in Entry' : notifications'[j].id = s =>
                            i < j /\ notifications'[i].receivedAt <= notifications'[j].receivedAt
    BY <1>6 DEF Ordered
  <2>1. i \in Entry /\ notifications[i].id = q /\ notifications'[i] = notifications[i]
    BY <1>5, <1>8, <1>9
  <2>2. CASE s = r
    <3>1. req'[s].pc # "stamped"
      BY <1>3, <2>2
    <3>2. notifications[i].receivedAt <= req[r].receivedAt
      BY <1>4, <2>1, <2>2 DEF IInv, Ordered
    <3>3. ASSUME NEW j \in Entry', notifications'[j].id = s
          PROVE  j = n + 1
      BY <1>5, <1>9, <2>2, <3>3
    <3>4. QED
      BY <1>8, <1>9, <2>1, <3>1, <3>2, <3>3
  <2>3. CASE s # r
    <3>1. req'[s] = req[s]
      BY <1>3, <2>3
    <3>2. ASSUME NEW j \in Entry', notifications'[j].id = s
          PROVE  j \in Entry /\ notifications[j].id = s /\ notifications'[j] = notifications[j]
      BY <1>8, <1>9, <2>3, <3>2
    <3>3. QED
      BY <2>1, <3>1, <3>2 DEF IInv, Ordered
  <2>4. QED
    BY <2>2, <2>3
<1>18. QED
  BY <1>10, <1>11, <1>12, <1>13, <1>14, <1>15, <1>16, <1>17 DEF IInv

LEMMA TickKeeps ==
    ASSUME IInv, Tick
    PROVE  IInv'
<1>1. /\ notifications' = notifications /\ req' = req /\ Entry' = Entry
      /\ now' = now + 1 /\ now' \in 0..MaxTime /\ now \in Nat
  BY InboxAssumption DEF Tick, Entry, IInv, Typed
<1>2. /\ \A i \in Entry : notifications[i].receivedAt \in Nat
      /\ \A r \in Requests : req[r].receivedAt \in Nat
  BY EntryTypes, RequestTypes DEF IInv
<1>3. Typed'
  BY <1>1 DEF IInv, Typed, Shaped
<1>4. TimesPast'
  BY <1>1, <1>2 DEF IInv, TimesPast
<1>5. UniqueIds' /\ EntriesAnswered' /\ AnswersStored'
  BY <1>1 DEF IInv, UniqueIds, EntriesAnswered, AnswersStored, Answered
<1>6. CallsSent' /\ BeforeAnswered' /\ Ordered'
  BY <1>1 DEF IInv, CallsSent, BeforeAnswered, Ordered
<1>7. QED
  BY <1>3, <1>4, <1>5, <1>6 DEF IInv

LEMMA RestartKeeps ==
    ASSUME IInv, Restart
    PROVE  IInv'
<1> DEFINE past == [Idle EXCEPT !.pc = "past"]
<1>1. notifications' = <<>> /\ Entry' = {} /\ now' = now
  BY DEF Restart, Entry
<1>2. req' = [r \in Requests |-> IF req[r].pc = "idle" THEN req[r] ELSE past]
  BY DEF Restart
<1>3. past.pc = "past" /\ past.before = {}
  BY DEF Idle
<1>4. PICK L : req \in Shapes(L)
  BY DEF IInv, Typed, Shaped
<1> DEFINE M == L \cup {<<>>, 0}
<1>5. req \in Shapes(M)
  BY <1>4, ShapesWiden
<1>6. past \in [pc : Pcs, call : Calls \cup {NoCall}, receivedAt : 0..MaxTime,
                listed : M, encoded : M, code : Codes,
                total : M, acked : M, before : SUBSET Requests]
  BY InboxAssumption DEF Idle, Pcs, Codes
<1> HIDE DEF past, M
<1>7. req' \in Shapes(M)
  BY <1>2, <1>5, <1>6 DEF Shapes
<1>8. \A r \in Requests :
         req'[r].pc \in {"idle", "past"} /\ req'[r].before = {}
  <2>1. ASSUME NEW r \in Requests
        PROVE  req'[r].pc \in {"idle", "past"} /\ req'[r].before = {}
    <3>1. CASE req[r].pc = "idle"
      <4>1. req'[r] = req[r]
        BY <1>2, <3>1
      <4>2. req[r].before = {}
        BY <3>1 DEF IInv, BeforeAnswered
      <4>3. QED
        BY <3>1, <4>1, <4>2
    <3>2. CASE req[r].pc # "idle"
      BY <1>2, <1>3, <3>2
    <3>3. QED
      BY <3>1, <3>2
  <2>2. QED
    BY <2>1
<1>9. Typed'
  BY <1>1, <1>7 DEF IInv, Typed, Shaped
<1>10. UniqueIds' /\ EntriesAnswered' /\ Ordered'
  BY <1>1 DEF UniqueIds, EntriesAnswered, Ordered
<1>11. AnswersStored' /\ TimesPast' /\ CallsSent' /\ BeforeAnswered'
  BY <1>1, <1>8 DEF AnswersStored, Answered, TimesPast, CallsSent, BeforeAnswered
<1>12. QED
  BY <1>9, <1>10, <1>11 DEF IInv

LEMMA InvStep == IInv /\ [Next]_vars => IInv'
<1> SUFFICES ASSUME IInv, [Next]_vars
             PROVE  IInv'
  OBVIOUS
<1>1. ASSUME NEW r \in Requests, Turns(r), Shaped', UNCHANGED <<notifications, now>>
      PROVE  IInv'
  <2>1. notifications \in Seq(Notification)
    BY DEF IInv, Typed
  <2>2. QED
    BY <1>1, <2>1, TurnKeeps
<1>2. ASSUME NEW r \in Requests, Acknowledge(r)
      PROVE  IInv'
  <2>1. /\ Turns(r) /\ Shaped' /\ now' = now
        /\ notifications' \in Seq(Notification)
        /\ Len(notifications') = Len(notifications)
        /\ \A i \in Entry : \/ notifications'[i] = notifications[i]
                            \/ notifications'[i] = [notifications[i] EXCEPT !.acknowledged = TRUE]
    BY <1>2, AcknowledgeTurns
  <2>2. \A i \in Entry : /\ notifications'[i].id = notifications[i].id
                         /\ notifications'[i].receivedAt = notifications[i].receivedAt
    BY <2>1, EntryTypes DEF IInv, Notification
  <2>3. QED
    BY <2>1, <2>2, TurnKeeps
<1>3. ASSUME NEW r \in Requests, Serve(r)
      PROVE  IInv'
  <2>1. Shaped
    BY DEF IInv, Typed
  <2>2. QED
    BY <1>1, <1>2, <1>3, <2>1, QuietTurns, StampKeeps, AddKeeps DEF Serve
<1>4. ASSUME UNCHANGED vars
      PROVE  IInv'
  <2>1. notifications' = notifications /\ req' = req /\ now' = now /\ Entry' = Entry
    BY <1>4 DEF vars, Entry
  <2>2. Typed' /\ UniqueIds' /\ EntriesAnswered' /\ AnswersStored'
    BY <2>1 DEF IInv, Typed, Shaped, UniqueIds, EntriesAnswered, AnswersStored, Answered
  <2>3. TimesPast' /\ CallsSent' /\ BeforeAnswered' /\ Ordered'
    BY <2>1 DEF IInv, TimesPast, CallsSent, BeforeAnswered, Ordered
  <2>4. QED
    BY <2>2, <2>3 DEF IInv
<1>5. QED
  BY <1>3, <1>4, SendKeeps, TickKeeps, RestartKeeps DEF Next

LEMMA Invariance == Spec => []IInv
BY InvInit, InvStep, PTL DEF Spec

-----------------------------------------------------------------------------
(* What a list is made of.                                                  *)

(* Induction on the natural numbers, with a set in place of a predicate.    *)
LEMMA Induction ==
    ASSUME NEW S, 0 \in S, \A n \in Nat : n \in S => n + 1 \in S
    PROVE  Nat \subseteq S
<1> DEFINE T == {n \in Nat : n \notin S}
           R == OpToRel(<, Nat)
<1> SUFFICES ASSUME NEW t \in T
             PROVE  FALSE
  OBVIOUS
<1>1. IsWellFoundedOn(R, Nat)
  BY NatLessThanWellFounded
<1>2. \A m, n \in Nat : m < n => <<m, n>> \in R
  BY DEF OpToRel
<1> HIDE DEF R
<1>3. PICK n \in T : \A m \in T : <<m, n>> \notin R
  <2>1. T \subseteq Nat /\ T # {}
    OBVIOUS
  <2>2. QED
    BY <1>1, <2>1, WFMin
<1>4. n \in Nat /\ n # 0 /\ n - 1 \in Nat
  OBVIOUS
<1>5. n - 1 \notin T
  <2>1. n - 1 < n
    BY <1>4
  <2>2. <<n - 1, n>> \in R
    BY <1>2, <1>4, <2>1
  <2>3. QED
    BY <1>3, <2>2
<1>6. QED
  BY <1>4, <1>5

ListStep(filter, ids, i) ==
    IF i = 0 THEN <<>>
    ELSE IF Wanted(notifications[i], filter)
         THEN Append(ids[i - 1], notifications[i].id)
         ELSE ids[i - 1]

LEMMA ListSteps ==
    ASSUME notifications \in Seq(Notification), NEW filter
    PROVE  \E ids : /\ Listed(filter) = ids[Len(notifications)]
                    /\ \A i \in 0..Len(notifications) : ids[i] = ListStep(filter, ids, i)
<1> DEFINE last == Len(notifications)
           Is(f, n) == f = [i \in 0..n |-> ListStep(filter, f, i)]
           S == {n \in Nat : \E f : Is(f, n)}
<1>1. last \in Nat
  OBVIOUS
<1>2. 0 \in S
  <2> DEFINE f == [i \in 0..0 |-> <<>>]
  <2>1. Is(f, 0)
    BY DEF ListStep
  <2>2. QED
    BY <2>1
<1>3. ASSUME NEW n \in Nat, n \in S
      PROVE  n + 1 \in S
  <2>1. PICK f : Is(f, n)
    BY <1>3
  <2> DEFINE g == [i \in 0..n + 1 |-> IF i = n + 1 THEN ListStep(filter, f, i) ELSE f[i]]
  <2>2. ASSUME NEW i \in 0..n + 1
        PROVE  g[i] = ListStep(filter, g, i)
    <3>1. i # 0 => g[i - 1] = f[i - 1]
      OBVIOUS
    <3>2. ListStep(filter, g, i) = ListStep(filter, f, i)
      BY <3>1 DEF ListStep
    <3>3. i # n + 1 => f[i] = ListStep(filter, f, i)
      <4>1. i # n + 1 => i \in 0..n
        OBVIOUS
      <4>2. QED
        BY <2>1, <4>1, Zenon
    <3>4. QED
      BY <3>2, <3>3
  <2>3. Is(g, n + 1)
    <3>1. g = [i \in 0..n + 1 |-> g[i]]
      OBVIOUS
    <3>2. QED
      BY <2>2, <3>1, Zenon
  <2> HIDE DEF g
  <2>4. \E h : Is(h, n + 1)
    BY <2>3, Zenon
  <2>5. QED
    BY <2>4
<1> HIDE DEF S
<1>4. last \in S
  BY <1>1, <1>2, <1>3, Induction
<1> USE DEF S
<1>5. \E f : Is(f, last)
  BY <1>4
<1> DEFINE ids == CHOOSE f : Is(f, last)
<1>6. Is(ids, last)
  BY <1>5, Zenon
<1>7. Listed(filter) = ids[last]
  BY DEF Listed, ListStep
<1> HIDE DEF ids
<1>8. \A i \in 0..last : ids[i] = ListStep(filter, ids, i)
  BY <1>6, Zenon
<1>9. QED
  BY <1>7, <1>8
(* The list has each of the first n notifications that passes the filter,   *)
(* once, and no other.                                                      *)
Selects(list, filter, n) ==
    /\ list \in Seq(Requests)
    /\ \A k \in 1..Len(list) : \E i \in 1..n :
          notifications[i].id = list[k] /\ Wanted(notifications[i], filter)
    /\ \A i \in 1..n : Wanted(notifications[i], filter) =>
          \E k \in 1..Len(list) : list[k] = notifications[i].id
    /\ \A k, l \in 1..Len(list) : list[k] = list[l] => k = l

LEMMA ListedIs ==
    ASSUME IInv, NEW filter
    PROVE  Selects(Listed(filter), filter, Len(notifications))
<1>1. notifications \in Seq(Notification) /\ Len(notifications) \in Nat
  BY EntryTypes DEF IInv, Typed
<1>2. PICK ids : /\ Listed(filter) = ids[Len(notifications)]
                 /\ \A i \in 0..Len(notifications) : ids[i] = ListStep(filter, ids, i)
  BY <1>1, ListSteps
<1> DEFINE S == {n \in Nat : n <= Len(notifications) => Selects(ids[n], filter, n)}
<1>3. 0 \in S
  <2>1. ids[0] = <<>>
    BY <1>1, <1>2 DEF ListStep
  <2>2. Selects(<<>>, filter, 0)
    BY DEF Selects
  <2>3. QED
    BY <2>1, <2>2
<1>4. ASSUME NEW n \in Nat, n \in S
      PROVE  n + 1 \in S
  <2> SUFFICES ASSUME n + 1 <= Len(notifications)
               PROVE  Selects(ids[n + 1], filter, n + 1)
    OBVIOUS
  <2> DEFINE new == notifications[n + 1]
             list == ids[n]
  <2>1. Selects(list, filter, n)
    BY <1>1, <1>4
  <2>2. n + 1 \in Entry /\ new.id \in Requests
    BY <1>1, EntryTypes DEF Entry, IInv
  <2>3. \A i \in 1..n : i \in Entry /\ notifications[i].id # new.id
    BY <1>1, <2>2 DEF IInv, UniqueIds, Entry
  <2>4. ids[n + 1] = IF Wanted(new, filter) THEN Append(list, new.id) ELSE list
    <3>1. n + 1 \in 0..Len(notifications) /\ n + 1 # 0 /\ (n + 1) - 1 = n
      BY <1>1
    <3>2. ids[n + 1] = ListStep(filter, ids, n + 1)
      BY <1>2, <3>1
    <3>3. QED
      BY <3>1, <3>2 DEF ListStep
  <2>5. 1..(n + 1) = 1..n \cup {n + 1}
    OBVIOUS
  <2> HIDE DEF new, list
  <2>6. CASE Wanted(new, filter)
    <3>1. ids[n + 1] = Append(list, new.id)
      BY <2>4, <2>6
    <3>2. /\ Append(list, new.id) \in Seq(Requests)
          /\ Len(list) \in Nat
          /\ Len(Append(list, new.id)) = Len(list) + 1
          /\ Append(list, new.id)[Len(list) + 1] = new.id
          /\ \A k \in 1..Len(list) : Append(list, new.id)[k] = list[k]
          /\ 1..(Len(list) + 1) = 1..Len(list) \cup {Len(list) + 1}
      BY <2>1, <2>2 DEF Selects
    <3> DEFINE longer == Append(list, new.id)
    <3> HIDE DEF longer
    <3>3. \A k \in 1..Len(longer) : \E i \in 1..(n + 1) :
             notifications[i].id = longer[k] /\ Wanted(notifications[i], filter)
      <4>1. \A k \in 1..Len(list) : \E i \in 1..(n + 1) :
               notifications[i].id = longer[k] /\ Wanted(notifications[i], filter)
        BY <2>1, <2>5, <3>2 DEF longer, Selects
      <4>2. notifications[n + 1].id = longer[Len(list) + 1] /\ Wanted(notifications[n + 1], filter)
        BY <2>6, <3>2 DEF longer, new
      <4>3. QED
        BY <2>5, <3>2, <4>1, <4>2 DEF longer
    <3>4. \A i \in 1..(n + 1) : Wanted(notifications[i], filter) =>
             \E k \in 1..Len(longer) : longer[k] = notifications[i].id
      <4>1. \A i \in 1..n : Wanted(notifications[i], filter) =>
               \E k \in 1..Len(longer) : longer[k] = notifications[i].id
        BY <2>1, <3>2 DEF longer, Selects
      <4>2. \E k \in 1..Len(longer) : longer[k] = notifications[n + 1].id
        BY <3>2 DEF longer, new
      <4>3. QED
        BY <2>5, <4>1, <4>2
    <3>5. \A k, l \in 1..Len(longer) : longer[k] = longer[l] => k = l
      <4>1. \A k \in 1..Len(list) : longer[k] = list[k] /\ longer[k] # new.id
        BY <2>1, <2>3, <3>2 DEF longer, Selects
      <4>2. QED
        BY <2>1, <3>2, <4>1 DEF longer, Selects
    <3>6. longer \in Seq(Requests) /\ ids[n + 1] = longer
      BY <3>1, <3>2 DEF longer
    <3>7. QED
      BY <3>3, <3>4, <3>5, <3>6 DEF Selects
  <2>7. CASE ~Wanted(new, filter)
    <3>1. ids[n + 1] = list
      BY <2>4, <2>7
    <3>2. \A i \in 1..(n + 1) : Wanted(notifications[i], filter) => i \in 1..n
      BY <2>5, <2>7 DEF new
    <3>3. QED
      BY <2>1, <2>5, <3>1, <3>2 DEF Selects
  <2>8. QED
    BY <2>6, <2>7
<1> HIDE DEF S
<1>5. Len(notifications) \in S
  BY <1>1, <1>3, <1>4, Induction
<1>6. QED
  BY <1>1, <1>2, <1>5 DEF S

-----------------------------------------------------------------------------
(* What answers tell.  An item shown is in the inbox for as long as the     *)
(* process lives, and so is all that a client knew when it sent its request; *)
(* the second half of the invariant follows the pointers from the list to   *)
(* the answer.                                                              *)

Shown(r) == 1..Len(req[r].encoded)
Pointers(r) == 1..Len(req[r].listed)

TypesKept ==
    \A i \in Entry : notifications[i].types = req[notifications[i].id].call.types

Fits(r, n) == req[r].call.op = "list" => Wanted(n, req[r].call.filter)

WantedBefore(r) ==
    {q \in ReceivedBefore(r) :
        req[r].call.op = "list" /\ Wanted(req[q].call, req[r].call.filter)}

PointersGood(r) ==
    req[r].pc = "encoding" =>
        /\ req[r].call.op \in {"list", "get"}
        /\ \A k \in Pointers(r) : \E i \in Entry :
              notifications[i].id = req[r].listed[k] /\ Fits(r, notifications[i])
        /\ \A k, l \in Pointers(r) : req[r].listed[k] = req[r].listed[l] => k = l
        /\ \A q \in WantedBefore(r) : \E k \in Pointers(r) : req[r].listed[k] = q
        /\ Len(req[r].encoded) <= Len(req[r].listed)
        /\ \A k \in Shown(r) : req[r].encoded[k].id = req[r].listed[k]

Shows(r) == req[r].pc = "encoding" \/ Answered(r, "list", 200) \/ Answered(r, "get", 200)

ItemTrue(r, item) ==
    \E i \in Entry :
        /\ notifications[i].id = item.id
        /\ item.acknowledged => notifications[i].acknowledged
        /\ item.id \in AckedBefore(r) => item.acknowledged
        /\ Fits(r, notifications[i])

ItemsTrue(r) ==
    Shows(r) =>
        /\ \A k \in Shown(r) : ItemTrue(r, req[r].encoded[k])
        /\ \A k, l \in Shown(r) : req[r].encoded[k].id = req[r].encoded[l].id => k = l

ListWhole(r) ==
    Answered(r, "list", 200) =>
        /\ req[r].total = Len(req[r].encoded)
        /\ \A q \in WantedBefore(r) : \E k \in Shown(r) : req[r].encoded[k].id = q

NothingShown(r) == req[r].pc \notin {"encoding", "answered"} => req[r].encoded = <<>>

AckKept(r) ==
    Answered(r, "ack", 200) => \E i \in Entry :
        notifications[i].id = req[r].call.id /\ notifications[i].acknowledged

CountsAgree(r) ==
    \A q \in req[r].before :
        /\ Answered(q, "list", 200) \/ Answered(q, "stats", 200)
           => req[q].total <= req[r].total
        /\ Answered(q, "list", 200) => AcknowledgedIn(req[q].encoded) <= req[r].acked
        /\ Answered(q, "stats", 200) => req[q].acked <= req[r].acked

CountsPast(r) ==
    Answered(r, "stats", 200) =>
        /\ req[r].total <= Len(notifications)
        /\ req[r].acked <= AcknowledgedIn(notifications)
        /\ CountsAgree(r)

Told(r) ==
    /\ PointersGood(r) /\ ItemsTrue(r) /\ ListWhole(r)
    /\ NothingShown(r) /\ AckKept(r) /\ CountsPast(r)

AllTold == TypeOK /\ TypesKept /\ \A r \in Requests : Told(r)

(* The inbox as a step that is not a restart leaves it.                     *)
Grows ==
    /\ Len(notifications) <= Len(notifications')
    /\ \A i \in Entry :
          /\ notifications'[i].id = notifications[i].id
          /\ notifications'[i].types = notifications[i].types
          /\ notifications[i].acknowledged => notifications'[i].acknowledged

LEMMA SameGrows ==
    ASSUME TypeOK, notifications' = notifications
    PROVE  Grows
<1>1. Len(notifications) \in Nat
  BY DEF TypeOK
<1>2. QED
  BY <1>1 DEF Grows

LEMMA EntryOf ==
    ASSUME IInv, NEW i \in Entry
    PROVE  /\ Stored(notifications[i].id)
           /\ Position(notifications[i].id) = i
           /\ At(notifications[i].id) = notifications[i]
<1>1. Stored(notifications[i].id)
  BY DEF Stored, Entry
<1>2. /\ Position(notifications[i].id) \in Entry
      /\ notifications[Position(notifications[i].id)].id = notifications[i].id
  BY DEF Position, Entry
<1>3. Position(notifications[i].id) = i
  BY <1>2 DEF IInv, UniqueIds
<1>4. QED
  BY <1>1, <1>3 DEF At

(* The acknowledged positions of a sequence.                                *)
Marked(seq) == {i \in 1..Len(seq) : seq[i].acknowledged}

LEMMA MarkedFinite ==
    ASSUME NEW seq, Len(seq) \in Nat
    PROVE  /\ IsFiniteSet(Marked(seq)) /\ IsFiniteSet(1..Len(seq))
           /\ Cardinality(1..Len(seq)) = Len(seq)
           /\ AcknowledgedIn(seq) = Cardinality(Marked(seq))
           /\ AcknowledgedIn(seq) \in Nat
<1> DEFINE n == Len(seq)
<1>1. n \in Int /\ 1 \in Int /\ n >= 0
  OBVIOUS
<1> HIDE DEF n
<1>2. IsFiniteSet(1..n) /\ Cardinality(1..n) = n
  <2>1. /\ IsFiniteSet(1..n)
        /\ Cardinality(1..n) = IF 1 > n THEN 0 ELSE n - 1 + 1
    BY <1>1, FS_Interval, Zenon
  <2>2. QED
    BY <1>1, <2>1
<1> USE DEF n
<1>3. Marked(seq) \in SUBSET (1..Len(seq))
  BY DEF Marked
<1>4. IsFiniteSet(Marked(seq))
  BY <1>2, <1>3, FS_Subset
<1>5. AcknowledgedIn(seq) = Cardinality(Marked(seq))
  BY DEF AcknowledgedIn, Marked
<1>6. QED
  BY <1>2, <1>4, <1>5, FS_CardinalityType

LEMMA GrowingCounts ==
    ASSUME TypeOK, TypeOK', Grows
    PROVE  AcknowledgedIn(notifications) <= AcknowledgedIn(notifications')
<1>1. Len(notifications) \in Nat /\ Len(notifications') \in Nat
  BY DEF TypeOK
<1>2. Marked(notifications) \in SUBSET Marked(notifications')
  BY <1>1 DEF Grows, Marked, Entry
<1>3. IsFiniteSet(Marked(notifications'))
  BY <1>1, MarkedFinite
<1>4. Cardinality(Marked(notifications)) <= Cardinality(Marked(notifications'))
  BY <1>2, <1>3, FS_Subset
<1>5. QED
  BY <1>1, <1>4, MarkedFinite

(* What is shown is counted.                                                *)
LEMMA ShownCounted ==
    ASSUME TypeOK, NEW r \in Requests, Shows(r), ItemsTrue(r)
    PROVE  /\ Len(req[r].encoded) <= Len(notifications)
           /\ AcknowledgedIn(req[r].encoded) <= AcknowledgedIn(notifications)
<1> DEFINE items == req[r].encoded
<1>1. Len(notifications) \in Nat /\ Len(items) \in Nat
  <2>1. items \in Seq(Item)
    BY DEF TypeOK, RequestType
  <2>2. QED
    BY <2>1 DEF TypeOK
<1> DEFINE Of(k, i) == /\ notifications[i].id = items[k].id
                       /\ items[k].acknowledged => notifications[i].acknowledged
           place == [k \in Shown(r) |-> CHOOSE i \in Entry : Of(k, i)]
<1>2. \A k \in Shown(r) : \E i \in Entry : Of(k, i)
  BY DEF ItemsTrue, ItemTrue
<1>3. \A k \in Shown(r) : place[k] \in Entry /\ Of(k, place[k])
  BY <1>2
<1> HIDE DEF place
<1>4. \A k, l \in Shown(r) : place[k] = place[l] => k = l
  <2>1. \A k, l \in Shown(r) : items[k].id = items[l].id => k = l
    BY DEF ItemsTrue
  <2>2. QED
    BY <1>3, <2>1
<1> DEFINE marked == [k \in Marked(items) |-> place[k]]
           all == [k \in Shown(r) |-> place[k]]
<1>5. marked \in Injection(Marked(items), Marked(notifications))
  <2>1. \A k \in Marked(items) : k \in Shown(r) /\ place[k] \in Marked(notifications)
    BY <1>3 DEF Marked, Shown, Entry
  <2>2. QED
    BY <1>4, <2>1 DEF Injection, IsInjective
<1>6. all \in Injection(Shown(r), Entry)
  BY <1>3, <1>4 DEF Injection, IsInjective
<1>7. IsFiniteSet(Marked(notifications)) /\ IsFiniteSet(Entry)
  BY <1>1, MarkedFinite DEF Entry
<1> HIDE DEF marked, all
<1>8. /\ Cardinality(Marked(items)) <= Cardinality(Marked(notifications))
      /\ Cardinality(Shown(r)) <= Cardinality(Entry)
  BY <1>5, <1>6, <1>7, FS_Injection
<1>9. QED
  BY <1>1, <1>8, MarkedFinite DEF Shown, Entry

-----------------------------------------------------------------------------
(* The steps, again, with the fields that the first half left open.         *)

(* Only r changes, and neither what it asks nor what came before it.        *)
Moves(r) ==
    /\ \A q \in Requests \ {r} : req'[q] = req[q]
    /\ req'[r].call = req[r].call
    /\ req'[r].before = req[r].before

SameCounts(r) == req'[r].total = req[r].total /\ req'[r].acked = req[r].acked
SameItems(r) == req'[r].encoded = req[r].encoded
SameFields(r) == SameCounts(r) /\ SameItems(r) /\ req'[r].listed = req[r].listed

LEMMA SendSets ==
    ASSUME TypeOK, NEW r \in Requests, Send(r)
    PROVE  /\ \A q \in Requests \ {r} : req'[q] = req[q]
           /\ req'[r].pc = "sent" /\ SameFields(r)
<1> DEFINE before == {q \in Requests : Granted(q)}
<1>1. PICK c \in Calls :
         req' = [req EXCEPT ![r].pc = "sent", ![r].call = c, ![r].before = before]
  BY DEF Send
<1> HIDE DEF before
<1>2. QED
  BY <1>1 DEF TypeOK, RequestType, SameFields, SameCounts, SameItems

LEMMA StampSets ==
    ASSUME TypeOK, NEW r \in Requests, Stamp(r)
    PROVE  Moves(r) /\ req'[r].pc = "stamped" /\ SameFields(r)
BY DEF Stamp, TypeOK, RequestType, Moves, SameFields, SameCounts, SameItems

LEMMA AnswerSets ==
    ASSUME TypeOK, NEW r \in Requests, NEW code, Answer(r, code)
    PROVE  Moves(r) /\ req'[r].pc = "answered" /\ req'[r].code = code /\ SameFields(r)
BY DEF Answer, TypeOK, RequestType, Moves, SameFields, SameCounts, SameItems

LEMMA ListedSets ==
    ASSUME TypeOK, NEW r \in Requests, NEW ids,
           req' = [req EXCEPT ![r].pc = "encoding", ![r].listed = ids]
    PROVE  /\ Moves(r) /\ req'[r].pc = "encoding" /\ req'[r].listed = ids
           /\ SameItems(r) /\ SameCounts(r)
BY DEF TypeOK, RequestType, Moves, SameCounts, SameItems

LEMMA EncodeSets ==
    ASSUME TypeOK, NEW r \in Requests, NEW items, req' = [req EXCEPT ![r].encoded = items]
    PROVE  /\ Moves(r) /\ req'[r].pc = req[r].pc /\ req'[r].code = req[r].code
           /\ req'[r].encoded = items /\ req'[r].listed = req[r].listed /\ SameCounts(r)
BY DEF TypeOK, RequestType, Moves, SameCounts

LEMMA EncodedSets ==
    ASSUME TypeOK, NEW r \in Requests, Encoded(r)
    PROVE  /\ Moves(r) /\ req'[r].pc = "answered" /\ req'[r].code = 200
           /\ req'[r].total = Len(req[r].listed) /\ req'[r].acked = req[r].acked
           /\ req'[r].listed = <<>> /\ SameItems(r)
<1> DEFINE total == Len(req[r].listed)
<1>1. req' = [req EXCEPT ![r].pc = "answered", ![r].code = 200,
                         ![r].total = total, ![r].listed = <<>>]
  BY DEF Encoded
<1> HIDE DEF total
<1>2. /\ Moves(r) /\ req'[r].pc = "answered" /\ req'[r].code = 200
      /\ req'[r].total = total /\ req'[r].acked = req[r].acked
      /\ req'[r].listed = <<>> /\ SameItems(r)
  BY <1>1 DEF TypeOK, RequestType, Moves, SameItems
<1>3. QED
  BY <1>2 DEF total

LEMMA StatsSets ==
    ASSUME TypeOK, NEW r \in Requests, Stats(r)
    PROVE  /\ Moves(r) /\ req'[r].pc = "answered" /\ req'[r].code = 200
           /\ req'[r].total = Len(notifications)
           /\ req'[r].acked = AcknowledgedIn(notifications)
           /\ req'[r].listed = req[r].listed /\ SameItems(r)
<1> DEFINE total == Len(notifications)
           acked == AcknowledgedIn(notifications)
<1>1. req' = [req EXCEPT ![r].pc = "answered", ![r].code = 200,
                         ![r].total = total, ![r].acked = acked]
  BY DEF Stats
<1> HIDE DEF total, acked
<1>2. /\ Moves(r) /\ req'[r].pc = "answered" /\ req'[r].code = 200
      /\ req'[r].total = total /\ req'[r].acked = acked
      /\ req'[r].listed = req[r].listed /\ SameItems(r)
  BY <1>1 DEF TypeOK, RequestType, Moves, SameItems
<1>3. QED
  BY <1>2 DEF total, acked

LEMMA StepTyped ==
    ASSUME TypeOK, IInv', NEW r \in Requests, \A q \in Requests \ {r} : req'[q] = req[q],
           req'[r].listed \in Seq(Requests), req'[r].encoded \in Seq(Item),
           req'[r].total \in Nat, req'[r].acked \in Nat
    PROVE  TypeOK'
<1>1. PICK L : req' \in Shapes(L)
  BY DEF IInv, Typed, Shaped
<1>2. req'[r] \in [pc : Pcs, call : Calls \cup {NoCall}, receivedAt : 0..MaxTime, listed : L,
                   encoded : L, code : Codes, total : L, acked : L, before : SUBSET Requests]
  BY <1>1 DEF Shapes
<1>3. req'[r] \in RequestType
  BY <1>2 DEF RequestType, Pcs, Codes
<1>4. \A q \in Requests : req'[q] \in RequestType
  BY <1>3 DEF TypeOK
<1>5. req' = [q \in Requests |-> req'[q]]
  BY <1>1 DEF Shapes
<1>6. req' \in [Requests -> RequestType]
  BY <1>4, <1>5
<1>7. QED
  BY <1>6 DEF TypeOK, IInv, Typed

LEMMA SameTyped ==
    ASSUME TypeOK, IInv', NEW r \in Requests, \A q \in Requests \ {r} : req'[q] = req[q],
           SameFields(r)
    PROVE  TypeOK'
<1>1. /\ req[r].listed \in Seq(Requests) /\ req[r].encoded \in Seq(Item)
      /\ req[r].total \in Nat /\ req[r].acked \in Nat
  BY DEF TypeOK, RequestType
<1>2. QED
  BY <1>1, StepTyped DEF SameFields, SameItems, SameCounts

(* What a request was told before the step stays so for every other.        *)
LEMMA BeforeKept ==
    ASSUME IInv, NEW r \in Requests, req[r].pc # "answered",
           \A q \in Requests \ {r} : req'[q] = req[q],
           NEW s \in Requests, req'[s].call = req[s].call, req'[s].before = req[s].before
    PROVE  /\ AckedBefore(s)' = AckedBefore(s)
           /\ ReceivedBefore(s)' = ReceivedBefore(s)
           /\ WantedBefore(s)' = WantedBefore(s)
           /\ \A q \in req[s].before : q \in Requests /\ q # r /\ req'[q] = req[q]
<1>1. \A q \in req[s].before : q \in Requests /\ q # r /\ req'[q] = req[q]
  BY RequestTypes DEF IInv, BeforeAnswered
<1>2. ReceivedBefore(s)' = ReceivedBefore(s)
  BY <1>1 DEF ReceivedBefore, Answered
<1>3. WantedBefore(s)' = WantedBefore(s)
  <2>1. \A q \in ReceivedBefore(s) : req'[q] = req[q]
    BY <1>1 DEF ReceivedBefore
  <2>2. QED
    BY <1>2, <2>1 DEF WantedBefore, Wanted
<1>4. AckedBefore(s)' = AckedBefore(s)
  <2> DEFINE acks == {p \in req[s].before : Answered(p, "ack", 200)}
  <2>1. acks' = acks
    BY <1>1 DEF Answered
  <2>2. \A q \in acks : req'[q] = req[q]
    BY <1>1
  <2>3. QED
    BY <2>1, <2>2 DEF AckedBefore
<1>5. QED
  BY <1>1, <1>2, <1>3, <1>4

LEMMA FitsGrown ==
    ASSUME Grows, NEW s \in Requests, req'[s].call = req[s].call, NEW i \in Entry,
           Fits(s, notifications[i])
    PROVE  req'[s].call.op = "list" => Wanted(notifications'[i], req'[s].call.filter)
BY DEF Grows, Fits, Wanted

LEMMA ItemStaysTrue ==
    ASSUME IInv, TypeOK, TypeOK', Grows, NEW r \in Requests, req[r].pc # "answered",
           \A q \in Requests \ {r} : req'[q] = req[q],
           NEW s \in Requests, req'[s].call = req[s].call, req'[s].before = req[s].before,
           NEW item, ItemTrue(s, item)
    PROVE  ItemTrue(s, item)'
<1>1. PICK i \in Entry :
         /\ notifications[i].id = item.id
         /\ item.acknowledged => notifications[i].acknowledged
         /\ item.id \in AckedBefore(s) => item.acknowledged
         /\ Fits(s, notifications[i])
  BY DEF ItemTrue
<1>2. i \in Entry'
  BY DEF Grows, Entry, TypeOK
<1>3. Fits(s, notifications[i])'
  BY <1>1, FitsGrown DEF Fits
<1>4. AckedBefore(s)' = AckedBefore(s)
  BY BeforeKept
<1>5. QED
  BY <1>1, <1>2, <1>3, <1>4 DEF ItemTrue, Grows

LEMMA OthersTold ==
    ASSUME IInv, TypeOK, TypeOK', Grows, NEW r \in Requests, req[r].pc # "answered",
           \A q \in Requests \ {r} : req'[q] = req[q],
           NEW s \in Requests, s # r, Told(s)
    PROVE  Told(s)'
<1>1. req'[s] = req[s]
  OBVIOUS
<1>2. /\ WantedBefore(s)' = WantedBefore(s)
      /\ \A q \in req[s].before : q \in Requests /\ req'[q] = req[q]
  BY <1>1, BeforeKept
<1>3. \A i \in Entry : /\ i \in Entry'
                       /\ notifications'[i].id = notifications[i].id
                       /\ notifications[i].acknowledged => notifications'[i].acknowledged
                       /\ Fits(s, notifications[i]) => Fits(s, notifications[i])'
  <2>1. \A i \in Entry : Fits(s, notifications[i]) => Fits(s, notifications[i])'
    BY <1>1, FitsGrown DEF Fits
  <2>2. QED
    BY <2>1 DEF Grows, Entry, TypeOK
<1>4. Shown(s)' = Shown(s) /\ Pointers(s)' = Pointers(s)
  BY <1>1 DEF Shown, Pointers
<1>5. PointersGood(s)'
  BY <1>1, <1>2, <1>3, <1>4 DEF Told, PointersGood
<1>6. ItemsTrue(s)'
  <2>1. \A item : ItemTrue(s, item) => ItemTrue(s, item)'
    BY <1>1, ItemStaysTrue
  <2>2. Shows(s)' = Shows(s)
    BY <1>1 DEF Shows, Answered
  <2>3. QED
    BY <1>1, <1>4, <2>1, <2>2 DEF Told, ItemsTrue
<1>7. ListWhole(s)'
  BY <1>1, <1>2, <1>4 DEF Told, ListWhole, Answered
<1>8. NothingShown(s)'
  BY <1>1 DEF Told, NothingShown
<1>9. AckKept(s)'
  BY <1>1, <1>3 DEF Told, AckKept, Answered
<1>10. CountsPast(s)'
  <2> SUFFICES ASSUME Answered(s, "stats", 200)
               PROVE  CountsPast(s)'
    BY <1>1 DEF CountsPast, Answered
  <2>1. /\ req[s].total \in Nat /\ req[s].acked \in Nat
        /\ Len(notifications) \in Nat /\ Len(notifications') \in Nat
    <3>1. req[s].total \in Nat /\ req[s].acked \in Nat
      <4>1. req[s] \in RequestType
        BY DEF TypeOK
      <4>2. QED
        BY <4>1 DEF RequestType
    <3>2. Len(notifications) \in Nat /\ Len(notifications') \in Nat
      BY DEF TypeOK
    <3>3. QED
      BY <3>1, <3>2
  <2>2. /\ AcknowledgedIn(notifications) \in Nat /\ AcknowledgedIn(notifications') \in Nat
        /\ AcknowledgedIn(notifications) <= AcknowledgedIn(notifications')
    BY <2>1, MarkedFinite, GrowingCounts
  <2>3. req[s].total <= Len(notifications') /\ req[s].acked <= AcknowledgedIn(notifications')
    BY <2>1, <2>2 DEF Told, CountsPast, Grows
  <2>4. CountsAgree(s)'
    BY <1>1, <1>2 DEF Told, CountsPast, CountsAgree, Answered
  <2>5. QED
    BY <1>1, <2>3, <2>4 DEF CountsPast
<1>11. QED
  BY <1>5, <1>6, <1>7, <1>8, <1>9, <1>10 DEF Told

(* A request that has not come to its list, or is refused, tells nothing.   *)
LEMMA NothingTold ==
    ASSUME NEW r \in Requests,
           \/ req'[r].pc \notin {"encoding", "answered"} /\ req'[r].encoded = <<>>
           \/ req'[r].pc = "answered" /\ req'[r].code # 200
    PROVE  Told(r)'
BY DEF Told, PointersGood, ItemsTrue, Shows, ListWhole, NothingShown, AckKept, CountsPast,
       Answered

LEMMA AllToldStep ==
    ASSUME IInv, AllTold, Grows, NEW r \in Requests, req[r].pc # "answered",
           \A q \in Requests \ {r} : req'[q] = req[q],
           TypeOK', TypesKept', Told(r)'
    PROVE  AllTold'
<1>1. ASSUME NEW s \in Requests
      PROVE  Told(s)'
  <2>1. CASE s = r
    BY <2>1
  <2>2. CASE s # r
    BY <2>2, OthersTold DEF AllTold
  <2>3. QED
    BY <2>1, <2>2
<1>2. QED
  BY <1>1 DEF AllTold

(* The steps that leave the inbox as it is.                                 *)
LEMMA SameInboxTold ==
    ASSUME IInv, IInv', AllTold, NEW r \in Requests, req[r].pc # "answered",
           \A q \in Requests \ {r} : req'[q] = req[q],
           notifications' = notifications, TypeOK', Told(r)'
    PROVE  AllTold'
<1>1. Grows
  BY SameGrows DEF AllTold
<1>2. TypesKept'
  <2>1. \A i \in Entry : notifications[i].id \in Requests /\ notifications[i].id # r
    BY AtWork, EntryTypes DEF IInv
  <2>2. Entry' = Entry
    BY DEF Entry
  <2>3. QED
    BY <2>1, <2>2 DEF AllTold, TypesKept
<1>3. QED
  BY <1>1, <1>2, AllToldStep

LEMMA SendTold ==
    ASSUME IInv, IInv', AllTold, NEW r \in Requests, Send(r)
    PROVE  AllTold'
<1>1. /\ \A q \in Requests \ {r} : req'[q] = req[q]
      /\ req'[r].pc = "sent" /\ SameFields(r)
  BY SendSets DEF AllTold
<1>2. req[r].pc = "idle" /\ notifications' = notifications
  BY DEF Send
<1>3. TypeOK'
  BY <1>1, SameTyped DEF AllTold
<1>4. req'[r].encoded = <<>>
  BY <1>1, <1>2 DEF AllTold, Told, NothingShown, SameFields, SameItems
<1>5. Told(r)'
  BY <1>1, <1>4, NothingTold
<1>6. QED
  BY <1>1, <1>2, <1>3, <1>5, SameInboxTold

LEMMA StampTold ==
    ASSUME IInv, IInv', AllTold, NEW r \in Requests, Stamp(r)
    PROVE  AllTold'
<1>1. Moves(r) /\ req'[r].pc = "stamped" /\ SameFields(r)
  BY StampSets DEF AllTold
<1>2. req[r].pc = "sent" /\ notifications' = notifications
  BY DEF Stamp, Asks
<1>3. TypeOK'
  BY <1>1, SameTyped DEF AllTold, Moves
<1>4. req'[r].encoded = <<>>
  BY <1>1, <1>2 DEF AllTold, Told, NothingShown, SameFields, SameItems
<1>5. Told(r)'
  BY <1>1, <1>4, NothingTold
<1>6. QED
  BY <1>1, <1>2, <1>3, <1>5, SameInboxTold DEF Moves

LEMMA RefusedTold ==
    ASSUME IInv, IInv', AllTold, NEW r \in Requests, Refuse(r) \/ NotFound(r)
    PROVE  AllTold'
<1>1. PICK code \in {400, 404, 415} : Answer(r, code)
  <2>1. Refuse(r) => Answer(r, 415) \/ Answer(r, 400)
    BY DEF Refuse
  <2>2. NotFound(r) => Answer(r, 404)
    BY DEF NotFound
  <2>3. QED
    BY <2>1, <2>2
<1>2. Moves(r) /\ req'[r].pc = "answered" /\ req'[r].code = code /\ SameFields(r)
  BY <1>1, AnswerSets DEF AllTold
<1>3. req[r].pc = "sent" /\ notifications' = notifications
  BY DEF Refuse, NotFound, Asks
<1>4. TypeOK'
  BY <1>2, SameTyped DEF AllTold, Moves
<1>5. code # 200
  OBVIOUS
<1>6. Told(r)'
  BY <1>2, <1>5, NothingTold
<1>7. QED
  BY <1>2, <1>3, <1>4, <1>6, SameInboxTold DEF Moves

LEMMA AddTold ==
    ASSUME IInv, IInv', AllTold, NEW r \in Requests, Add(r)
    PROVE  AllTold'
<1>1. Moves(r) /\ req'[r].pc = "answered" /\ req'[r].code = 201 /\ SameFields(r)
  BY AnswerSets DEF AllTold, Add
<1>2. req[r].pc = "stamped" /\ notifications' = Append(notifications, New(r))
  BY DEF Add
<1>3. TypeOK'
  BY <1>1, SameTyped DEF AllTold, Moves
<1>4. 201 # 200
  OBVIOUS
<1>5. Told(r)'
  BY <1>1, <1>4, NothingTold
<1> DEFINE n == Len(notifications)
<1>6. /\ n \in Nat /\ Len(notifications') = n + 1
      /\ notifications'[n + 1] = New(r)
      /\ \A i \in Entry : notifications'[i] = notifications[i]
      /\ Entry' = Entry \cup {n + 1}
  <2>1. notifications \in Seq(Notification) /\ notifications' \in Seq(Notification)
    BY <1>3 DEF AllTold, TypeOK
  <2>2. n \in Nat /\ Len(notifications') = n + 1
    BY <1>2, <2>1
  <2>3. /\ notifications'[n + 1] = New(r)
        /\ \A i \in 1..n : notifications'[i] = notifications[i]
    BY <1>2, <2>1
  <2>4. 1..(n + 1) = 1..n \cup {n + 1}
    BY <2>2
  <2>5. QED
    BY <2>2, <2>3, <2>4 DEF Entry
<1> HIDE DEF n
<1>7. Grows
  BY <1>6 DEF Grows, n
<1>8. TypesKept'
  <2>1. \A i \in Entry : notifications[i].id \in Requests /\ notifications[i].id # r
    BY <1>2, AtWork, EntryTypes DEF IInv
  <2>2. \A i \in Entry : notifications'[i].types = req'[notifications'[i].id].call.types
    BY <1>1, <1>6, <2>1 DEF AllTold, TypesKept, Moves
  <2>3. New(r).id = r /\ New(r).types = req[r].call.types
    BY DEF New
  <2>4. notifications'[n + 1].types = req'[notifications'[n + 1].id].call.types
    BY <1>1, <1>6, <2>3 DEF Moves
  <2>5. QED
    BY <1>6, <2>2, <2>4 DEF TypesKept
<1>9. QED
  BY <1>1, <1>2, <1>3, <1>5, <1>7, <1>8, AllToldStep DEF Moves

LEMMA ListTold ==
    ASSUME IInv, IInv', AllTold, NEW r \in Requests, List(r)
    PROVE  AllTold'
<1> DEFINE filter == req[r].call.filter
           list == Listed(filter)
<1>1. /\ req[r].pc = "sent" /\ req[r].call.op = "list" /\ notifications' = notifications
      /\ req' = [req EXCEPT ![r].pc = "encoding", ![r].listed = list]
      /\ Entry' = Entry
  BY DEF List, Asks, Entry
<1>2. /\ Selects(list, filter, Len(notifications))
  BY ListedIs
<1> HIDE DEF filter, list
<1>3. /\ Moves(r) /\ req'[r].pc = "encoding" /\ req'[r].listed = list
      /\ SameItems(r) /\ SameCounts(r)
  BY <1>1, ListedSets DEF AllTold
<1>4. req'[r].encoded = <<>>
  BY <1>1, <1>3 DEF AllTold, Told, NothingShown, SameItems
<1>5. list \in Seq(Requests)
  BY <1>2 DEF Selects
<1>6. TypeOK'
  <2>1. req[r].total \in Nat /\ req[r].acked \in Nat
    BY DEF AllTold, TypeOK, RequestType
  <2>2. req'[r].encoded \in Seq(Item)
    BY <1>4
  <2>3. QED
    BY <1>3, <1>4, <1>5, <2>1, <2>2, StepTyped DEF AllTold, Moves, SameCounts
<1>7. WantedBefore(r)' = WantedBefore(r)
  BY <1>1, <1>3, BeforeKept DEF Moves
<1>8. PointersGood(r)'
  <2>1. Pointers(r)' = 1..Len(list) /\ Shown(r)' = {}
    BY <1>3, <1>4 DEF Pointers, Shown
  <2>2. \A k \in 1..Len(list) : \E i \in Entry :
           notifications[i].id = list[k] /\ Fits(r, notifications[i])'
    BY <1>1, <1>2, <1>3 DEF Selects, Entry, Fits, Moves, filter
  <2>3. \A q \in WantedBefore(r) : \E k \in 1..Len(list) : list[k] = q
    <3> SUFFICES ASSUME NEW q \in WantedBefore(r)
                 PROVE  \E k \in 1..Len(list) : list[k] = q
      OBVIOUS
    <3>1. q \in Requests /\ Answered(q, "receive", 201) /\ Wanted(req[q].call, filter)
      BY RequestTypes DEF WantedBefore, ReceivedBefore, filter, IInv
    <3>2. PICK i \in Entry : notifications[i].id = q
      BY <3>1 DEF IInv, AnswersStored
    <3>3. Wanted(notifications[i], filter)
      BY <3>1, <3>2 DEF AllTold, TypesKept, Wanted
    <3>4. QED
      BY <1>2, <3>2, <3>3 DEF Selects, Entry
  <2>4. Len(<<>>) = 0 /\ Len(list) \in Nat
    BY <1>5
  <2>5. \A k, l \in 1..Len(list) : list[k] = list[l] => k = l
    BY <1>2 DEF Selects
  <2>6. Len(req'[r].encoded) <= Len(req'[r].listed)
    BY <1>3, <1>4, <2>4
  <2>7. \A k \in Pointers(r)' : \E i \in Entry' :
           notifications'[i].id = req'[r].listed[k] /\ Fits(r, notifications[i])'
    BY <1>1, <1>3, <2>1, <2>2
  <2>8. \A q \in WantedBefore(r)' : \E k \in Pointers(r)' : req'[r].listed[k] = q
    BY <1>3, <1>7, <2>1, <2>3
  <2>9. \A k, l \in Pointers(r)' : req'[r].listed[k] = req'[r].listed[l] => k = l
    BY <1>3, <2>1, <2>5
  <2>10. QED
    BY <1>1, <1>3, <2>1, <2>6, <2>7, <2>8, <2>9 DEF PointersGood, Moves
<1>9. ItemsTrue(r)'
  BY <1>4 DEF ItemsTrue, Shown
<1>10. Told(r)'
  BY <1>3, <1>8, <1>9 DEF Told, ListWhole, NothingShown, AckKept, CountsPast, Answered
<1>11. QED
  BY <1>1, <1>3, <1>6, <1>10, SameInboxTold DEF Moves

LEMMA GetTold ==
    ASSUME IInv, IInv', AllTold, NEW r \in Requests, Get(r)
    PROVE  AllTold'
<1> DEFINE id == req[r].call.id
           list == <<id>>
<1>1. /\ req[r].pc = "sent" /\ req[r].call.op = "get" /\ notifications' = notifications
      /\ req' = [req EXCEPT ![r].pc = "encoding", ![r].listed = list]
      /\ Entry' = Entry
  BY DEF Get, Asks, Entry
<1>2. PICK i \in Entry : notifications[i].id = id
  BY DEF Get, Stored, Entry
<1>3. list \in Seq(Requests) /\ Len(list) = 1 /\ list[1] = id
  <2>1. id \in Requests
    BY <1>2, EntryTypes DEF IInv
  <2>2. QED
    BY <2>1
<1> HIDE DEF id, list
<1>4. /\ Moves(r) /\ req'[r].pc = "encoding" /\ req'[r].listed = list
      /\ SameItems(r) /\ SameCounts(r)
  BY <1>1, ListedSets DEF AllTold
<1>5. req'[r].encoded = <<>>
  BY <1>1, <1>4 DEF AllTold, Told, NothingShown, SameItems
<1>6. TypeOK'
  <2>1. req[r].total \in Nat /\ req[r].acked \in Nat
    BY DEF AllTold, TypeOK, RequestType
  <2>2. req'[r].encoded \in Seq(Item)
    BY <1>5
  <2>3. QED
    BY <1>3, <1>4, <1>5, <2>1, <2>2, StepTyped DEF AllTold, Moves, SameCounts
<1>7. PointersGood(r)'
  <2>1. Pointers(r)' = {1} /\ Shown(r)' = {}
    <3>1. Len(req'[r].listed) = 1 /\ Len(req'[r].encoded) = 0
      BY <1>3, <1>4, <1>5
    <3>2. 1..1 = {1} /\ 1..0 = {}
      OBVIOUS
    <3>3. QED
      BY <3>1, <3>2 DEF Pointers, Shown
  <2>2. WantedBefore(r)' = {}
    BY <1>1, <1>4 DEF WantedBefore, Moves
  <2>3. notifications[i].id = list[1] /\ Fits(r, notifications[i])'
    BY <1>1, <1>2, <1>3, <1>4 DEF Fits, Moves
  <2>4. Len(req'[r].encoded) <= Len(req'[r].listed)
    BY <1>3, <1>4, <1>5
  <2>5. QED
    BY <1>1, <1>4, <2>1, <2>2, <2>3, <2>4 DEF PointersGood, Moves
<1>8. ItemsTrue(r)'
  BY <1>5 DEF ItemsTrue, Shown
<1>9. Told(r)'
  BY <1>4, <1>7, <1>8 DEF Told, ListWhole, NothingShown, AckKept, CountsPast, Answered
<1>10. QED
  BY <1>1, <1>4, <1>6, <1>9, SameInboxTold DEF Moves

LEMMA EncodeTold ==
    ASSUME IInv, IInv', AllTold, NEW r \in Requests, Encode(r)
    PROVE  AllTold'
<1> DEFINE items == req[r].encoded
           k == Len(items) + 1
           item == [id |-> req[r].listed[k], acknowledged |-> At(req[r].listed[k]).acknowledged]
           longer == Append(items, item)
<1>1. /\ req[r].pc = "encoding" /\ k <= Len(req[r].listed) /\ notifications' = notifications
      /\ req' = [req EXCEPT ![r].encoded = Append(@, item)]
      /\ Entry' = Entry
  BY DEF Encode, Entry
<1>2. /\ items \in Seq(Item) /\ req[r].listed \in Seq(Requests)
      /\ req[r].total \in Nat /\ req[r].acked \in Nat
      /\ Len(items) \in Nat /\ Len(req[r].listed) \in Nat
  <2>1. /\ items \in Seq(Item) /\ req[r].listed \in Seq(Requests)
        /\ req[r].total \in Nat /\ req[r].acked \in Nat
    BY DEF AllTold, TypeOK, RequestType
  <2>2. QED
    BY <2>1
<1>3. k \in Pointers(r) /\ k \notin Shown(r)
  BY <1>1, <1>2 DEF Pointers, Shown
<1>4. PICK i \in Entry : notifications[i].id = req[r].listed[k] /\ Fits(r, notifications[i])
  BY <1>1, <1>3 DEF AllTold, Told, PointersGood
<1>5. item.id = notifications[i].id /\ item.acknowledged = notifications[i].acknowledged
  BY <1>4, EntryOf
<1>6. item \in Item
  <2>1. notifications[i] \in Notification
    BY EntryTypes DEF IInv
  <2>2. /\ item.id \in Requests /\ item.acknowledged \in BOOLEAN
        /\ item = [id |-> item.id, acknowledged |-> item.acknowledged]
    BY <1>5, <2>1 DEF Notification
  <2>3. QED
    BY <2>2 DEF Item
<1>7. ItemTrue(r, item)
  <2>1. ASSUME item.id \in AckedBefore(r)
        PROVE  notifications[i].acknowledged
    <3>1. PICK q \in req[r].before : Answered(q, "ack", 200) /\ req[q].call.id = item.id
      BY <2>1 DEF AckedBefore
    <3>2. q \in Requests
      BY RequestTypes DEF IInv
    <3>3. PICK j \in Entry : notifications[j].id = item.id /\ notifications[j].acknowledged
      BY <3>1, <3>2 DEF AllTold, Told, AckKept
    <3>4. QED
      BY <1>5, <3>3 DEF IInv, UniqueIds
  <2>2. QED
    BY <1>4, <1>5, <2>1 DEF ItemTrue
<1>8. req' = [req EXCEPT ![r].encoded = longer]
  BY <1>1
<1>9. /\ longer \in Seq(Item) /\ Len(longer) = k
      /\ longer[k] = item
      /\ \A l \in Shown(r) : longer[l] = items[l]
      /\ 1..k = Shown(r) \cup {k}
  <2> HIDE DEF item
  <2>1. /\ longer \in Seq(Item) /\ Len(longer) = k
        /\ longer[k] = item
        /\ \A l \in 1..Len(items) : longer[l] = items[l]
    BY <1>2, <1>6
  <2>2. 1..k = 1..Len(items) \cup {k}
    BY <1>2
  <2>3. QED
    BY <2>1, <2>2 DEF Shown
<1>10. item.id = req[r].listed[k]
  OBVIOUS
<1>11. PICK new : new = longer
  OBVIOUS
<1> HIDE DEF longer, item, k, items
<1>12. /\ Moves(r) /\ req'[r].pc = req[r].pc /\ req'[r].code = req[r].code
       /\ req'[r].encoded = new /\ req'[r].listed = req[r].listed /\ SameCounts(r)
  BY <1>8, <1>11, EncodeSets DEF AllTold
<1>13. TypeOK'
  BY <1>2, <1>9, <1>11, <1>12, StepTyped DEF AllTold, Moves, SameCounts
<1>14. WantedBefore(r)' = WantedBefore(r)
  BY <1>1, <1>12, BeforeKept DEF Moves
<1>15. Shown(r)' = Shown(r) \cup {k} /\ Pointers(r)' = Pointers(r)
  BY <1>9, <1>11, <1>12 DEF Shown, Pointers
<1>16. PointersGood(r)'
  <2>1. \A l \in Shown(r)' : new[l].id = req[r].listed[l]
    <3>1. \A l \in Shown(r) : items[l].id = req[r].listed[l]
      BY <1>1 DEF AllTold, Told, PointersGood, items
    <3>2. QED
      BY <1>9, <1>10, <1>11, <1>15, <3>1
  <2>2. \A l \in Pointers(r)' : \E j \in Entry' :
           notifications'[j].id = req'[r].listed[l] /\ Fits(r, notifications[j])'
    BY <1>1, <1>12, <1>15 DEF AllTold, Told, PointersGood, Fits, Moves
  <2>3. QED
    BY <1>1, <1>9, <1>11, <1>12, <1>14, <1>15, <2>1, <2>2 DEF AllTold, Told, PointersGood, Moves, k
<1>17. ItemsTrue(r)'
  <2>1. ItemsTrue(r) /\ Shows(r) /\ PointersGood(r)
    BY <1>1 DEF AllTold, Told, Shows
  <2>2. Grows
    BY <1>1, SameGrows DEF AllTold
  <2>3. \A x : ItemTrue(r, x) => ItemTrue(r, x)'
    BY <1>1, <1>12, <1>13, <2>2, ItemStaysTrue DEF AllTold, Moves
  <2>4. \A l \in Shown(r) : ItemTrue(r, new[l])
    BY <1>9, <1>11, <2>1 DEF ItemsTrue, items
  <2>5. \A l \in Shown(r)' : ItemTrue(r, new[l])'
    BY <1>7, <1>9, <1>11, <1>15, <2>3, <2>4
  <2>6. \A l \in Shown(r)' : l \in Pointers(r) /\ new[l].id = req[r].listed[l]
    <3>1. \A l \in Shown(r) : l \in Pointers(r) /\ items[l].id = req[r].listed[l]
      BY <1>1, <1>2, <2>1 DEF PointersGood, Shown, Pointers, items
    <3>2. QED
      BY <1>3, <1>9, <1>10, <1>11, <1>15, <3>1
  <2>7. \A l, m \in Shown(r)' : new[l].id = new[m].id => l = m
    BY <1>1, <2>1, <2>6 DEF PointersGood
  <2>8. QED
    BY <1>12, <2>5, <2>7 DEF ItemsTrue
<1>18. Told(r)'
  BY <1>1, <1>12, <1>16, <1>17 DEF Told, ListWhole, NothingShown, AckKept, CountsPast, Answered
<1>19. QED
  BY <1>1, <1>12, <1>13, <1>18, SameInboxTold DEF Moves

LEMMA EncodedTold ==
    ASSUME IInv, IInv', AllTold, NEW r \in Requests, Encoded(r)
    PROVE  AllTold'
<1>1. /\ req[r].pc = "encoding" /\ Len(req[r].encoded) = Len(req[r].listed)
      /\ notifications' = notifications
  BY DEF Encoded
<1>2. /\ Moves(r) /\ req'[r].pc = "answered" /\ req'[r].code = 200
      /\ req'[r].total = Len(req[r].listed) /\ req'[r].acked = req[r].acked
      /\ req'[r].listed = <<>> /\ SameItems(r)
  BY EncodedSets DEF AllTold
<1>3. TypeOK'
  <2>1. /\ req[r].listed \in Seq(Requests) /\ req[r].encoded \in Seq(Item)
        /\ req[r].acked \in Nat
    BY DEF AllTold, TypeOK, RequestType
  <2>2. Len(req[r].listed) \in Nat /\ <<>> \in Seq(Requests)
    BY <2>1
  <2>3. /\ req'[r].listed \in Seq(Requests) /\ req'[r].encoded \in Seq(Item)
        /\ req'[r].total \in Nat /\ req'[r].acked \in Nat
    BY <1>2, <2>1, <2>2 DEF SameItems
  <2>4. QED
    BY <1>2, <2>3, StepTyped DEF AllTold, Moves
<1>4. PointersGood(r) /\ ItemsTrue(r) /\ Shows(r)
  BY <1>1 DEF AllTold, Told, Shows
<1>5. req[r].call.op \in {"list", "get"} /\ req'[r].call = req[r].call
  BY <1>1, <1>2, <1>4 DEF PointersGood, Moves
<1>6. Shown(r)' = Shown(r) /\ Pointers(r) = Shown(r)
  BY <1>1, <1>2 DEF Shown, SameItems, Pointers
<1>7. ItemsTrue(r)'
  <2>1. Grows
    BY <1>1, SameGrows DEF AllTold
  <2>2. \A x : ItemTrue(r, x) => ItemTrue(r, x)'
    BY <1>1, <1>2, <1>3, <2>1, ItemStaysTrue DEF AllTold, Moves
  <2>3. QED
    BY <1>2, <1>4, <1>6, <2>2 DEF ItemsTrue, SameItems
<1>8. ListWhole(r)'
  <2>1. WantedBefore(r)' = WantedBefore(r)
    BY <1>1, <1>2, BeforeKept DEF Moves
  <2>2. \A q \in WantedBefore(r) : \E k \in Shown(r) : req[r].encoded[k].id = q
    BY <1>1, <1>4, <1>6 DEF PointersGood
  <2>3. QED
    BY <1>1, <1>2, <1>6, <2>1, <2>2 DEF ListWhole, SameItems
<1>9. Told(r)'
  BY <1>2, <1>5, <1>7, <1>8 DEF Told, PointersGood, NothingShown, AckKept, CountsPast, Answered
<1>10. QED
  BY <1>1, <1>2, <1>3, <1>9, SameInboxTold DEF Moves

LEMMA StatsTold ==
    ASSUME IInv, IInv', AllTold, NEW r \in Requests, Stats(r)
    PROVE  AllTold'
<1>1. req[r].pc = "sent" /\ req[r].call.op = "stats" /\ notifications' = notifications
  BY DEF Stats, Asks
<1>2. /\ Moves(r) /\ req'[r].pc = "answered" /\ req'[r].code = 200
      /\ req'[r].total = Len(notifications)
      /\ req'[r].acked = AcknowledgedIn(notifications)
      /\ req'[r].listed = req[r].listed /\ SameItems(r)
  BY StatsSets DEF AllTold
<1>3. Len(notifications) \in Nat /\ AcknowledgedIn(notifications) \in Nat
  <2>1. Len(notifications) \in Nat
    BY DEF AllTold, TypeOK
  <2>2. QED
    BY <2>1, MarkedFinite
<1>4. TypeOK'
  <2>1. req[r].listed \in Seq(Requests) /\ req[r].encoded \in Seq(Item)
    BY DEF AllTold, TypeOK, RequestType
  <2>2. QED
    BY <1>2, <1>3, <2>1, StepTyped DEF AllTold, Moves, SameItems
<1>5. \A q \in req[r].before : q \in Requests /\ req'[q] = req[q]
  BY <1>1, <1>2, BeforeKept DEF Moves
<1>6. CountsAgree(r)'
  <2> SUFFICES ASSUME NEW q \in req[r].before
               PROVE  /\ Answered(q, "list", 200) \/ Answered(q, "stats", 200)
                         => req[q].total <= Len(notifications)
                      /\ Answered(q, "list", 200)
                         => AcknowledgedIn(req[q].encoded) <= AcknowledgedIn(notifications)
                      /\ Answered(q, "stats", 200)
                         => req[q].acked <= AcknowledgedIn(notifications)
    BY <1>2, <1>5 DEF CountsAgree, Answered, Moves
  <2>1. Told(q) /\ q \in Requests
    BY <1>5 DEF AllTold
  <2>2. CASE Answered(q, "list", 200)
    <3>1. Shows(q) /\ ItemsTrue(q) /\ req[q].total = Len(req[q].encoded)
      BY <2>1, <2>2 DEF Told, ListWhole, Shows
    <3>2. ~Answered(q, "stats", 200)
      BY <2>2 DEF Answered
    <3>3. QED
      BY <2>1, <3>1, <3>2, ShownCounted DEF AllTold
  <2>3. CASE Answered(q, "stats", 200)
    <3>1. ~Answered(q, "list", 200)
      BY <2>3 DEF Answered
    <3>2. QED
      BY <2>1, <2>3, <3>1 DEF Told, CountsPast
  <2>4. QED
    BY <2>2, <2>3
<1>7. CountsPast(r)'
  BY <1>1, <1>2, <1>3, <1>6 DEF CountsPast
<1>8. Told(r)'
  BY <1>1, <1>2, <1>7 DEF Told, PointersGood, ItemsTrue, Shows, ListWhole, NothingShown,
     AckKept, Answered, Moves
<1>9. QED
  BY <1>1, <1>2, <1>4, <1>8, SameInboxTold DEF Moves

LEMMA AcknowledgeTold ==
    ASSUME IInv, IInv', AllTold, NEW r \in Requests, Acknowledge(r)
    PROVE  AllTold'
<1> DEFINE p == Position(req[r].call.id)
<1>1. /\ req[r].pc = "sent" /\ req[r].call.op = "ack" /\ Answer(r, 200)
      /\ notifications' = [notifications EXCEPT ![p].acknowledged = TRUE]
  BY DEF Acknowledge, Asks
<1>2. Moves(r) /\ req'[r].pc = "answered" /\ req'[r].code = 200 /\ SameFields(r)
  BY <1>1, AnswerSets DEF AllTold
<1>3. TypeOK'
  BY <1>2, SameTyped DEF AllTold, Moves
<1>4. /\ Len(notifications') = Len(notifications) /\ Entry' = Entry
      /\ \A i \in Entry : \/ notifications'[i] = notifications[i]
                          \/ notifications'[i] = [notifications[i] EXCEPT !.acknowledged = TRUE]
  BY AcknowledgeTurns DEF Entry
<1>5. p \in Entry /\ notifications[p].id = req[r].call.id
  BY DEF Acknowledge, Stored, Position, Entry
<1> HIDE DEF p
<1>6. /\ Len(notifications) \in Nat
      /\ \A i \in Entry : notifications[i] \in Notification
  BY EntryTypes DEF IInv
<1>7. \A i \in Entry :
         /\ notifications'[i].id = notifications[i].id
         /\ notifications'[i].types = notifications[i].types
         /\ notifications[i].acknowledged => notifications'[i].acknowledged
  BY <1>4, <1>6 DEF Notification
<1>8. Grows
  BY <1>4, <1>6, <1>7 DEF Grows
<1>9. notifications'[p].acknowledged
  <2>1. p \in DOMAIN notifications
    BY <1>5 DEF AllTold, TypeOK, Entry
  <2>2. notifications'[p] = [notifications[p] EXCEPT !.acknowledged = TRUE]
    BY <1>1, <2>1, Zenon
  <2>3. QED
    BY <1>5, <1>6, <2>2 DEF Notification
<1>10. TypesKept'
  <2>1. \A i \in Entry : notifications[i].id \in Requests /\ notifications[i].id # r
    BY <1>1, AtWork, EntryTypes DEF IInv
  <2>2. QED
    BY <1>2, <1>4, <1>7, <2>1 DEF AllTold, TypesKept, Moves
<1>11. AckKept(r)'
  BY <1>2, <1>4, <1>5, <1>7, <1>9 DEF AckKept, Moves
<1>12. Told(r)'
  BY <1>1, <1>2, <1>11 DEF Told, PointersGood, ItemsTrue, Shows, ListWhole, NothingShown,
     CountsPast, Answered, Moves
<1>13. QED
  BY <1>1, <1>2, <1>3, <1>8, <1>10, <1>12, AllToldStep DEF Moves

(* What is said of a request depends on the inbox and the requests alone.   *)
LEMMA SameTold ==
    ASSUME AllTold, IInv', notifications' = notifications, req' = req
    PROVE  AllTold'
<1>1. Entry' = Entry
  BY DEF Entry
<1>2. TypeOK'
  BY DEF AllTold, TypeOK, RequestType, IInv, Typed
<1>3. TypesKept'
  BY <1>1 DEF AllTold, TypesKept
<1>4. ASSUME NEW r \in Requests
      PROVE  Told(r)'
  <2>1. Told(r)
    BY DEF AllTold
  <2>2. /\ Pointers(r)' = Pointers(r) /\ Shown(r)' = Shown(r) /\ Shows(r)' = Shows(r)
        /\ \A i : Fits(r, notifications[i])' = Fits(r, notifications[i])
    BY DEF Pointers, Shown, Shows, Answered, Fits
  <2>3. WantedBefore(r)' = WantedBefore(r) /\ AckedBefore(r)' = AckedBefore(r)
    BY DEF WantedBefore, ReceivedBefore, AckedBefore, Answered
  <2>4. PointersGood(r)'
    BY <1>1, <2>1, <2>2, <2>3 DEF Told, PointersGood
  <2>5. ItemsTrue(r)'
    <3>1. \A item : ItemTrue(r, item) => ItemTrue(r, item)'
      BY <1>1, <2>2, <2>3 DEF ItemTrue
    <3>2. QED
      BY <2>1, <2>2, <3>1 DEF Told, ItemsTrue
  <2>6. ListWhole(r)'
    BY <2>1, <2>2, <2>3 DEF Told, ListWhole, Answered
  <2>7. NothingShown(r)' /\ AckKept(r)'
    BY <1>1, <2>1 DEF Told, NothingShown, AckKept, Answered
  <2>8. CountsPast(r)'
    BY <2>1 DEF Told, CountsPast, CountsAgree, Answered
  <2>9. QED
    BY <2>4, <2>5, <2>6, <2>7, <2>8 DEF Told
<1>5. QED
  BY <1>2, <1>3, <1>4 DEF AllTold

LEMMA IdleTyped == Idle \in RequestType /\ [Idle EXCEPT !.pc = "past"] \in RequestType
<1> DEFINE Ids == Seq(Requests)
           Items == Seq(Item)
           Type == [pc : Pcs, call : Calls \cup {NoCall}, receivedAt : 0..MaxTime, listed : Ids,
                    encoded : Items, code : Codes, total : Nat, acked : Nat,
                    before : SUBSET Requests]
<1>1. <<>> \in Ids /\ <<>> \in Items /\ RequestType = Type
  BY DEF RequestType, Pcs, Codes
<1> HIDE DEF Ids, Items
<1>2. Idle \in Type
  BY <1>1, InboxAssumption DEF Idle, Pcs, Codes
<1>3. [Idle EXCEPT !.pc = "past"] \in Type
  BY <1>1, InboxAssumption DEF Idle, Pcs, Codes
<1>4. QED
  BY <1>1, <1>2, <1>3

LEMMA RestartTold ==
    ASSUME AllTold, IInv', Restart
    PROVE  AllTold'
<1> DEFINE past == [Idle EXCEPT !.pc = "past"]
<1>1. /\ Entry' = {}
      /\ req' = [r \in Requests |-> IF req[r].pc = "idle" THEN req[r] ELSE past]
  BY DEF Restart, Entry
<1>2. past.pc = "past" /\ past.encoded = <<>> /\ past \in RequestType
  BY IdleTyped DEF Idle
<1> HIDE DEF past
<1>3. TypeOK'
  BY <1>1, <1>2 DEF AllTold, TypeOK, IInv, Typed
<1>4. TypesKept'
  BY <1>1 DEF TypesKept
<1>5. ASSUME NEW r \in Requests
      PROVE  Told(r)'
  <2>1. req[r].pc = "idle" => req[r].encoded = <<>>
    BY DEF AllTold, Told, NothingShown
  <2>2. req'[r].pc \in {"idle", "past"} /\ req'[r].encoded = <<>>
    BY <1>1, <1>2, <2>1
  <2>3. QED
    BY <2>2, NothingTold
<1>6. QED
  BY <1>3, <1>4, <1>5 DEF AllTold

LEMMA AllToldInit == Init => AllTold
<1> SUFFICES ASSUME Init
             PROVE  AllTold
  OBVIOUS
<1>1. notifications = <<>> /\ Entry = {}
  BY DEF Init, Entry
<1>2. TypeOK
  <2>1. <<>> \in Seq(Notification) /\ 0 \in 0..MaxTime
    BY InboxAssumption
  <2>2. QED
    BY <2>1, IdleTyped DEF Init, TypeOK
<1>3. TypesKept
  BY <1>1 DEF TypesKept
<1>4. ASSUME NEW r \in Requests
      PROVE  Told(r)
  <2>1. req[r].pc = "idle" /\ req[r].encoded = <<>>
    BY DEF Init, Idle
  <2>2. QED
    BY <2>1 DEF Told, PointersGood, ItemsTrue, Shows, ListWhole, NothingShown, AckKept,
       CountsPast, Answered
<1>5. QED
  BY <1>2, <1>3, <1>4 DEF AllTold

LEMMA AllToldNext == IInv /\ IInv' /\ AllTold /\ [Next]_vars => AllTold'
<1> SUFFICES ASSUME IInv, IInv', AllTold, [Next]_vars
             PROVE  AllTold'
  OBVIOUS
<1>1. ASSUME NEW r \in Requests, Serve(r)
      PROVE  AllTold'
  BY <1>1, RefusedTold, StampTold, AddTold, ListTold, GetTold, EncodeTold, EncodedTold,
     AcknowledgeTold, StatsTold DEF Serve
<1>2. ASSUME UNCHANGED vars
      PROVE  AllTold'
  BY <1>2, SameTold DEF vars
<1>3. Tick => AllTold'
  BY SameTold DEF Tick
<1>4. QED
  BY <1>1, <1>2, <1>3, SendTold, RestartTold DEF Next

LEMMA TellingTrue == Spec => []AllTold
BY AllToldInit, AllToldNext, Invariance, PTL DEF Spec

-----------------------------------------------------------------------------
(* However many notifications arrive at the same time, each one answered    *)
(* 201 is in the inbox, and there once.                                     *)
THEOREM NotificationsKeptOnce == Spec => []ReceivedKeptOnce
<1>1. IInv => ReceivedKeptOnce
  <2> SUFFICES ASSUME IInv, NEW r \in Requests, Answered(r, "receive", 201)
               PROVE  \E i \in 1..Len(notifications) :
                         /\ notifications[i].id = r
                         /\ \A j \in 1..Len(notifications) \ {i} : notifications[j].id # r
    BY DEF ReceivedKeptOnce
  <2>1. PICK i \in Entry : notifications[i].id = r
    BY DEF IInv, AnswersStored
  <2>2. \A j \in Entry \ {i} : notifications[j].id # r
    BY <2>1 DEF IInv, UniqueIds
  <2>3. QED
    BY <2>1, <2>2 DEF Entry
<1>2. QED
  BY <1>1, Invariance, PTL

(* A notification sent after another was answered 201 is behind it in the   *)
(* inbox, and not with an earlier time, though stamp and append of both are *)
(* separate steps that those of any other request may come between.         *)
THEOREM ArrivalOrder == Spec => []RealTimeOrder
<1>1. IInv => RealTimeOrder
  <2> SUFFICES ASSUME IInv, NEW r \in Requests, NEW q \in Requests,
                      Answered(r, "receive", 201), q \in ReceivedBefore(r)
               PROVE  /\ Position(q) < Position(r)
                      /\ At(q).receivedAt <= At(r).receivedAt
    BY DEF RealTimeOrder
  <2>1. q \in req[r].before /\ Answered(q, "receive", 201)
    BY DEF ReceivedBefore
  <2>2. Position(r) \in Entry /\ notifications[Position(r)].id = r
    BY DEF IInv, AnswersStored, Position, Entry
  <2>3. Position(q) \in Entry /\ notifications[Position(q)].id = q
    BY <2>1 DEF IInv, AnswersStored, Position, Entry
  <2>4. QED
    BY <2>1, <2>2, <2>3 DEF IInv, Ordered, At
<1>2. QED
  BY <1>1, Invariance, PTL

(* No step but a restart removes a notification, moves it, rewrites it or   *)
(* takes an acknowledgement back.                                           *)
THEOREM InboxOnlyGrows == Spec => NothingTakenBack
<1>1. ASSUME IInv, notifications' = notifications
      PROVE  KeepsAll
  <2>1. Len(notifications) \in Nat
    BY <1>1, EntryTypes DEF IInv
  <2>2. QED
    BY <1>1, <2>1 DEF KeepsAll
<1>2. ASSUME IInv, NEW r \in Requests, Add(r)
      PROVE  KeepsAll
  <2>1. notifications \in Seq(Notification)
    BY <1>2 DEF IInv, Typed
  <2>2. notifications' = Append(notifications, New(r))
    BY <1>2 DEF Add
  <2>3. Len(notifications) <= Len(notifications')
    BY <2>1, <2>2
  <2>4. \A i \in 1..Len(notifications) : notifications'[i] = notifications[i]
    BY <2>1, <2>2
  <2>5. QED
    BY <2>3, <2>4 DEF KeepsAll
<1>3. ASSUME IInv, NEW r \in Requests, Acknowledge(r)
      PROVE  KeepsAll
  <2>1. /\ Len(notifications') = Len(notifications)
        /\ \A i \in Entry : \/ notifications'[i] = notifications[i]
                            \/ notifications'[i] = [notifications[i] EXCEPT !.acknowledged = TRUE]
    BY <1>3, AcknowledgeTurns
  <2>2. Len(notifications) \in Nat /\ \A i \in Entry : notifications[i] \in Notification
    BY <1>3, EntryTypes DEF IInv
  <2>3. ASSUME NEW i \in Entry
        PROVE  LET n == notifications[i] m == notifications'[i] IN
               /\ [m EXCEPT !.acknowledged = FALSE] = [n EXCEPT !.acknowledged = FALSE]
               /\ n.acknowledged => m.acknowledged
    <3>1. CASE notifications'[i] = notifications[i]
      BY <3>1
    <3>2. CASE notifications'[i] = [notifications[i] EXCEPT !.acknowledged = TRUE]
      <4>1. notifications[i] \in Notification
        BY <2>2
      <4>2. notifications'[i].acknowledged = TRUE
        BY <3>2, <4>1 DEF Notification
      <4>3. [notifications'[i] EXCEPT !.acknowledged = FALSE]
              = [notifications[i] EXCEPT !.acknowledged = FALSE]
        BY <3>2, <4>1 DEF Notification
      <4>4. QED
        BY <4>2, <4>3
    <3>3. QED
      BY <2>1, <3>1, <3>2
  <2>4. QED
    BY <2>1, <2>2, <2>3 DEF KeepsAll, Entry
<1>4. ASSUME IInv, NEW r \in Requests, Serve(r)
      PROVE  KeepsAll
  <2>1. Shaped
    BY <1>4 DEF IInv, Typed
  <2>2. Stamp(r) => notifications' = notifications
    BY DEF Stamp
  <2>3. QED
    BY <1>1, <1>2, <1>3, <1>4, <2>1, <2>2, QuietTurns DEF Serve
<1>5. IInv /\ [Next]_vars => [KeepsAll \/ Restart]_vars
  <2> SUFFICES ASSUME IInv, Next
               PROVE  KeepsAll \/ Restart
    OBVIOUS
  <2>1. ASSUME NEW r \in Requests, Send(r)
        PROVE  KeepsAll
    BY <1>1, <2>1 DEF Send
  <2>2. Tick => KeepsAll
    BY <1>1 DEF Tick
  <2>3. QED
    BY <1>4, <2>1, <2>2 DEF Next
<1>6. QED
  BY <1>5, Invariance, PTL DEF Spec, NothingTakenBack

(* Every reachable state has its type: a list holds IDs of notifications, a *)
(* stamp is a time of the clock, and counts are numbers.                    *)
THEOREM TypeCorrect == Spec => []TypeOK
BY TellingTrue, PTL DEF AllTold

(* A list or a single notification, though encoded outside the lock, misses *)
(* nothing that was there when it was asked for, shows nothing that is not  *)
(* in the inbox or not of the type asked for, and tells of each item's      *)
(* acknowledgement something that was so during the request.                *)
THEOREM ListsTellTheTruth == Spec => []ListsTrue
<1>1. IInv /\ AllTold => ListsTrue
  <2> SUFFICES ASSUME IInv, AllTold, NEW r \in Requests,
                      Answered(r, "list", 200) \/ Answered(r, "get", 200)
               PROVE  LET shown == {req[r].encoded[i] : i \in 1..Len(req[r].encoded)}
                          wanted == {q \in ReceivedBefore(r) :
                                        \/ req[r].call.filter = AnyType
                                        \/ req[r].call.filter \in req[q].call.types}
                      IN
                      /\ req[r].call.op = "list" => wanted \subseteq {n.id : n \in shown}
                      /\ \A n \in shown :
                            /\ Stored(n.id)
                            /\ n.acknowledged => At(n.id).acknowledged
                            /\ n.id \in AckedBefore(r) => n.acknowledged
                            /\ req[r].call.op = "list" /\ req[r].call.filter # AnyType
                               => req[r].call.filter \in At(n.id).types
    BY DEF ListsTrue
  <2> DEFINE shown == {req[r].encoded[i] : i \in 1..Len(req[r].encoded)}
             wanted == {q \in ReceivedBefore(r) :
                           \/ req[r].call.filter = AnyType
                           \/ req[r].call.filter \in req[q].call.types}
  <2>1. ItemsTrue(r) /\ ListWhole(r) /\ Shows(r)
    BY DEF AllTold, Told, Shows
  <2>2. ASSUME req[r].call.op = "list"
        PROVE  wanted \subseteq {n.id : n \in shown}
    <3>1. \A q \in wanted : q \in WantedBefore(r)
      BY <2>2 DEF WantedBefore, Wanted
    <3>2. Answered(r, "list", 200)
      BY <2>2 DEF Answered
    <3>3. \A q \in wanted : \E k \in Shown(r) : req[r].encoded[k].id = q
      BY <2>1, <3>1, <3>2 DEF ListWhole
    <3>4. QED
      BY <3>3 DEF Shown
  <2>3. ASSUME NEW k \in Shown(r)
        PROVE  LET n == req[r].encoded[k] IN
               /\ Stored(n.id)
               /\ n.acknowledged => At(n.id).acknowledged
               /\ n.id \in AckedBefore(r) => n.acknowledged
               /\ req[r].call.op = "list" /\ req[r].call.filter # AnyType
                  => req[r].call.filter \in At(n.id).types
    <3> DEFINE n == req[r].encoded[k]
    <3>1. ItemTrue(r, n)
      BY <2>1 DEF ItemsTrue
    <3> HIDE DEF n
    <3>2. PICK i \in Entry : /\ notifications[i].id = n.id
                             /\ n.acknowledged => notifications[i].acknowledged
                             /\ n.id \in AckedBefore(r) => n.acknowledged
                             /\ Fits(r, notifications[i])
      BY <3>1 DEF ItemTrue
    <3>3. Stored(n.id) /\ At(n.id) = notifications[i]
      BY <3>2, EntryOf
    <3>4. QED
      BY <3>2, <3>3 DEF Fits, Wanted, n
  <2>4. QED
    BY <2>2, <2>3 DEF Shown
<1>2. QED
  BY <1>1, Invariance, TellingTrue, PTL

(* A count is never below what a list or another count had shown before the *)
(* request for it was sent, whatever other requests did in between.         *)
THEOREM CountsNeverFall == Spec => []StatsMonotonic
<1>1. AllTold => StatsMonotonic
  BY DEF AllTold, Told, CountsPast, CountsAgree, StatsMonotonic
<1>2. QED
  BY <1>1, TellingTrue, PTL
=============================================================================
