------------------------ MODULE OxigraphServiceProofs -----------------------
(***************************************************************************)
(* What holds of the data-service over Oxigraph for every set of requests,  *)
(* calls, names, words and limit, and however often it is restarted: that   *)
(* it is a durable store, and what its queries find.                        *)
(***************************************************************************)
EXTENDS OxigraphService, DatasetProofs, TLAPS

-----------------------------------------------------------------------------
(* The inductive invariant.  It says of each request, apart from the others,*)
(* where the triples are that it writes.                                    *)

Holds(d, g, ts) == \A t \in ts : <<g, t>> \in d

WriteGraph == {GraphOf(c) : c \in Calls}
WriteBatch ==
    {c.body : c \in {d \in Calls : d.op = "triples"}}
    \cup {{t} : t \in UNION {c.body : c \in {d \in Calls : d.op = "ingest"}}}

(* An update that may be executed: of one validated body, or of one triple  *)
(* that types nothing.                                                      *)
Legal(g, ts) == g \in WriteGraph /\ ts \in WriteBatch /\ Complete(ts)

(* q: the record of a request; d: the quads that are stored.                *)
Good(q, d) ==
    /\ q.pc # "idle" => q.call \in Calls
    /\ q.http # "none" <=> q.pc = "waiting"
    /\ q.http = "sent" => q.batch = {} \/ Legal(GraphOf(q.call), q.batch)
    /\ q.http = "done" => Holds(d, GraphOf(q.call), q.batch)
    /\ q.http = "failed" => q.batch \subseteq q.failed
    /\ q.pc = "waiting" /\ q.call.op = "triples" => q.batch = q.call.body
    /\ q.pc \in Working /\ q.call.op = "ingest" =>
           /\ q.todo \subseteq q.call.body
           /\ Holds(d, GraphOf(q.call), q.call.body \ (q.failed \cup q.todo))

(* What the 201 in q is worth.                                              *)
Worth(q, d) ==
    /\ q.pc = "answered"
    /\ Holds(d, GraphOf(q.call), q.call.body \ IF q.call.op = "ingest" THEN q.failed ELSE {})

RequestsGood == \A r \in Requests : Good(req[r], db)
PromisesWorth == \A w \in promised : Worth(req[w], db)
LateLegal == \A u \in late : Legal(u.graph, u.batch)

IInv == TypeOK /\ RequestsGood /\ PromisesWorth /\ LateLegal /\ ObservationsComplete

-----------------------------------------------------------------------------
(* Types of what calls and updates carry.                                   *)

LEMMA CallTypes ==
    ASSUME NEW c \in Calls
    PROVE  /\ GraphOf(c) \in GraphName
           /\ c.body \subseteq Triple
           /\ c.op \in Scoped \cup Unscoped \cup Writes
           /\ c # NoCall
<1>1. c \in CallType /\ c # NoCall
  BY OxigraphServiceAssumption
<1>2. c.did \in Did /\ c.body \subseteq Triple /\ c.op \in Scoped \cup Unscoped \cup Writes
  BY <1>1 DEF CallType
<1>3. [key |-> "", val |-> ""] \in Part
  BY NamesAssumption DEF Part
<1>4. QED
  BY <1>1, <1>2, <1>3, GraphIRIType, GraphIRIFromDIDType DEF GraphOf

LEMMA LegalType ==
    ASSUME NEW g, NEW ts, Legal(g, ts)
    PROVE  g \in GraphName /\ ts \subseteq Triple
<1>1. g \in GraphName
  BY CallTypes DEF Legal, WriteGraph
<1>2. ts \in WriteBatch
  BY DEF Legal
<1>3. (\E c \in Calls : ts = c.body) \/ (\E c \in Calls : \E t \in c.body : ts = {t})
  BY <1>2 DEF WriteBatch
<1>4. ASSUME NEW c \in Calls, NEW t \in c.body, ts = {t}
      PROVE  ts \subseteq Triple
  BY <1>4, CallTypes
<1>5. QED
  BY <1>1, <1>3, <1>4, CallTypes

-----------------------------------------------------------------------------
(* The assignments of the actions, as one new record for one request.       *)

PcType == {"idle", "answered", "dropped"} \cup Working
CallOrNone == Calls \cup {NoCall}
HttpType == {"none", "sent", "done", "failed"}
CodeType == {0, 200, 201, 400, 422}
BatchType == SUBSET Triple
RowsType == SUBSET Quad
NamesType == SUBSET GraphName
BeforeType == SUBSET Requests

RecordType ==
    [pc : PcType, call : CallOrNone, http : HttpType, batch : BatchType, todo : BatchType,
     rows : RowsType, names : NamesType, code : CodeType, before : BeforeType,
     failed : BatchType]

ReqType == [Requests -> RecordType]

LEMMA RecordTypeIs == RecordType = RequestType
BY DEF RecordType, RequestType, PcType, CallOrNone, HttpType, CodeType, BatchType,
       RowsType, NamesType, BeforeType

(* One request takes a step, and the others do not.                         *)
Becomes(r, new) ==
    /\ new \in RecordType
    /\ req' \in ReqType
    /\ req'[r] = new
    /\ \A q \in Requests \ {r} : req'[q] = req[q]

LEMMA Assign ==
    ASSUME NEW r \in Requests, req \in ReqType, NEW new \in RecordType,
           req' = [req EXCEPT ![r] = new]
    PROVE  Becomes(r, new)
BY DEF Becomes, ReqType

Sent(q, c, before, todo) ==
    [q EXCEPT !.pc = "received", !.call = c, !.before = before, !.todo = todo]
Refused(q, code) == [q EXCEPT !.pc = "answered", !.code = code]
Asked(q, batch) == [q EXCEPT !.pc = "waiting", !.http = "sent", !.batch = batch]
Executed(q, rows, names) == [q EXCEPT !.http = "done", !.rows = rows, !.names = names]
Rejected(q) == [q EXCEPT !.http = "failed", !.failed = q.failed \cup q.batch]
TimedOut(q) ==
    [q EXCEPT !.http = "failed", !.failed = q.failed \cup q.batch, !.rows = {}, !.names = {}]
Replied(q, code) == [q EXCEPT !.pc = "answered", !.code = code, !.http = "none"]
RepliedCut(q, cut) ==
    [q EXCEPT !.pc = "answered", !.code = 200, !.http = "none", !.rows = cut]
Continued(q) ==
    [q EXCEPT !.pc = "received", !.http = "none", !.batch = {}, !.todo = q.todo \ q.batch]
Dropped(q) == [q EXCEPT !.pc = "dropped", !.http = "none"]

LEMMA RecordTypes ==
    ASSUME NEW q \in RecordType
    PROVE  /\ \A c \in Calls, before \in SUBSET Requests, ts \in SUBSET Triple :
                  Sent(q, c, before, ts) \in RecordType
           /\ \A ts \in SUBSET Triple : Asked(q, ts) \in RecordType
           /\ \A rows \in SUBSET Quad, names \in SUBSET GraphName :
                  Executed(q, rows, names) \in RecordType
           /\ \A code \in CodeType :
                  Refused(q, code) \in RecordType /\ Replied(q, code) \in RecordType
           /\ \A rows \in SUBSET Quad : RepliedCut(q, rows) \in RecordType
           /\ Rejected(q) \in RecordType
           /\ TimedOut(q) \in RecordType
           /\ Continued(q) \in RecordType
           /\ Dropped(q) \in RecordType
<1>1. /\ {"received", "answered", "waiting", "dropped"} \subseteq PcType
      /\ {"none", "sent", "done", "failed"} \subseteq HttpType
      /\ 200 \in CodeType
  BY DEF PcType, HttpType, CodeType, Working
<1>2. Calls \subseteq CallOrNone
  BY DEF CallOrNone
<1>3. SUBSET Triple = BatchType /\ SUBSET Quad = RowsType /\ SUBSET GraphName = NamesType
      /\ SUBSET Requests = BeforeType
  BY DEF BatchType, RowsType, NamesType, BeforeType
<1>4. {} \in BatchType /\ {} \in RowsType /\ {} \in NamesType
  BY DEF BatchType, RowsType, NamesType
<1>5. q.failed \cup q.batch \in BatchType /\ q.todo \ q.batch \in BatchType
  BY DEF RecordType, BatchType
<1>6. \A c \in CallOrNone, before \in BeforeType, ts \in BatchType :
          Sent(q, c, before, ts) \in RecordType /\ Asked(q, ts) \in RecordType
  BY <1>1 DEF RecordType, Sent, Asked
<1>7. \A code \in CodeType : Refused(q, code) \in RecordType /\ Replied(q, code) \in RecordType
  BY <1>1 DEF RecordType, Refused, Replied
<1>8. \A rows \in RowsType, names \in NamesType :
          Executed(q, rows, names) \in RecordType
  BY <1>1 DEF RecordType, Executed
<1>9. Rejected(q) \in RecordType /\ TimedOut(q) \in RecordType
  BY <1>1, <1>4, <1>5 DEF RecordType, Rejected, TimedOut
<1>10. Continued(q) \in RecordType /\ Dropped(q) \in RecordType
  BY <1>1, <1>4, <1>5 DEF RecordType, Continued, Dropped
<1>11. \A ts \in BatchType : Asked(q, ts) \in RecordType
  BY <1>1 DEF RecordType, Asked
<1>12. \A rows \in RowsType : RepliedCut(q, rows) \in RecordType
  <2> DEFINE half == [q EXCEPT !.pc = "answered", !.code = 200]
  <2>1. half \in RecordType
    BY <1>1 DEF RecordType
  <2>2. \A rows \in RowsType : RepliedCut(q, rows) = [half EXCEPT !.http = "none", !.rows = rows]
    BY DEF RepliedCut
  <2> HIDE DEF half
  <2>3. \A rows \in RowsType : [half EXCEPT !.http = "none", !.rows = rows] \in RecordType
    BY <1>1, <2>1 DEF RecordType
  <2>4. QED
    BY <2>2, <2>3
<1>13. QED
  BY <1>2, <1>3, <1>6, <1>7, <1>8, <1>9, <1>10, <1>11, <1>12

LEMMA TypeOKIs ==
    TypeOK <=>
        /\ db \subseteq Quad
        /\ late \subseteq [graph : GraphName, batch : SUBSET Triple]
        /\ req \in ReqType
        /\ promised \subseteq Requests
        /\ restarts \in 0..MaxRestarts
BY RecordTypeIs DEF TypeOK, ReqType

-----------------------------------------------------------------------------
(* The store only grows.                                                    *)

LEMMA GoodGrows ==
    ASSUME NEW q, NEW d, NEW e, d \subseteq e
    PROVE  /\ Good(q, d) => Good(q, e)
           /\ Worth(q, d) => Worth(q, e)
<1>1. \A g, ts : Holds(d, g, ts) => Holds(e, g, ts)
  BY DEF Holds
<1>2. QED
  BY <1>1 DEF Good, Worth

LEMMA InsertDataType ==
    ASSUME NEW d \in SUBSET Quad, NEW g \in GraphName, NEW ts \in SUBSET Triple
    PROVE  /\ InsertData(d, g, ts) \subseteq Quad
           /\ d \subseteq InsertData(d, g, ts)
           /\ Holds(InsertData(d, g, ts), g, ts)
BY DEF InsertData, Quad, Holds

LEMMA InsertKeepsComplete ==
    ASSUME db \subseteq Quad, ObservationsComplete, NEW g, NEW ts, Complete(ts),
           db' = InsertData(db, g, ts)
    PROVE  ObservationsComplete'
<1>1. Complete({})
  BY DEF Complete, Observations
<1>2. ASSUME NEW n
      PROVE  Complete(StoredIn(n))
  <2>1. CASE n \in Graphs(db)
    BY <2>1 DEF ObservationsComplete, Complete
  <2>2. CASE n \notin Graphs(db)
    <3>1. StoredIn(n) = {}
      BY <2>2 DEF StoredIn, Graphs
    <3>2. QED
      BY <1>1, <3>1
  <2>3. QED
    BY <2>1, <2>2
<1>3. ASSUME NEW n
      PROVE  StoredIn(n)' = StoredIn(n) \cup (IF n = g THEN ts ELSE {})
  <2>1. ASSUME NEW t
        PROVE  t \in StoredIn(n)' <=> \E q \in db' : q[1] = n /\ q[2] = t
    BY DEF StoredIn
  <2>2. ASSUME NEW t
        PROVE  t \in StoredIn(n) <=> \E q \in db : q[1] = n /\ q[2] = t
    BY DEF StoredIn
  <2>3. ASSUME NEW t
        PROVE  (\E q \in db' : q[1] = n /\ q[2] = t)
                 <=> (\E q \in db : q[1] = n /\ q[2] = t) \/ (n = g /\ t \in ts)
    <3>1. db' = db \cup {<<g, u>> : u \in ts}
      BY DEF InsertData
    <3>2. (\E q \in {<<g, u>> : u \in ts} : q[1] = n /\ q[2] = t) <=> n = g /\ t \in ts
      <4>1. ASSUME n = g, t \in ts
            PROVE  \E q \in {<<g, u>> : u \in ts} : q[1] = n /\ q[2] = t
        <5>1. <<g, t>> \in {<<g, u>> : u \in ts}
          BY <4>1
        <5>2. <<g, t>>[1] = n /\ <<g, t>>[2] = t
          BY <4>1
        <5>3. QED
          BY <5>1, <5>2
      <4>2. ASSUME NEW q \in {<<g, u>> : u \in ts}, q[1] = n, q[2] = t
            PROVE  n = g /\ t \in ts
        BY <4>2
      <4>3. QED
        BY <4>1, <4>2
    <3>3. QED
      BY <3>1, <3>2
  <2>4. QED
    BY <2>1, <2>2, <2>3
<1>4. ASSUME NEW n \in Graphs(db)'
      PROVE  Complete(StoredIn(n))'
  <2>1. Complete(StoredIn(n) \cup (IF n = g THEN ts ELSE {}))
    BY <1>1, <1>2, CompleteUnion
  <2>2. QED
    BY <1>3, <2>1
<1>5. QED
  BY <1>4 DEF ObservationsComplete, Complete

LEMMA RowsTypes ==
    ASSUME NEW call \in Calls, db \subseteq Quad
    PROVE  Rows(call) \subseteq Quad /\ FoundNames(call) \subseteq GraphName
<1>1. \A pattern, graphs : Select(db, pattern, graphs) \subseteq Quad
  BY DEF Select
<1>2. Resolve(call) \subseteq Quad
  <2>1. Describe(db, call.describe) \subseteq Quad /\ KeywordSearch(db, call.search) \subseteq Quad
    BY DEF Describe, KeywordSearch
  <2>2. Query(db, call.pattern, call.filter) \subseteq Quad
    BY <1>1 DEF Query
  <2>3. QED
    BY <2>1, <2>2 DEF Resolve
<1>3. QueryDataset(db, call.did, call.pattern) \subseteq Quad
  BY <1>1 DEF QueryDataset
<1>4. QueryBeamline(db, call.beamline, call.pattern) \subseteq Quad
  BY <1>1 DEF QueryBeamline
<1>5. Graphs(db) \subseteq GraphName
  BY DEF Graphs, Quad
<1>6. DatasetsForBeamline(db, call.beamline) \subseteq GraphName
  BY <1>5 DEF DatasetsForBeamline
<1>7. QED
  BY <1>2, <1>3, <1>4, <1>5, <1>6 DEF Rows, FoundNames

-----------------------------------------------------------------------------
(* A step of one request keeps the invariant, if that request keeps its     *)
(* part of it.  What was promised is still promised, and of the same        *)
(* requests.                                                                *)

Kept ==
    /\ promised \subseteq promised'
    /\ \A w \in promised : req'[w] = req[w]

LEMMA StepKeeps ==
    ASSUME IInv, NEW r \in Requests, NEW new, Becomes(r, new), req[r].pc # "answered",
           db \subseteq db', db' \subseteq Quad, ObservationsComplete',
           Good(new, db'),
           promised' = promised \/ (promised' = promised \cup {r} /\ Worth(new, db')),
           late' \subseteq [graph : GraphName, batch : SUBSET Triple], LateLegal',
           restarts' = restarts
    PROVE  IInv' /\ Kept
<1>1. r \notin promised
  BY DEF IInv, PromisesWorth, Worth
<1>2. promised \subseteq Requests /\ restarts \in 0..MaxRestarts
  BY DEF IInv, TypeOK
<1>3. Kept
  BY <1>1, <1>2 DEF Kept, Becomes
<1>4. TypeOK'
  <2>1. req' \in [Requests -> RequestType]
    BY RecordTypeIs DEF Becomes, ReqType
  <2>2. QED
    BY <1>2, <2>1 DEF TypeOK
<1>5. RequestsGood'
  <2>1. ASSUME NEW q \in Requests
        PROVE  Good(req'[q], db')
    <3>1. CASE q = r
      BY <3>1 DEF Becomes
    <3>2. CASE q # r
      <4>1. Good(req[q], db)
        BY DEF IInv, RequestsGood
      <4>2. req'[q] = req[q]
        BY <3>2 DEF Becomes
      <4>3. QED
        BY <4>1, <4>2, GoodGrows
    <3>3. QED
      BY <3>1, <3>2
  <2>2. QED
    BY <2>1 DEF RequestsGood
<1>6. PromisesWorth'
  <2>1. ASSUME NEW w \in promised
        PROVE  Worth(req'[w], db')
    <3>1. Worth(req[w], db)
      BY DEF IInv, PromisesWorth
    <3>2. QED
      BY <1>3, <3>1, GoodGrows DEF Kept
  <2>2. r \in promised' => Worth(req'[r], db')
    BY <1>1 DEF Becomes
  <2>3. QED
    BY <2>1, <2>2 DEF PromisesWorth
<1>7. QED
  BY <1>3, <1>4, <1>5, <1>6 DEF IInv

LEMMA QuietKeeps ==
    ASSUME IInv, NEW r \in Requests, NEW new, Becomes(r, new), req[r].pc # "answered",
           Good(new, db), UNCHANGED <<db, late, promised, restarts>>
    PROVE  IInv' /\ Kept
<1>1. db \subseteq Quad /\ late \subseteq [graph : GraphName, batch : SUBSET Triple]
  BY DEF IInv, TypeOK
<1>2. ObservationsComplete'
  BY DEF IInv, ObservationsComplete, StoredIn
<1>3. LateLegal'
  BY DEF IInv, LateLegal
<1>4. QED
  BY <1>1, <1>2, <1>3, StepKeeps

LEMMA RequestFacts ==
    ASSUME IInv, NEW r \in Requests
    PROVE  /\ req \in ReqType /\ req[r] \in RecordType
           /\ Good(req[r], db)
           /\ req[r].pc # "idle" =>
                  /\ req[r].call \in Calls
                  /\ req[r].call.op \in Scoped \cup Unscoped \cup Writes
                  /\ req[r].call.body \subseteq Triple
                  /\ GraphOf(req[r].call) \in GraphName
           /\ req[r].batch \subseteq Triple /\ req[r].todo \subseteq Triple
<1>1. req \in ReqType
  BY TypeOKIs DEF IInv
<1>2. req[r] \in RecordType
  BY <1>1 DEF ReqType
<1>3. Good(req[r], db)
  BY DEF IInv, RequestsGood
<1>4. req[r].pc # "idle" => req[r].call \in Calls
  BY <1>3 DEF Good
<1>5. req[r].batch \subseteq Triple /\ req[r].todo \subseteq Triple
  BY <1>2 DEF RecordType, BatchType
<1>6. QED
  BY <1>1, <1>2, <1>3, <1>4, <1>5, CallTypes

-----------------------------------------------------------------------------
(* The actions, up to the request to Oxigraph.                              *)

LEMMA SendKeeps ==
    ASSUME IInv, NEW r \in Requests, Send(r)
    PROVE  IInv' /\ Kept
<1> DEFINE todo(c) == IF c.op = "ingest" THEN c.body ELSE {}
<1>1. PICK c \in Calls :
        req' = [req EXCEPT ![r].pc = "received", ![r].call = c, ![r].before = promised,
                           ![r].todo = todo(c)]
  BY DEF Send
<1> DEFINE new == Sent(req[r], c, promised, todo(c))
<1>2. req[r].pc = "idle" /\ UNCHANGED <<db, late, promised, restarts>>
  BY DEF Send
<1>3. promised \in SUBSET Requests /\ todo(c) \in SUBSET Triple
  BY CallTypes DEF IInv, TypeOK
<1>4. Becomes(r, new)
  <2>1. new \in RecordType
    <3> HIDE DEF todo
    <3>1. QED
      BY <1>3, RequestFacts, RecordTypes DEF Sent
  <2>2. req' = [req EXCEPT ![r] = new]
    BY <1>1, RequestFacts DEF ReqType, Sent
  <2>3. QED
    BY <2>1, <2>2, Assign, RequestFacts
<1>5. Good(new, db)
  <2>1. /\ new.pc = "received" /\ new.call = c /\ new.todo = todo(c)
        /\ new.http = req[r].http
    BY RequestFacts DEF Sent, RecordType
  <2>2. req[r].http = "none"
    BY <1>2, RequestFacts DEF Good
  <2>3. c.op = "ingest" => Holds(db, GraphOf(c), c.body \ (new.failed \cup c.body))
    BY DEF Holds
  <2> HIDE DEF new
  <2>4. QED
    BY <2>1, <2>2, <2>3 DEF Good
<1>6. QED
  BY <1>2, <1>4, <1>5, QuietKeeps

LEMMA AnswerAssigns ==
    ASSUME NEW r \in Requests, NEW code, req \in ReqType, Answer(r, code)
    PROVE  req' = [req EXCEPT ![r] = Refused(req[r], code)]
BY DEF Answer, ReqType, Refused

LEMMA CutAssigns ==
    ASSUME NEW r \in Requests, NEW cut, req \in ReqType,
           req' = [req EXCEPT ![r].pc = "answered", ![r].code = 200, ![r].http = "none",
                              ![r].rows = cut]
    PROVE  req' = [req EXCEPT ![r] = RepliedCut(req[r], cut)]
<1> DEFINE half == [req EXCEPT ![r].pc = "answered", ![r].code = 200]
           first == [req[r] EXCEPT !.pc = "answered", !.code = 200]
<1>1. half = [req EXCEPT ![r] = first]
  BY DEF ReqType
<1>2. req' = [half EXCEPT ![r].http = "none", ![r].rows = cut]
  OBVIOUS
<1>3. RepliedCut(req[r], cut) = [first EXCEPT !.http = "none", !.rows = cut]
  BY DEF RepliedCut
<1>4. r \in DOMAIN req
  BY DEF ReqType
<1> HIDE DEF half, first
<1>5. [half EXCEPT ![r].http = "none", ![r].rows = cut]
      = [req EXCEPT ![r] = [first EXCEPT !.http = "none", !.rows = cut]]
  BY <1>1, <1>4
<1>6. QED
  BY <1>2, <1>3, <1>5

LEMMA AnswerKeeps ==
    ASSUME IInv, NEW r \in Requests, NEW code \in {400, 422}, req[r].pc = "received",
           Answer(r, code)
    PROVE  IInv' /\ Kept
<1> DEFINE new == Refused(req[r], code)
<1>1. Becomes(r, new)
  <2>1. new \in RecordType
    BY RequestFacts, RecordTypes DEF CodeType
  <2>2. req' = [req EXCEPT ![r] = new]
    BY RequestFacts, AnswerAssigns
  <2>3. QED
    BY <2>1, <2>2, Assign, RequestFacts
<1>2. Good(new, db)
  <2>1. /\ new.pc = "answered" /\ new.call = req[r].call /\ new.http = req[r].http
    BY RequestFacts DEF Refused, RecordType
  <2> HIDE DEF new
  <2>2. QED
    BY <2>1, RequestFacts DEF Good, Working
<1>3. QED
  BY <1>1, <1>2, QuietKeeps DEF Answer

LEMMA AskKeeps ==
    ASSUME IInv, NEW r \in Requests, NEW ts, req[r].pc = "received", Ask(r, ts),
           ts = {} \/ Legal(GraphOf(req[r].call), ts),
           req[r].call.op = "triples" => ts = req[r].call.body
    PROVE  IInv' /\ Kept
<1> DEFINE new == Asked(req[r], ts)
<1>1. Becomes(r, new)
  <2>1. ts \in SUBSET Triple
    <3>1. Legal(GraphOf(req[r].call), ts) => ts \subseteq Triple
      BY LegalType
    <3>2. QED
      BY <3>1
  <2>2. new \in RecordType
    BY <2>1, RequestFacts, RecordTypes
  <2>3. req' = [req EXCEPT ![r] = new]
    BY RequestFacts DEF Ask, ReqType, Asked
  <2>4. QED
    BY <2>2, <2>3, Assign, RequestFacts
<1>2. Good(new, db)
  <2>1. /\ new.pc = "waiting" /\ new.call = req[r].call /\ new.http = "sent"
        /\ new.batch = ts /\ new.todo = req[r].todo /\ new.failed = req[r].failed
    BY RequestFacts DEF Asked, RecordType
  <2> HIDE DEF new
  <2>2. QED
    BY <2>1, RequestFacts DEF Good, Working
<1>3. QED
  BY <1>1, <1>2, QuietKeeps DEF Ask

LEMMA TriplesUpdateKeeps ==
    ASSUME IInv, NEW r \in Requests, TriplesUpdate(r)
    PROVE  IInv' /\ Kept
<1> DEFINE call == req[r].call
<1>1. /\ req[r].pc = "received" /\ call.op = "triples"
      /\ Conforms(call) /\ Ask(r, call.body)
  BY DEF TriplesUpdate, Received
<1>2. call \in Calls
  BY <1>1, RequestFacts
<1>3. Complete(call.body)
  BY <1>1 DEF Conforms, ValidateForDataset, ValidateObservation, Complete
<1>4. Legal(GraphOf(call), call.body)
  BY <1>1, <1>2, <1>3 DEF Legal, WriteGraph, WriteBatch
<1>5. QED
  BY <1>1, <1>4, AskKeeps

LEMMA IngestUpdateKeeps ==
    ASSUME IInv, NEW r \in Requests, IngestUpdate(r)
    PROVE  IInv' /\ Kept
<1> DEFINE call == req[r].call
<1>1. PICK t \in req[r].todo : Ask(r, {t})
  BY DEF IngestUpdate
<1>2. req[r].pc = "received" /\ call.op = "ingest"
  BY DEF IngestUpdate, Received
<1>3. call \in Calls /\ t \in call.body
  BY <1>1, <1>2, RequestFacts DEF Good, Working
<1>4. Observations(call.body) = {}
  BY <1>2, <1>3, OxigraphServiceAssumption
<1>5. Complete({t})
  <2>1. Observations({t}) \subseteq Observations(call.body)
    BY <1>3 DEF Observations
  <2>2. QED
    BY <1>4, <2>1 DEF Complete
<1>6. {t} \in WriteBatch
  BY <1>2, <1>3 DEF WriteBatch
<1>7. Legal(GraphOf(call), {t})
  BY <1>3, <1>5, <1>6 DEF Legal, WriteGraph
<1>8. QED
  BY <1>1, <1>2, <1>7, AskKeeps

LEMMA QueryRequestKeeps ==
    ASSUME IInv, NEW r \in Requests, QueryRequest(r)
    PROVE  IInv' /\ Kept
<1>1. /\ req[r].pc = "received" /\ req[r].call.op \in Scoped \cup Unscoped
      /\ Ask(r, {})
  BY DEF QueryRequest, Received
<1>2. QED
  BY <1>1, AskKeeps DEF Scoped, Unscoped

-----------------------------------------------------------------------------
(* Oxigraph, and the connection to it.                                      *)

LEMMA ExecuteAssigns ==
    ASSUME NEW r \in Requests, req \in ReqType, Execute(r)
    PROVE  req' = [req EXCEPT ![r] =
                      Executed(req[r], Rows(req[r].call), FoundNames(req[r].call))]
BY DEF Execute, ReqType, Executed

LEMMA ExecuteKeeps ==
    ASSUME IInv, NEW r \in Requests, Execute(r)
    PROVE  IInv' /\ Kept
<1> DEFINE call == req[r].call
           g == GraphOf(call)
           ts == req[r].batch
           new == Executed(req[r], Rows(call), FoundNames(call))
<1>1. /\ req[r].http = "sent" /\ db' = InsertData(db, g, ts)
      /\ UNCHANGED <<late, promised, restarts>>
  BY DEF Execute
<1>2. req[r].pc = "waiting" /\ call \in Calls /\ g \in GraphName /\ ts \subseteq Triple
  BY <1>1, RequestFacts DEF Good
<1>3. db \subseteq Quad
  BY DEF IInv, TypeOK
<1>4. /\ db' \subseteq Quad
      /\ db \subseteq db'
      /\ Holds(db', g, ts)
  <2> HIDE DEF g, ts
  <2>1. QED
    BY <1>1, <1>2, <1>3, InsertDataType
<1>5. Becomes(r, new)
  <2>1. new \in RecordType
    BY <1>2, <1>3, RowsTypes, RequestFacts, RecordTypes
  <2>2. QED
    BY <2>1, Assign, RequestFacts, ExecuteAssigns
<1>6. Good(new, db')
  <2>1. /\ new.pc = req[r].pc /\ new.call = call /\ new.http = "done"
        /\ new.batch = ts /\ new.todo = req[r].todo /\ new.failed = req[r].failed
    BY RequestFacts DEF Executed, RecordType
  <2>2. Good(req[r], db')
    BY <1>4, RequestFacts, GoodGrows
  <2> HIDE DEF new
  <2>3. QED
    BY <1>1, <1>2, <1>4, <2>1, <2>2 DEF Good
<1>7. Complete(ts)
  <2>1. ts = {} \/ Legal(g, ts)
    BY <1>1, RequestFacts DEF Good
  <2>2. Complete({})
    BY DEF Complete, Observations
  <2>3. QED
    BY <2>1, <2>2 DEF Legal
<1>8. ObservationsComplete'
  <2> HIDE DEF g, ts
  <2>1. QED
    BY <1>1, <1>3, <1>7, InsertKeepsComplete DEF IInv
<1>9. late' \subseteq [graph : GraphName, batch : SUBSET Triple] /\ LateLegal'
  BY <1>1 DEF IInv, TypeOK, LateLegal
<1>10. QED
  BY <1>1, <1>2, <1>4, <1>5, <1>6, <1>8, <1>9, StepKeeps

LEMMA RejectKeeps ==
    ASSUME IInv, NEW r \in Requests, Reject(r)
    PROVE  IInv' /\ Kept
<1> DEFINE new == Rejected(req[r])
<1>1. req[r].http = "sent" /\ req[r].pc = "waiting"
  BY RequestFacts DEF Reject, Good
<1>2. Becomes(r, new)
  <2>1. new \in RecordType
    BY RequestFacts, RecordTypes
  <2>2. req' = [req EXCEPT ![r] = new]
    BY RequestFacts DEF Reject, ReqType, Rejected
  <2>3. QED
    BY <2>1, <2>2, Assign, RequestFacts
<1>3. Good(new, db)
  <2>1. /\ new.pc = req[r].pc /\ new.call = req[r].call /\ new.http = "failed"
        /\ new.batch = req[r].batch /\ new.todo = req[r].todo
        /\ new.failed = req[r].failed \cup req[r].batch
    BY RequestFacts DEF Rejected, RecordType
  <2> HIDE DEF new
  <2>2. QED
    BY <1>1, <2>1, RequestFacts DEF Good, Holds
<1>4. QED
  BY <1>1, <1>2, <1>3, QuietKeeps DEF Reject

LEMMA TimesOutKeeps ==
    ASSUME IInv, NEW r \in Requests, TimesOut(r)
    PROVE  IInv' /\ Kept
<1> DEFINE new == TimedOut(req[r])
<1>1. req[r].http \in {"sent", "done"} /\ req[r].pc = "waiting"
  BY RequestFacts DEF TimesOut, Good
<1>2. /\ late' = late \cup IF req[r].http = "sent" /\ req[r].batch # {} THEN {Update(r)} ELSE {}
      /\ UNCHANGED <<db, promised, restarts>>
  BY DEF TimesOut
<1>3. Becomes(r, new)
  <2>1. new \in RecordType
    BY RequestFacts, RecordTypes
  <2>2. req' = [req EXCEPT ![r] = new]
    BY RequestFacts DEF TimesOut, ReqType, TimedOut
  <2>3. QED
    BY <2>1, <2>2, Assign, RequestFacts
<1>4. Good(new, db)
  <2>1. /\ new.pc = req[r].pc /\ new.call = req[r].call /\ new.http = "failed"
        /\ new.batch = req[r].batch /\ new.todo = req[r].todo
        /\ new.failed = req[r].failed \cup req[r].batch
    BY RequestFacts DEF TimedOut, RecordType
  <2> HIDE DEF new
  <2>2. QED
    BY <1>1, <2>1, RequestFacts DEF Good, Holds
<1>5. ASSUME req[r].http = "sent", req[r].batch # {}
      PROVE  /\ Update(r) \in [graph : GraphName, batch : SUBSET Triple]
             /\ Legal(Update(r).graph, Update(r).batch)
  BY <1>1, <1>5, RequestFacts DEF Update, Good
<1>6. late' \subseteq [graph : GraphName, batch : SUBSET Triple] /\ LateLegal'
  BY <1>2, <1>5 DEF IInv, TypeOK, LateLegal
<1>7. db \subseteq Quad /\ ObservationsComplete'
  BY <1>2 DEF IInv, TypeOK, ObservationsComplete, StoredIn
<1>8. QED
  BY <1>1, <1>2, <1>3, <1>4, <1>6, <1>7, StepKeeps

LEMMA ExecuteLateKeeps ==
    ASSUME IInv, NEW u \in late, ExecuteLate(u)
    PROVE  IInv' /\ Kept
<1>1. /\ db' = InsertData(db, u.graph, u.batch)
      /\ late' = late \ {u}
      /\ UNCHANGED <<req, promised, restarts>>
  BY DEF ExecuteLate
<1>2. Legal(u.graph, u.batch)
  BY DEF IInv, LateLegal
<1>3. u.graph \in GraphName /\ u.batch \subseteq Triple
  BY <1>2, LegalType
<1>4. db \subseteq Quad
  BY DEF IInv, TypeOK
<1>5. db' \subseteq Quad /\ db \subseteq db'
  BY <1>1, <1>3, <1>4, InsertDataType
<1>6. ObservationsComplete'
  BY <1>1, <1>2, <1>4, InsertKeepsComplete DEF IInv, Legal
<1>7. TypeOK'
  BY <1>1, <1>5 DEF IInv, TypeOK
<1>8. RequestsGood'
  BY <1>1, <1>5, GoodGrows DEF IInv, RequestsGood
<1>9. PromisesWorth'
  BY <1>1, <1>5, GoodGrows DEF IInv, PromisesWorth
<1>10. LateLegal' /\ Kept
  BY <1>1 DEF IInv, LateLegal, Kept
<1>11. QED
  BY <1>6, <1>7, <1>8, <1>9, <1>10 DEF IInv

-----------------------------------------------------------------------------
(* The actions from the answer of Oxigraph on.                              *)

LEMMA ReplyAssigns ==
    ASSUME NEW r \in Requests, req \in ReqType, NEW c,
           req' = [req EXCEPT ![r].pc = "answered", ![r].code = c, ![r].http = "none"]
    PROVE  req' = [req EXCEPT ![r] = Replied(req[r], c)]
BY DEF ReqType, Replied

LEMMA RepliedGood ==
    ASSUME IInv, NEW r \in Requests, req[r].pc \in Working, NEW c \in CodeType,
           req' = [req EXCEPT ![r].pc = "answered", ![r].code = c, ![r].http = "none"]
    PROVE  /\ Becomes(r, Replied(req[r], c))
           /\ Good(Replied(req[r], c), db)
           /\ Replied(req[r], c).pc = "answered"
           /\ Replied(req[r], c).call = req[r].call
           /\ Replied(req[r], c).failed = req[r].failed
<1> DEFINE new == Replied(req[r], c)
<1>1. Becomes(r, new)
  <2>1. new \in RecordType
    BY RequestFacts, RecordTypes
  <2>2. QED
    BY <2>1, Assign, RequestFacts, ReplyAssigns
<1>2. /\ new.pc = "answered" /\ new.call = req[r].call /\ new.http = "none"
      /\ new.failed = req[r].failed
  BY RequestFacts DEF Replied, RecordType
<1>3. Good(new, db)
  <2> HIDE DEF new
  <2>1. QED
    BY <1>2, RequestFacts DEF Good, Working
<1>4. QED
  BY <1>1, <1>2, <1>3

LEMMA StoreErrorKeeps ==
    ASSUME IInv, NEW r \in Requests, StoreError(r)
    PROVE  IInv' /\ Kept
<1>1. /\ req[r].pc = "waiting"
      /\ req' = [req EXCEPT ![r].pc = "answered", ![r].code = 400, ![r].http = "none"]
      /\ UNCHANGED <<db, late, promised, restarts>>
  BY DEF StoreError
<1>2. Becomes(r, Replied(req[r], 400)) /\ Good(Replied(req[r], 400), db)
  <2>1. PICK c \in CodeType : c = 400
    BY DEF CodeType
  <2>2. req[r].pc \in Working
    BY <1>1 DEF Working
  <2>3. req' = [req EXCEPT ![r].pc = "answered", ![r].code = c, ![r].http = "none"]
    BY <1>1, <2>1
  <2>4. Becomes(r, Replied(req[r], c)) /\ Good(Replied(req[r], c), db)
    BY <2>2, <2>3, RepliedGood
  <2>5. QED
    BY <2>1, <2>4
<1>3. QED
  BY <1>1, <1>2, QuietKeeps

LEMMA FoundScopedKeeps ==
    ASSUME IInv, NEW r \in Requests, FoundScoped(r)
    PROVE  IInv' /\ Kept
<1>1. /\ req[r].pc = "waiting"
      /\ req' = [req EXCEPT ![r].pc = "answered", ![r].code = 200, ![r].http = "none"]
      /\ UNCHANGED <<db, late, promised, restarts>>
  BY DEF FoundScoped
<1>2. Becomes(r, Replied(req[r], 200)) /\ Good(Replied(req[r], 200), db)
  <2>1. PICK c \in CodeType : c = 200
    BY DEF CodeType
  <2>2. req[r].pc \in Working
    BY <1>1 DEF Working
  <2>3. req' = [req EXCEPT ![r].pc = "answered", ![r].code = c, ![r].http = "none"]
    BY <1>1, <2>1
  <2>4. Becomes(r, Replied(req[r], c)) /\ Good(Replied(req[r], c), db)
    BY <2>2, <2>3, RepliedGood
  <2>5. QED
    BY <2>1, <2>4
<1>3. QED
  BY <1>1, <1>2, QuietKeeps

LEMMA FoundUnscopedKeeps ==
    ASSUME IInv, NEW r \in Requests, FoundUnscoped(r)
    PROVE  IInv' /\ Kept
<1>1. req[r].pc = "waiting" /\ UNCHANGED <<db, late, promised, restarts>>
  BY DEF FoundUnscoped
<1>2. PICK cut \in Cuts(req[r].rows) :
        req' = [req EXCEPT ![r].pc = "answered", ![r].code = 200, ![r].http = "none",
                           ![r].rows = cut]
  BY DEF FoundUnscoped
<1> DEFINE new == RepliedCut(req[r], cut)
<1>3. cut \subseteq Quad
  <2>1. cut \subseteq req[r].rows
    BY <1>2 DEF Cuts
  <2>2. req[r].rows \subseteq Quad
    BY RequestFacts DEF RecordType, RowsType
  <2>3. QED
    BY <2>1, <2>2
<1>4. Becomes(r, new)
  <2>1. new \in RecordType
    BY <1>3, RequestFacts, RecordTypes
  <2>2. req' = [req EXCEPT ![r] = new]
    BY <1>2, RequestFacts, CutAssigns
  <2>3. QED
    BY <2>1, <2>2, Assign, RequestFacts
<1>5. Good(new, db)
  <2>1. new.pc = "answered" /\ new.call = req[r].call /\ new.http = "none"
    BY RequestFacts DEF RepliedCut, RecordType
  <2> HIDE DEF new
  <2>2. QED
    BY <1>1, <2>1, RequestFacts DEF Good, Working
<1>6. QED
  BY <1>1, <1>4, <1>5, QuietKeeps

LEMMA IngestContinuesKeeps ==
    ASSUME IInv, NEW r \in Requests, IngestContinues(r)
    PROVE  IInv' /\ Kept
<1> DEFINE new == Continued(req[r])
<1>1. /\ req[r].pc = "waiting" /\ req[r].call.op = "ingest"
      /\ req[r].http \in {"done", "failed"}
      /\ UNCHANGED <<db, late, promised, restarts>>
  BY DEF IngestContinues
<1>2. Becomes(r, new)
  <2>1. new \in RecordType
    BY RequestFacts, RecordTypes
  <2>2. req' = [req EXCEPT ![r] = new]
    BY RequestFacts DEF IngestContinues, ReqType, Continued
  <2>3. QED
    BY <2>1, <2>2, Assign, RequestFacts
<1>3. Good(new, db)
  <2>1. /\ new.pc = "received" /\ new.call = req[r].call /\ new.http = "none"
        /\ new.todo = req[r].todo \ req[r].batch /\ new.failed = req[r].failed
    BY RequestFacts DEF Continued, RecordType
  <2>2. /\ Holds(db, GraphOf(req[r].call),
                 req[r].call.body \ (req[r].failed \cup req[r].todo))
        /\ req[r].todo \subseteq req[r].call.body
    BY <1>1, RequestFacts DEF Good, Working
  <2>3. Holds(db, GraphOf(req[r].call), req[r].batch) \/ req[r].batch \subseteq req[r].failed
    BY <1>1, RequestFacts DEF Good
  <2>4. Holds(db, GraphOf(req[r].call),
              req[r].call.body \ (req[r].failed \cup (req[r].todo \ req[r].batch)))
    BY <2>2, <2>3 DEF Holds
  <2>5. req[r].call \in Calls
    BY <1>1, RequestFacts
  <2> HIDE DEF new
  <2>6. QED
    BY <1>1, <2>1, <2>2, <2>4, <2>5 DEF Good, Working
<1>4. QED
  BY <1>1, <1>2, <1>3, QuietKeeps

LEMMA CreatedKeeps ==
    ASSUME IInv, NEW r \in Requests, req[r].pc \in Working, Created(r),
           Holds(db, GraphOf(req[r].call),
                 req[r].call.body \ IF req[r].call.op = "ingest" THEN req[r].failed ELSE {})
    PROVE  IInv' /\ Kept
<1> DEFINE new == Replied(req[r], 201)
<1>1. /\ req' = [req EXCEPT ![r].pc = "answered", ![r].code = 201, ![r].http = "none"]
      /\ promised' = promised \cup {r}
      /\ UNCHANGED <<db, late, restarts>>
  BY DEF Created
<1>2. /\ Becomes(r, new) /\ Good(new, db)
      /\ new.pc = "answered" /\ new.call = req[r].call /\ new.failed = req[r].failed
  <2>1. PICK c \in CodeType : c = 201
    BY DEF CodeType
  <2>2. req' = [req EXCEPT ![r].pc = "answered", ![r].code = c, ![r].http = "none"]
    BY <1>1, <2>1
  <2>3. /\ Becomes(r, Replied(req[r], c)) /\ Good(Replied(req[r], c), db)
        /\ Replied(req[r], c).pc = "answered"
        /\ Replied(req[r], c).call = req[r].call
        /\ Replied(req[r], c).failed = req[r].failed
    BY <2>2, RepliedGood
  <2>4. QED
    BY <2>1, <2>3
<1>3. Worth(new, db)
  <2> HIDE DEF new
  <2>1. QED
    BY <1>2 DEF Worth
<1>4. db \subseteq Quad /\ late' \subseteq [graph : GraphName, batch : SUBSET Triple]
  BY <1>1 DEF IInv, TypeOK
<1>5. ObservationsComplete' /\ LateLegal'
  BY <1>1 DEF IInv, ObservationsComplete, StoredIn, LateLegal
<1>6. req[r].pc # "answered"
  BY DEF Working
<1> HIDE DEF new
<1>7. QED
  BY <1>1, <1>2, <1>3, <1>4, <1>5, <1>6, StepKeeps

LEMMA TriplesCreatedKeeps ==
    ASSUME IInv, NEW r \in Requests, TriplesCreated(r)
    PROVE  IInv' /\ Kept
<1> DEFINE call == req[r].call
<1>1. Created(r)
  BY DEF TriplesCreated
<1>2. CASE Received(r, {"triples"}) /\ call.body = {}
  <2>1. req[r].pc \in Working /\ call.op = "triples"
    BY <1>2 DEF Received, Working
  <2>2. Holds(db, GraphOf(call), call.body \ IF call.op = "ingest" THEN req[r].failed ELSE {})
    BY <1>2 DEF Holds
  <2>3. QED
    BY <1>1, <2>1, <2>2, CreatedKeeps
<1>3. CASE req[r].pc = "waiting" /\ call.op = "triples" /\ req[r].http = "done"
  <2>1. req[r].pc \in Working
    BY <1>3 DEF Working
  <2>2. Holds(db, GraphOf(call), call.body)
    BY <1>3, RequestFacts DEF Good
  <2>3. Holds(db, GraphOf(call), call.body \ IF call.op = "ingest" THEN req[r].failed ELSE {})
    BY <1>3, <2>2 DEF Holds
  <2>4. QED
    BY <1>1, <2>1, <2>3, CreatedKeeps
<1>4. QED
  BY <1>2, <1>3 DEF TriplesCreated

LEMMA IngestCreatedKeeps ==
    ASSUME IInv, NEW r \in Requests, IngestCreated(r)
    PROVE  IInv' /\ Kept
<1> DEFINE call == req[r].call
<1>1. /\ req[r].pc = "received" /\ call.op = "ingest" /\ req[r].todo = {}
      /\ Created(r)
  BY DEF IngestCreated, Received
<1>2. req[r].pc \in Working
  BY <1>1 DEF Working
<1>3. Holds(db, GraphOf(call), call.body \ (req[r].failed \cup req[r].todo))
  <2>1. Good(req[r], db)
    BY RequestFacts
  <2>2. QED
    BY <1>1, <1>2, <2>1 DEF Good
<1>4. Holds(db, GraphOf(call), call.body \ IF call.op = "ingest" THEN req[r].failed ELSE {})
  BY <1>1, <1>3 DEF Holds
<1>5. QED
  BY <1>1, <1>2, <1>4, CreatedKeeps

-----------------------------------------------------------------------------
(* A restart drops the requests at work, and leaves their updates behind.   *)

LEMMA RestartKeeps ==
    ASSUME IInv, Restart
    PROVE  IInv' /\ Kept
<1>1. /\ restarts < MaxRestarts /\ restarts' = restarts + 1
      /\ late' = late \cup {Update(r) : r \in Abandoned}
      /\ UNCHANGED <<db, promised>>
  BY DEF Restart
<1>2. ASSUME NEW r \in Requests
      PROVE  req'[r] = IF req[r].pc \in Working THEN Dropped(req[r]) ELSE req[r]
  BY DEF Restart, Dropped
<1>3. req' \in ReqType
  <2>1. ASSUME NEW r \in Requests
        PROVE  req'[r] \in RecordType
    BY <1>2, RequestFacts, RecordTypes
  <2>2. req' = [r \in Requests |-> req'[r]]
    BY DEF Restart
  <2>3. QED
    BY <2>1, <2>2 DEF ReqType
<1>4. RequestsGood'
  <2>1. ASSUME NEW r \in Requests
        PROVE  Good(req'[r], db)
    <3>1. CASE req[r].pc \in Working
      <4> DEFINE new == Dropped(req[r])
      <4>1. new.pc = "dropped" /\ new.call = req[r].call /\ new.http = "none"
        BY RequestFacts DEF Dropped, RecordType
      <4>2. req[r].call \in Calls
        BY <3>1, RequestFacts DEF Working
      <4> HIDE DEF new
      <4>3. Good(new, db)
        BY <4>1, <4>2 DEF Good, Working
      <4>4. QED
        BY <1>2, <3>1, <4>3 DEF new
    <3>2. CASE req[r].pc \notin Working
      BY <1>2, <3>2, RequestFacts
    <3>3. QED
      BY <3>1, <3>2
  <2>2. QED
    BY <1>1, <2>1 DEF RequestsGood
<1>5. Kept
  <2>1. ASSUME NEW w \in promised
        PROVE  req'[w] = req[w]
    <3>1. req[w].pc = "answered" /\ w \in Requests
      BY DEF IInv, PromisesWorth, Worth, TypeOK
    <3>2. QED
      BY <1>2, <3>1 DEF Working
  <2>2. QED
    BY <1>1, <2>1 DEF Kept
<1>6. PromisesWorth'
  BY <1>1, <1>5 DEF IInv, PromisesWorth, Kept
<1>7. ASSUME NEW r \in Abandoned
      PROVE  /\ Update(r) \in [graph : GraphName, batch : SUBSET Triple]
             /\ Legal(Update(r).graph, Update(r).batch)
  <2>1. r \in Requests /\ req[r].http = "sent" /\ req[r].batch # {}
    BY DEF Abandoned
  <2>2. QED
    BY <2>1, RequestFacts DEF Update, Good
<1>8. late' \subseteq [graph : GraphName, batch : SUBSET Triple] /\ LateLegal'
  BY <1>1, <1>7 DEF IInv, TypeOK, LateLegal
<1>9. TypeOK'
  <2>1. restarts' \in 0..MaxRestarts
    BY <1>1, OxigraphServiceAssumption DEF IInv, TypeOK
  <2>2. req' \in [Requests -> RequestType]
    BY <1>3, RecordTypeIs DEF ReqType
  <2>3. QED
    BY <1>1, <1>8, <2>1, <2>2 DEF IInv, TypeOK
<1>10. ObservationsComplete'
  BY <1>1 DEF IInv, ObservationsComplete, StoredIn
<1>11. QED
  BY <1>4, <1>5, <1>6, <1>8, <1>9, <1>10 DEF IInv

-----------------------------------------------------------------------------
(* The invariant is inductive.                                              *)

LEMMA InvInit == Init => IInv
<1> SUFFICES ASSUME Init
             PROVE  IInv
  OBVIOUS
<1>1. Idle \in RequestType
  BY DEF Idle, RequestType
<1>2. TypeOK
  BY <1>1, OxigraphServiceAssumption DEF Init, TypeOK
<1>3. RequestsGood
  <2>1. Idle.pc = "idle" /\ Idle.http = "none"
    BY DEF Idle
  <2>2. Good(Idle, db)
    BY <2>1 DEF Good, Working
  <2>3. QED
    BY <2>2 DEF Init, RequestsGood
<1>4. PromisesWorth /\ LateLegal
  BY DEF Init, PromisesWorth, LateLegal
<1>5. ObservationsComplete
  BY DEF Init, ObservationsComplete, Graphs
<1>6. QED
  BY <1>2, <1>3, <1>4, <1>5 DEF IInv

LEMMA NextKeeps ==
    ASSUME IInv, [Next]_vars
    PROVE  IInv' /\ Kept
<1>1. ASSUME NEW r \in Requests, BadRequest(r)
      PROVE  IInv' /\ Kept
  BY <1>1, AnswerKeeps DEF BadRequest
<1>2. ASSUME NEW r \in Requests, Unprocessable(r)
      PROVE  IInv' /\ Kept
  BY <1>2, AnswerKeeps DEF Unprocessable, Received
<1>3. ASSUME NEW r \in Requests, Serve(r)
      PROVE  IInv' /\ Kept
  BY <1>1, <1>2, <1>3, TriplesUpdateKeeps, IngestUpdateKeeps, QueryRequestKeeps,
     TimesOutKeeps, TriplesCreatedKeeps, IngestContinuesKeeps, IngestCreatedKeeps,
     StoreErrorKeeps, FoundScopedKeeps, FoundUnscopedKeeps DEF Serve
<1>4. CASE Oxigraph
  BY <1>4, ExecuteKeeps, RejectKeeps DEF Oxigraph
<1>5. CASE UNCHANGED vars
  BY <1>5 DEF vars, IInv, TypeOK, RequestsGood, PromisesWorth, LateLegal,
              ObservationsComplete, StoredIn, Kept
<1>6. QED
  BY <1>3, <1>4, <1>5, SendKeeps, ExecuteLateKeeps, RestartKeeps DEF Next

-----------------------------------------------------------------------------
(* The theorems.                                                            *)

LEMMA Invariance == Spec => []IInv
<1>1. Init => IInv
  BY InvInit
<1>2. IInv /\ [Next]_vars => IInv'
  BY NextKeeps
<1>3. QED
  BY <1>1, <1>2, PTL DEF Spec

(* Every variable has its type: in particular Oxigraph holds quads only,    *)
(* and answers only those codes that the routes have.                       *)
THEOREM TypeCorrect == Spec => []TypeOK
<1>1. IInv => TypeOK
  BY DEF IInv
<1>2. QED
  BY <1>1, Invariance, PTL

LEMMA PromisesStored == IInv => CreatedIsStored
<1> SUFFICES ASSUME IInv, NEW w \in promised
             PROVE  LET call == req[w].call IN
                    call.body \subseteq
                        StoredIn(GraphOf(call))
                        \cup (IF call.op = "ingest" THEN req[w].failed ELSE {})
  BY DEF CreatedIsStored
<1> DEFINE call == req[w].call
           g == GraphOf(call)
           lost == IF call.op = "ingest" THEN req[w].failed ELSE {}
<1>1. Holds(db, g, call.body \ lost)
  BY DEF IInv, PromisesWorth, Worth
<1>2. ASSUME NEW t \in call.body \ lost
      PROVE  t \in StoredIn(g)
  <2>1. <<g, t>> \in db
    BY <1>1 DEF Holds
  <2> HIDE DEF g
  <2>2. <<g, t>> \in {p \in db : p[1] = g} /\ <<g, t>>[2] = t
    BY <2>1
  <2>3. QED
    BY <2>2 DEF StoredIn
<1>3. QED
  BY <1>2

(* What was answered 201 is stored, for good: all of a dataset write, and   *)
(* of an ingest all that did not report an error, which Insert() drops.     *)
THEOREM AcknowledgedIsStored == Spec => []CreatedIsStored
<1>1. QED
  BY Invariance, PromisesStored, PTL

(* No update that was given up and comes late, and no ingest that failed    *)
(* half-way, leaves a typed observation without its required properties.    *)
THEOREM ObservationsStayComplete == Spec => []ObservationsComplete
<1>1. IInv => ObservationsComplete
  BY DEF IInv
<1>2. QED
  BY <1>1, Invariance, PTL

-----------------------------------------------------------------------------
(* The refinement.                                                          *)

Acknowledged ==
    UNION {{<<GraphOf(req[w].call), t>> : t \in req[w].call.body} :
             w \in {v \in promised : req[v].call.op = "triples"}}

LEMMA AcknowledgedKept ==
    ASSUME Kept
    PROVE  Acknowledged \subseteq Acknowledged'
<1> SUFFICES ASSUME NEW q \in Acknowledged
             PROVE  q \in Acknowledged'
  OBVIOUS
<1>1. PICK w \in promised :
        /\ req[w].call.op = "triples"
        /\ q \in {<<GraphOf(req[w].call), t>> : t \in req[w].call.body}
  BY DEF Acknowledged
<1>2. w \in promised' /\ req'[w] = req[w]
  BY DEF Kept
<1>3. /\ req'[w].call.op = "triples"
      /\ q \in {<<GraphOf(req'[w].call), t>> : t \in req'[w].call.body}
  BY <1>1, <1>2
<1>4. QED
  BY <1>2, <1>3 DEF Acknowledged

LEMMA AcknowledgedHeld == IInv => Acknowledged \subseteq db
<1> SUFFICES ASSUME IInv, NEW q \in Acknowledged
             PROVE  q \in db
  OBVIOUS
<1>1. PICK w \in promised :
        /\ req[w].call.op = "triples"
        /\ q \in {<<GraphOf(req[w].call), t>> : t \in req[w].call.body}
  BY DEF Acknowledged
<1>2. PICK t \in req[w].call.body : q = <<GraphOf(req[w].call), t>>
  BY <1>1
<1>3. Holds(db, GraphOf(req[w].call), req[w].call.body)
  BY <1>1 DEF IInv, PromisesWorth, Worth, Holds
<1>4. QED
  BY <1>2, <1>3 DEF Holds

(* No write is answered in the step that stores something.                  *)
LEMMA InsertSteps ==
    ASSUME IInv, [Next]_vars
    PROVE  \/ UNCHANGED db
           \/ /\ \E g \in WriteGraph, ts \in WriteBatch : db' = InsertData(db, g, ts)
              /\ Acknowledged' = Acknowledged
<1>1. ASSUME NEW r \in Requests, Execute(r)
      PROVE  \/ UNCHANGED db
             \/ /\ \E g \in WriteGraph, ts \in WriteBatch : db' = InsertData(db, g, ts)
                /\ Acknowledged' = Acknowledged
  <2> DEFINE g == GraphOf(req[r].call)
             ts == req[r].batch
  <2>1. db' = InsertData(db, g, ts) /\ UNCHANGED promised /\ req[r].http = "sent"
    BY <1>1 DEF Execute
  <2>2. ts = {} \/ Legal(g, ts)
    BY <2>1, RequestFacts DEF Good
  <2>3. CASE ts = {}
    BY <2>1, <2>3 DEF InsertData
  <2>4. CASE Legal(g, ts)
    <3>1. \A w \in promised : req'[w] = req[w]
      BY <1>1, ExecuteKeeps DEF Kept
    <3>2. Acknowledged' = Acknowledged
      <4>1. {v \in promised' : req'[v].call.op = "triples"}
              = {v \in promised : req[v].call.op = "triples"}
        BY <2>1, <3>1
      <4>2. \A v \in promised :
              {<<GraphOf(req'[v].call), t>> : t \in req'[v].call.body}
                = {<<GraphOf(req[v].call), t>> : t \in req[v].call.body}
        BY <3>1
      <4>3. QED
        BY <2>1, <4>1, <4>2 DEF Acknowledged
    <3> HIDE DEF g, ts
    <3>3. QED
      BY <2>1, <2>4, <3>2 DEF Legal
  <2>5. QED
    BY <2>2, <2>3, <2>4
<1>2. ASSUME NEW u \in late, ExecuteLate(u)
      PROVE  /\ \E g \in WriteGraph, ts \in WriteBatch : db' = InsertData(db, g, ts)
             /\ Acknowledged' = Acknowledged
  <2>1. db' = InsertData(db, u.graph, u.batch) /\ UNCHANGED <<req, promised>>
    BY <1>2 DEF ExecuteLate
  <2>2. Legal(u.graph, u.batch)
    BY DEF IInv, LateLegal
  <2>3. QED
    BY <2>1, <2>2 DEF Legal, Acknowledged
<1>3. ASSUME NEW r \in Requests, Serve(r)
      PROVE  UNCHANGED db
  BY <1>3 DEF Serve, BadRequest, Unprocessable, Answer, TriplesUpdate, IngestUpdate,
              QueryRequest, Ask, TimesOut, TriplesCreated, IngestContinues, IngestCreated,
              Created, StoreError, FoundScoped, FoundUnscoped
<1>4. ASSUME NEW r \in Requests, Send(r) \/ Reject(r)
      PROVE  UNCHANGED db
  BY <1>4 DEF Send, Reject
<1>5. Restart \/ UNCHANGED vars => UNCHANGED db
  BY DEF Restart, vars
<1>6. QED
  BY <1>1, <1>2, <1>3, <1>4, <1>5 DEF Next, Oxigraph

(* The service over Oxigraph is a durable store, for every number of        *)
(* requests and restarts: a batch appears at once or never, nothing is      *)
(* taken away, and a dataset write is acknowledged only when it is stored.  *)
THEOREM ImplementsDurableStore == Spec => ImplementsGraphStore
<1>1. Init => Abstract!Init
  BY DEF Init, Abstract!Init
<1>2. IInv /\ IInv' /\ [Next]_vars => [Abstract!DurableNext]_(Abstract!storeVars)
  <2> SUFFICES ASSUME IInv, IInv', [Next]_vars
               PROVE  Abstract!DurableNext
    OBVIOUS
  <2>1. CASE UNCHANGED db
    <3>1. Acknowledged \subseteq Acknowledged'
      BY NextKeeps, AcknowledgedKept
    <3>2. (Acknowledged \subseteq db)'
      BY AcknowledgedHeld, PTL
    <3>3. Abstract!Acknowledge
      BY <2>1, <3>1, <3>2 DEF Abstract!Acknowledge, Acknowledged
    <3>4. QED
      BY <3>3 DEF Abstract!DurableNext
  <2>2. ASSUME NEW g \in WriteGraph, NEW ts \in WriteBatch, db' = InsertData(db, g, ts),
               Acknowledged' = Acknowledged
        PROVE  Abstract!DurableNext
    <3>1. Abstract!Insert(g, ts)
      BY <2>2 DEF Abstract!Insert, InsertData, Acknowledged
    <3>2. QED
      BY <3>1 DEF Abstract!DurableNext, WriteGraph, WriteBatch
  <2>3. QED
    BY <2>1, <2>2, InsertSteps
<1>3. QED
  BY <1>1, <1>2, Invariance, PTL DEF Spec, ImplementsGraphStore, Abstract!DurableSpec

-----------------------------------------------------------------------------
(* What a query finds.                                                      *)

Reads == Scoped \cup Unscoped

(* What a query finds of what another call wrote.                           *)
Finds(call, rows, names, written) ==
    IF call.op \in {"graphs", "allGraphs"}
    THEN written.body = {} \/ GraphOf(written) \in names
    ELSE written.body \subseteq {q[2] : q \in rows} \/ Cardinality(rows) = ResultLimit

(* q: the record of a request; rs: the records of them all.                 *)
FindsAll(q, rs) ==
    \A w \in q.before :
        rs[w].call.op = "triples" /\ InScope(q.call, rs[w].call.did) =>
            Finds(q.call, q.rows, q.names, rs[w].call)

FoundNothing(q) == q.rows = {} /\ q.names = {}

(* ps: the writes that are promised.  A request has found something from    *)
(* the time it is executed until it is given up.                            *)
ReadGood(q, rs, ps) ==
    /\ q.before \subseteq ps
    /\ q.pc = "waiting" => Accepted(q.call)
    /\ q.pc = "idle" => FoundNothing(q)
    /\ q.pc \in Working /\ q.http # "done" /\ q.call.op \in Reads => FoundNothing(q)
    /\ /\ q.http = "done" \/ (q.pc = "answered" /\ q.code = 200)
       /\ q.call.op \in Reads /\ PassesFilters(q.call.pattern)
       => \/ FindsAll(q, rs)
          \/ q.pc = "answered" /\ q.call.op \in Unscoped /\ FoundNothing(q)

ReadInv ==
    /\ \A r \in Requests : ReadGood(req[r], req, promised)
    /\ \A w \in promised : Accepted(req[w].call)

LEMMA ReadsSelect ==
    ASSUME NEW pattern, PassesFilters(pattern), NEW graphs, NEW q \in db, q[1] \in graphs
    PROVE  q \in Select(db, pattern, graphs)
BY DEF Select, MatchesTerms, PassesFilters

(* In an unfiltered query's rows is what any graph of its scope holds.      *)
LEMMA ExecutedFinds ==
    ASSUME NEW call \in Calls, call.op \in Reads, PassesFilters(call.pattern), Accepted(call),
           NEW written \in Calls, written.op = "triples", Accepted(written),
           InScope(call, written.did), Holds(db, GraphOf(written), written.body)
    PROVE  Finds(call, Rows(call), FoundNames(call), written)
<1> DEFINE g == GraphIRI(written.did)
<1>1. GraphOf(written) = g /\ ValidRef(written.beamline, written.did)
  BY DEF GraphOf, Accepted
<1>2. call.did \in Did /\ written.did \in Did
  BY OxigraphServiceAssumption DEF CallType
<1>3. g.bl = Lower[BeamlineSegment(written.did)]
  BY DEF GraphIRI
<1>4. \A t \in written.body : <<g, t>> \in db
  BY <1>1 DEF Holds
<1>5. written.body # {} => g \in Graphs(db)
  <2>1. ASSUME NEW t \in written.body
        PROVE  g \in Graphs(db)
    <3>1. <<g, t>> \in db /\ <<g, t>>[1] = g
      BY <1>4
    <3>2. QED
      BY <3>1 DEF Graphs
  <2>2. QED
    BY <2>1
<1> HIDE DEF g
<1>6. ASSUME NEW rows, \A t \in written.body : <<g, t>> \in rows
      PROVE  written.body \subseteq {q[2] : q \in rows}
  <2>1. ASSUME NEW t \in written.body
        PROVE  \E q \in rows : t = q[2]
    <3>1. <<g, t>> \in rows /\ t = <<g, t>>[2]
      BY <1>6
    <3>2. QED
      BY <3>1
  <2>2. QED
    BY <2>1
<1>7. ASSUME NEW graphs, written.body # {} => g \in graphs
      PROVE  \A t \in written.body : <<g, t>> \in Select(db, call.pattern, graphs)
  <2>1. ASSUME NEW t \in written.body
        PROVE  <<g, t>> \in Select(db, call.pattern, graphs)
    <3>1. <<g, t>> \in db /\ <<g, t>>[1] = g /\ g \in graphs
      BY <1>4, <1>7
    <3>2. QED
      BY <3>1, ReadsSelect
  <2>2. QED
    BY <2>1
<1>8. CASE call.op = "dataset"
  <2>1. g = GraphIRI(call.did)
    <3>1. Canonical(written.did) = Canonical(call.did)
      BY <1>8 DEF InScope
    <3>2. BeamlineSegment(call.did) \in ValidNames
      BY <1>8 DEF Accepted, ValidRef
    <3>3. BeamlineSegment(written.did) \in ValidNames
      BY <1>1 DEF ValidRef
    <3>4. QED
      BY <1>2, <3>1, <3>2, <3>3, OneGraph DEF g
  <2>2. Rows(call) = Select(db, call.pattern, {g})
    BY <1>8, <2>1 DEF Rows, QueryDataset
  <2>3. QED
    BY <1>6, <1>7, <1>8, <2>2 DEF Finds
<1>9. CASE call.op \in {"beamline", "graphs"}
  <2>1. g.bl = Lower[call.beamline]
    <3>1. Lower[BeamlineSegment(written.did)] = call.beamline
      BY <1>9 DEF InScope
    <3>2. call.beamline \in ValidNames
      BY <1>9 DEF Accepted
    <3>3. QED
      BY <1>3, <3>1, <3>2, NamesAssumption
  <2>2. written.body # {} => g \in DatasetsForBeamline(db, call.beamline)
    BY <1>5, <2>1 DEF DatasetsForBeamline
  <2>3. CASE call.op = "beamline"
    <3>1. Rows(call) = Select(db, call.pattern, DatasetsForBeamline(db, call.beamline))
      BY <2>3 DEF Rows, QueryBeamline
    <3>2. QED
      BY <1>6, <1>7, <2>2, <2>3, <3>1 DEF Finds
  <2>4. CASE call.op = "graphs"
    <3>1. FoundNames(call) = DatasetsForBeamline(db, call.beamline)
      BY <2>4 DEF FoundNames
    <3>2. QED
      BY <1>1, <2>2, <2>4, <3>1 DEF Finds, g
  <2>5. QED
    BY <1>9, <2>3, <2>4
<1>10. CASE call.op = "allGraphs"
  <2>1. FoundNames(call) = Graphs(db)
    BY <1>10 DEF FoundNames
  <2>2. QED
    BY <1>1, <1>5, <1>10, <2>1 DEF Finds, g
<1>11. CASE call.op = "global"
  <2>1. call.filter = {} /\ call.describe = Wildcard /\ call.search = Wildcard
    BY <1>11 DEF InScope
  <2>2. Rows(call) = Select(db, call.pattern, Graphs(db))
    BY <1>11, <2>1 DEF Rows, Resolve, Query
  <2>3. QED
    BY <1>5, <1>6, <1>7, <1>11, <2>2 DEF Finds
<1>12. QED
  BY <1>8, <1>9, <1>10, <1>11 DEF Reads, Scoped, Unscoped

(* What was cut off an answer was one row too many.                         *)
LEMMA CutFinds ==
    ASSUME NEW call, call.op \in Unscoped, NEW rows, NEW names, NEW written,
           NEW cut \in Cuts(rows), Finds(call, rows, names, written)
    PROVE  Finds(call, cut, names, written)
<1>1. cut = rows \/ Cardinality(cut) = ResultLimit
  BY DEF Cuts
<1>2. QED
  BY <1>1 DEF Finds

-----------------------------------------------------------------------------
(* Each step keeps what the requests know of the writes.                    *)

LEMMA ReadGoodStays ==
    ASSUME NEW q, NEW rs, NEW ss, NEW ps, NEW os, ReadGood(q, rs, ps),
           ps \subseteq os, \A w \in ps : ss[w] = rs[w]
    PROVE  ReadGood(q, ss, os)
<1>1. q.before \subseteq ps
  BY DEF ReadGood
<1>2. FindsAll(q, rs) => FindsAll(q, ss)
  <2>1. \A w \in q.before : ss[w] = rs[w]
    BY <1>1
  <2>2. QED
    BY <2>1 DEF FindsAll
<1>3. QED
  BY <1>1, <1>2 DEF ReadGood

(* A step of one request, which is promised only when it was accepted.      *)
LEMMA ReadStep ==
    ASSUME IInv, ReadInv, NEW r \in Requests, NEW new, Becomes(r, new), Kept,
           ReadGood(new, req, promised),
           promised' = promised \/ (promised' = promised \cup {r} /\ Accepted(new.call))
    PROVE  ReadInv'
<1>1. promised \subseteq promised' /\ \A w \in promised : req'[w] = req[w]
  BY DEF Kept
<1>2. ASSUME NEW q \in Requests
      PROVE  ReadGood(req'[q], req', promised')
  <2>1. CASE q = r
    <3>1. ReadGood(new, req', promised')
      BY <1>1, ReadGoodStays
    <3>2. QED
      BY <2>1, <3>1 DEF Becomes
  <2>2. CASE q # r
    <3>1. ReadGood(req[q], req, promised)
      BY DEF ReadInv
    <3>2. ReadGood(req[q], req', promised')
      BY <1>1, <3>1, ReadGoodStays
    <3>3. QED
      BY <2>2, <3>2 DEF Becomes
  <2>3. QED
    BY <2>1, <2>2
<1>3. ASSUME NEW w \in promised'
      PROVE  Accepted(req'[w].call)
  <2>1. CASE w \in promised
    <3>1. Accepted(req[w].call) /\ req'[w] = req[w]
      BY <1>1, <2>1 DEF ReadInv
    <3>2. QED
      BY <3>1
  <2>2. CASE w = r /\ Accepted(new.call)
    BY <2>2 DEF Becomes
  <2>3. QED
    BY <2>1, <2>2
<1>4. QED
  BY <1>2, <1>3 DEF ReadInv

LEMMA ReadFacts ==
    ASSUME IInv, ReadInv, NEW r \in Requests
    PROVE  /\ req[r] \in RecordType /\ Good(req[r], db)
           /\ ReadGood(req[r], req, promised)
           /\ req[r].before \subseteq promised
BY RequestFacts DEF ReadInv, ReadGood

LEMMA SendReads ==
    ASSUME IInv, ReadInv, NEW r \in Requests, Send(r)
    PROVE  ReadInv'
<1> DEFINE todo(c) == IF c.op = "ingest" THEN c.body ELSE {}
<1>1. PICK c \in Calls :
        req' = [req EXCEPT ![r].pc = "received", ![r].call = c, ![r].before = promised,
                           ![r].todo = todo(c)]
  BY DEF Send
<1> DEFINE new == Sent(req[r], c, promised, todo(c))
<1>2. req[r].pc = "idle" /\ UNCHANGED <<db, late, promised, restarts>>
  BY DEF Send
<1>3. Becomes(r, new)
  <2>1. promised \in SUBSET Requests /\ todo(c) \in SUBSET Triple
    BY CallTypes DEF IInv, TypeOK
  <2>2. new \in RecordType
    <3> HIDE DEF todo
    <3>1. QED
      BY <2>1, RequestFacts, RecordTypes DEF Sent
  <2>3. req' = [req EXCEPT ![r] = new]
    BY <1>1, RequestFacts DEF ReqType, Sent
  <2>4. QED
    BY <2>2, <2>3, Assign, RequestFacts
<1>4. ReadGood(new, req, promised)
  <2>1. /\ new.pc = "received" /\ new.before = promised /\ new.http = req[r].http
        /\ new.rows = req[r].rows /\ new.names = req[r].names
    BY ReadFacts DEF Sent, RecordType
  <2>2. FoundNothing(req[r]) /\ req[r].http = "none"
    BY <1>2, ReadFacts DEF ReadGood, Good
  <2> HIDE DEF new
  <2>3. QED
    BY <2>1, <2>2 DEF ReadGood, FoundNothing
<1>5. QED
  BY <1>2, <1>3, <1>4, SendKeeps, ReadStep

LEMMA AnswerReads ==
    ASSUME IInv, ReadInv, NEW r \in Requests, NEW code \in {400, 422},
           req[r].pc = "received", Answer(r, code)
    PROVE  ReadInv'
<1> DEFINE new == Refused(req[r], code)
<1>1. Becomes(r, new)
  <2>1. new \in RecordType
    BY RequestFacts, RecordTypes DEF CodeType
  <2>2. QED
    BY <2>1, Assign, RequestFacts, AnswerAssigns
<1>2. ReadGood(new, req, promised)
  <2>1. /\ new.pc = "answered" /\ new.before = req[r].before /\ new.http = req[r].http
        /\ new.code = code
    BY ReadFacts DEF Refused, RecordType
  <2>2. req[r].http = "none"
    BY ReadFacts DEF Good
  <2>3. code # 200
    OBVIOUS
  <2> HIDE DEF new
  <2>4. QED
    BY <2>1, <2>2, <2>3, ReadFacts DEF ReadGood, Working
<1>3. promised' = promised
  BY DEF Answer
<1>4. Kept
  BY AnswerKeeps
<1> HIDE DEF new
<1>5. QED
  BY <1>1, <1>2, <1>3, <1>4, ReadStep

LEMMA AskReads ==
    ASSUME IInv, ReadInv, NEW r \in Requests, NEW ts \in SUBSET Triple,
           req[r].pc = "received", Ask(r, ts), Accepted(req[r].call), Kept
    PROVE  ReadInv'
<1> DEFINE new == Asked(req[r], ts)
<1>1. Becomes(r, new)
  <2>1. new \in RecordType
    BY RequestFacts, RecordTypes
  <2>2. req' = [req EXCEPT ![r] = new]
    BY RequestFacts DEF Ask, ReqType, Asked
  <2>3. QED
    BY <2>1, <2>2, Assign, RequestFacts
<1>2. ReadGood(new, req, promised)
  <2>1. /\ new.pc = "waiting" /\ new.http = "sent" /\ new.call = req[r].call
        /\ new.before = req[r].before /\ new.rows = req[r].rows /\ new.names = req[r].names
    BY ReadFacts DEF Asked, RecordType
  <2>2. req[r].http = "none"
    BY ReadFacts DEF Good
  <2>3. req[r].call.op \in Reads => FoundNothing(req[r])
    BY <2>2, ReadFacts DEF ReadGood, Working
  <2> HIDE DEF new
  <2>4. QED
    BY <2>1, <2>3, ReadFacts DEF ReadGood, FoundNothing
<1>3. QED
  BY <1>1, <1>2, ReadStep DEF Ask

LEMMA RequestsAsked ==
    ASSUME IInv, ReadInv, NEW r \in Requests,
           TriplesUpdate(r) \/ IngestUpdate(r) \/ QueryRequest(r)
    PROVE  ReadInv'
<1>1. Kept /\ req[r].pc = "received"
  BY TriplesUpdateKeeps, IngestUpdateKeeps, QueryRequestKeeps
  DEF TriplesUpdate, IngestUpdate, QueryRequest, Received
<1>2. Accepted(req[r].call)
  BY DEF TriplesUpdate, IngestUpdate, QueryRequest, Received, Accepted
<1>3. \E ts \in SUBSET Triple : Ask(r, ts)
  <2>1. req[r].call.body \subseteq Triple /\ req[r].todo \subseteq Triple
    BY <1>1, RequestFacts
  <2>2. QED
    BY <2>1 DEF TriplesUpdate, IngestUpdate, QueryRequest
<1>4. QED
  BY <1>1, <1>2, <1>3, AskReads

LEMMA ExecuteReads ==
    ASSUME IInv, ReadInv, NEW r \in Requests, Execute(r)
    PROVE  ReadInv'
<1> DEFINE call == req[r].call
           new == Executed(req[r], Rows(call), FoundNames(call))
<1>1. req[r].http = "sent" /\ req[r].pc = "waiting" /\ promised' = promised
  BY ReadFacts DEF Execute, Good
<1>2. call \in Calls /\ Accepted(call)
  BY <1>1, ReadFacts DEF ReadGood, Good
<1>3. Becomes(r, new)
  <2>1. db \subseteq Quad
    BY DEF IInv, TypeOK
  <2>2. new \in RecordType
    BY <1>2, <2>1, RowsTypes, RequestFacts, RecordTypes
  <2>3. QED
    BY <2>2, Assign, RequestFacts, ExecuteAssigns
<1>4. ASSUME call.op \in Reads, PassesFilters(call.pattern), NEW w \in req[r].before,
             req[w].call.op = "triples", InScope(call, req[w].call.did)
      PROVE  Finds(call, Rows(call), FoundNames(call), req[w].call)
  <2>1. w \in promised /\ w \in Requests
    BY ReadFacts DEF IInv, TypeOK
  <2>2. Worth(req[w], db) /\ Accepted(req[w].call)
    BY <2>1 DEF IInv, PromisesWorth, ReadInv
  <2>3. Holds(db, GraphOf(req[w].call), req[w].call.body)
    BY <1>4, <2>2 DEF Worth, Holds
  <2>4. req[w].call \in Calls
    BY <2>1, <2>2, RequestFacts DEF Worth
  <2>5. QED
    BY <1>2, <1>4, <2>2, <2>3, <2>4, ExecutedFinds
<1>5. ReadGood(new, req, promised)
  <2>1. /\ new.pc = "waiting" /\ new.http = "done" /\ new.call = call
        /\ new.before = req[r].before /\ new.rows = Rows(call) /\ new.names = FoundNames(call)
    BY <1>1, ReadFacts DEF Executed, RecordType
  <2> HIDE DEF new
  <2>2. call.op \in Reads /\ PassesFilters(call.pattern) => FindsAll(new, req)
    BY <1>4, <2>1 DEF FindsAll
  <2>3. QED
    BY <1>2, <2>1, <2>2, ReadFacts DEF ReadGood
<1>6. QED
  BY <1>1, <1>3, <1>5, ExecuteKeeps, ReadStep

LEMMA RejectReads ==
    ASSUME IInv, ReadInv, NEW r \in Requests, Reject(r)
    PROVE  ReadInv'
<1> DEFINE new == Rejected(req[r])
<1>1. req[r].http = "sent" /\ req[r].pc = "waiting" /\ promised' = promised
  BY RequestFacts DEF Reject, Good
<1>2. Becomes(r, new)
  <2>1. req' = [req EXCEPT ![r] = new]
    BY RequestFacts DEF Reject, ReqType, Rejected
  <2>2. QED
    BY <2>1, Assign, RequestFacts, RecordTypes
<1>3. ReadGood(new, req, promised)
  <2>1. /\ new.pc = req[r].pc /\ new.http = "failed" /\ new.call = req[r].call
        /\ new.before = req[r].before /\ new.rows = req[r].rows /\ new.names = req[r].names
    BY ReadFacts DEF Rejected, RecordType
  <2> HIDE DEF new
  <2>2. QED
    BY <1>1, <2>1, ReadFacts DEF ReadGood, FoundNothing
<1>4. QED
  BY <1>1, <1>2, <1>3, RejectKeeps, ReadStep

LEMMA TimesOutReads ==
    ASSUME IInv, ReadInv, NEW r \in Requests, TimesOut(r)
    PROVE  ReadInv'
<1> DEFINE new == TimedOut(req[r])
<1>1. req[r].http \in {"sent", "done"} /\ req[r].pc = "waiting" /\ promised' = promised
  BY RequestFacts DEF TimesOut, Good
<1>2. Becomes(r, new)
  <2>1. req' = [req EXCEPT ![r] = new]
    BY RequestFacts DEF TimesOut, ReqType, TimedOut
  <2>2. QED
    BY <2>1, Assign, RequestFacts, RecordTypes
<1>3. ReadGood(new, req, promised)
  <2>1. /\ new.pc = req[r].pc /\ new.http = "failed" /\ new.call = req[r].call
        /\ new.before = req[r].before /\ new.rows = {} /\ new.names = {}
    BY ReadFacts DEF TimedOut, RecordType
  <2> HIDE DEF new
  <2>2. QED
    BY <1>1, <2>1, ReadFacts DEF ReadGood, FoundNothing
<1>4. QED
  BY <1>1, <1>2, <1>3, TimesOutKeeps, ReadStep

LEMMA ExecuteLateReads ==
    ASSUME ReadInv, NEW u \in late, ExecuteLate(u)
    PROVE  ReadInv'
<1>1. UNCHANGED <<req, promised>>
  BY DEF ExecuteLate
<1>2. QED
  BY <1>1 DEF ReadInv

(* Answers that are not of a query, or cut nothing off.                     *)
LEMMA ReplyReads ==
    ASSUME IInv, ReadInv, NEW r \in Requests, req[r].pc \in Working, NEW c \in CodeType,
           req' = [req EXCEPT ![r].pc = "answered", ![r].code = c, ![r].http = "none"],
           c = 200 => req[r].pc = "waiting" /\ req[r].http = "done",
           Kept, promised' = promised \/ (promised' = promised \cup {r} /\ Accepted(req[r].call))
    PROVE  ReadInv'
<1> DEFINE new == Replied(req[r], c)
<1>1. Becomes(r, new)
  BY RepliedGood
<1>2. /\ new.pc = "answered" /\ new.http = "none" /\ new.call = req[r].call /\ new.code = c
      /\ new.before = req[r].before /\ new.rows = req[r].rows /\ new.names = req[r].names
  BY ReadFacts DEF Replied, RecordType
<1> HIDE DEF new
<1>3. ReadGood(new, req, promised)
  <2>1. c = 200 /\ new.call.op \in Reads /\ PassesFilters(new.call.pattern)
          => FindsAll(req[r], req)
    BY <1>2, ReadFacts DEF ReadGood
  <2>2. FindsAll(req[r], req) => FindsAll(new, req)
    BY <1>2 DEF FindsAll
  <2>3. QED
    BY <1>2, <2>1, <2>2, ReadFacts DEF ReadGood, Working
<1>4. QED
  BY <1>1, <1>2, <1>3, ReadStep

LEMMA RepliesRead ==
    ASSUME IInv, ReadInv, NEW r \in Requests,
           TriplesCreated(r) \/ IngestCreated(r) \/ StoreError(r) \/ FoundScoped(r)
    PROVE  ReadInv'
<1>1. Kept
  BY TriplesCreatedKeeps, IngestCreatedKeeps, StoreErrorKeeps, FoundScopedKeeps
<1>2. CASE TriplesCreated(r) \/ IngestCreated(r)
  <2>1. /\ req' = [req EXCEPT ![r].pc = "answered", ![r].code = 201, ![r].http = "none"]
        /\ promised' = promised \cup {r}
    BY <1>2 DEF TriplesCreated, IngestCreated, Created
  <2>2. req[r].pc \in Working
    BY <1>2 DEF TriplesCreated, IngestCreated, Received, Working
  <2>3. Accepted(req[r].call)
    BY <1>2, ReadFacts DEF TriplesCreated, IngestCreated, Received, ReadGood, Accepted
  <2>4. PICK c \in CodeType : c = 201
    BY DEF CodeType
  <2>5. req' = [req EXCEPT ![r].pc = "answered", ![r].code = c, ![r].http = "none"]
    BY <2>1, <2>4
  <2>6. c # 200
    BY <2>4
  <2>7. promised' = promised \cup {r}
    BY <2>1
  <2>8. QED
    BY <1>1, <2>2, <2>3, <2>5, <2>6, <2>7, ReplyReads
<1>3. CASE StoreError(r)
  <2>1. PICK c \in CodeType : c = 400
    BY DEF CodeType
  <2>2. /\ req' = [req EXCEPT ![r].pc = "answered", ![r].code = c, ![r].http = "none"]
        /\ promised' = promised
        /\ req[r].pc \in Working
    BY <1>3, <2>1 DEF StoreError, Working
  <2>3. c # 200
    BY <2>1
  <2>4. QED
    BY <1>1, <2>2, <2>3, ReplyReads
<1>4. CASE FoundScoped(r)
  <2>1. PICK c \in CodeType : c = 200
    BY DEF CodeType
  <2>2. /\ req' = [req EXCEPT ![r].pc = "answered", ![r].code = c, ![r].http = "none"]
        /\ promised' = promised
        /\ req[r].pc = "waiting" /\ req[r].pc \in Working /\ req[r].http = "done"
    BY <1>4, <2>1 DEF FoundScoped, Working
  <2>3. QED
    BY <1>1, <2>1, <2>2, ReplyReads
<1>5. QED
  BY <1>2, <1>3, <1>4

LEMMA FoundUnscopedReads ==
    ASSUME IInv, ReadInv, NEW r \in Requests, FoundUnscoped(r)
    PROVE  ReadInv'
<1>1. /\ req[r].pc = "waiting" /\ req[r].call.op \in Unscoped /\ promised' = promised
      /\ req[r].http \in {"done", "failed"}
  BY DEF FoundUnscoped
<1>2. PICK cut \in Cuts(req[r].rows) :
        req' = [req EXCEPT ![r].pc = "answered", ![r].code = 200, ![r].http = "none",
                           ![r].rows = cut]
  BY DEF FoundUnscoped
<1> DEFINE new == RepliedCut(req[r], cut)
<1>3. cut \subseteq req[r].rows
  BY <1>2 DEF Cuts
<1>4. Becomes(r, new)
  <2>1. cut \in SUBSET Quad
    BY <1>3, RequestFacts DEF RecordType, RowsType
  <2>2. new \in RecordType
    BY <2>1, RequestFacts, RecordTypes
  <2>3. req' = [req EXCEPT ![r] = new]
    BY <1>2, RequestFacts, CutAssigns
  <2>4. QED
    BY <2>2, <2>3, Assign, RequestFacts
<1>5. /\ new.pc = "answered" /\ new.http = "none" /\ new.call = req[r].call
      /\ new.before = req[r].before /\ new.rows = cut /\ new.names = req[r].names
  BY ReadFacts DEF RepliedCut, RecordType
<1> HIDE DEF new
<1>6. ReadGood(new, req, promised)
  <2>1. CASE req[r].http = "failed"
    <3>1. FoundNothing(req[r])
      BY <1>1, <2>1, ReadFacts DEF ReadGood, Reads, Working
    <3>2. FoundNothing(new)
      BY <1>3, <1>5, <3>1 DEF FoundNothing
    <3>3. QED
      BY <1>1, <1>5, <3>2, ReadFacts DEF ReadGood, Working
  <2>2. CASE req[r].http = "done"
    <3>1. new.call.op \in Reads /\ PassesFilters(new.call.pattern) => FindsAll(req[r], req)
      BY <1>1, <1>5, <2>2, ReadFacts DEF ReadGood
    <3>2. FindsAll(req[r], req) => FindsAll(new, req)
      BY <1>1, <1>2, <1>5, CutFinds DEF FindsAll
    <3>3. QED
      BY <1>5, <3>1, <3>2, ReadFacts DEF ReadGood, Working
  <2>3. QED
    BY <1>1, <2>1, <2>2
<1>7. QED
  BY <1>1, <1>4, <1>6, FoundUnscopedKeeps, ReadStep

LEMMA IngestContinuesReads ==
    ASSUME IInv, ReadInv, NEW r \in Requests, IngestContinues(r)
    PROVE  ReadInv'
<1> DEFINE new == Continued(req[r])
<1>1. req[r].pc = "waiting" /\ req[r].call.op = "ingest" /\ promised' = promised
  BY DEF IngestContinues
<1>2. Becomes(r, new)
  <2>1. req' = [req EXCEPT ![r] = new]
    BY RequestFacts DEF IngestContinues, ReqType, Continued
  <2>2. QED
    BY <2>1, Assign, RequestFacts, RecordTypes
<1>3. ReadGood(new, req, promised)
  <2>1. /\ new.pc = "received" /\ new.http = "none" /\ new.call = req[r].call
        /\ new.before = req[r].before
    BY ReadFacts DEF Continued, RecordType
  <2> HIDE DEF new
  <2>2. new.call.op \notin Reads
    BY <1>1, <2>1 DEF Reads, Scoped, Unscoped
  <2>3. QED
    BY <2>1, <2>2, ReadFacts DEF ReadGood
<1>4. QED
  BY <1>1, <1>2, <1>3, IngestContinuesKeeps, ReadStep

LEMMA RestartReads ==
    ASSUME IInv, ReadInv, Restart
    PROVE  ReadInv'
<1>1. promised' = promised /\ \A w \in promised : req'[w] = req[w]
  BY RestartKeeps DEF Restart, Kept
<1>2. ASSUME NEW r \in Requests
      PROVE  ReadGood(req'[r], req, promised)
  <2>1. req'[r] = IF req[r].pc \in Working THEN Dropped(req[r]) ELSE req[r]
    BY DEF Restart, Dropped
  <2>2. CASE req[r].pc \in Working
    <3> DEFINE new == Dropped(req[r])
    <3>1. new.pc = "dropped" /\ new.http = "none" /\ new.before = req[r].before
      BY ReadFacts DEF Dropped, RecordType
    <3> HIDE DEF new
    <3>2. ReadGood(new, req, promised)
      BY <3>1, ReadFacts DEF ReadGood, Working
    <3>3. QED
      BY <2>1, <2>2, <3>2 DEF new
  <2>3. CASE req[r].pc \notin Working
    BY <2>1, <2>3, ReadFacts
  <2>4. QED
    BY <2>2, <2>3
<1>3. \A r \in Requests : ReadGood(req'[r], req', promised')
  BY <1>1, <1>2, ReadGoodStays
<1>4. \A w \in promised : Accepted(req'[w].call)
  <2>1. \A w \in promised : Accepted(req[w].call)
    BY DEF ReadInv
  <2>2. QED
    BY <1>1, <2>1
<1>5. QED
  BY <1>1, <1>3, <1>4 DEF ReadInv

LEMMA ReadsInit == Init => ReadInv
<1> SUFFICES ASSUME Init
             PROVE  ReadInv
  OBVIOUS
<1>1. /\ Idle.pc = "idle" /\ Idle.http = "none" /\ Idle.before = {}
      /\ Idle.rows = {} /\ Idle.names = {}
  BY DEF Idle
<1>2. ReadGood(Idle, req, promised)
  BY <1>1 DEF ReadGood, FoundNothing
<1>3. QED
  BY <1>2 DEF Init, ReadInv

LEMMA ReadsNext ==
    ASSUME IInv, ReadInv, [Next]_vars
    PROVE  ReadInv'
<1>1. ASSUME NEW r \in Requests, BadRequest(r) \/ Unprocessable(r)
      PROVE  ReadInv'
  BY <1>1, AnswerReads DEF BadRequest, Unprocessable, Received
<1>2. ASSUME NEW r \in Requests, Serve(r)
      PROVE  ReadInv'
  BY <1>1, <1>2, RequestsAsked, TimesOutReads, RepliesRead, FoundUnscopedReads,
     IngestContinuesReads DEF Serve
<1>3. CASE Oxigraph
  BY <1>3, ExecuteReads, RejectReads DEF Oxigraph
<1>4. CASE UNCHANGED vars
  BY <1>4 DEF vars, ReadInv
<1>5. QED
  BY <1>2, <1>3, <1>4, SendReads, ExecuteLateReads, RestartReads DEF Next

LEMMA ReadsHonest == ReadInv => ReadsAllOrNothing
<1> SUFFICES ASSUME ReadInv, NEW r \in Requests, FoundBy(r, Scoped \cup Unscoped),
                    PassesFilters(req[r].call.pattern)
             PROVE  \/ \A w \in Owed(r) : Sees(r, w)
                    \/ /\ req[r].call.op \in Unscoped
                       /\ req[r].rows = {} /\ req[r].names = {}
  BY DEF ReadsAllOrNothing
<1>1. \/ FindsAll(req[r], req)
      \/ req[r].call.op \in Unscoped /\ FoundNothing(req[r])
  BY DEF ReadInv, ReadGood, FoundBy, Reads
<1>2. ASSUME FindsAll(req[r], req), NEW w \in Owed(r)
      PROVE  Sees(r, w)
  <2>1. Finds(req[r].call, req[r].rows, req[r].names, req[w].call)
    BY <1>2 DEF FindsAll, Owed
  <2>2. QED
    BY <2>1 DEF Finds, Sees
<1>3. QED
  BY <1>1, <1>2 DEF FoundNothing

(* However Oxigraph fails, and whichever request is given up, an unfiltered *)
(* answer 200 holds all that was acknowledged in its scope before it was    *)
(* asked for, as many rows as the limit allows, or, on the routes whose     *)
(* store calls drop their error and on no others, nothing.                  *)
THEOREM ReadsCompleteOrEmpty == Spec => []ReadsAllOrNothing
<1>1. Init => ReadInv
  BY ReadsInit
<1>2. IInv /\ ReadInv /\ [Next]_vars => ReadInv'
  BY ReadsNext
<1>3. QED
  BY <1>1, <1>2, Invariance, ReadsHonest, PTL DEF Spec
=============================================================================
