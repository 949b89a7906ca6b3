------------------------- MODULE DataServiceProofs --------------------------
(***************************************************************************)
(* What holds of the data-service for every set of requests, datasets,      *)
(* beamline names, records, seed graphs and limit: its types and what it    *)
(* stores, that it implements the abstract store, and what its reads find.  *)
(***************************************************************************)
EXTENDS DataService, DatasetProofs, TLAPS

-----------------------------------------------------------------------------
(* The store.                                                               *)

LEMMA ExtendType ==
    ASSUME NEW gs, IsGraphMap(gs), NEW g \in GraphName, NEW batch \in Seq(Triple)
    PROVE  /\ IsGraphMap(Extend(gs, g, batch))
           /\ DOMAIN Extend(gs, g, batch) = DOMAIN gs \cup {g}
<1> DEFINE ext == Extend(gs, g, batch)
<1>1. DOMAIN ext = DOMAIN gs \cup {g}
  BY DEF Extend
<1>2. ASSUME NEW n \in DOMAIN ext
      PROVE  ext[n] \in Seq(Triple)
  <2>1. n \in DOMAIN gs => gs[n] \in Seq(Triple)
    BY DEF IsGraphMap
  <2>2. n \in DOMAIN gs => gs[n] \o batch \in Seq(Triple)
    BY <2>1
  <2>3. QED
    BY <1>1, <2>1, <2>2 DEF Extend
<1>3. DOMAIN ext \subseteq GraphName
  BY <1>1 DEF IsGraphMap
<1>4. ext = [n \in DOMAIN ext |-> ext[n]]
  BY DEF Extend
<1>5. QED
  BY <1>1, <1>2, <1>3, <1>4 DEF IsGraphMap

LEMMA RangeOfConcatenation ==
    ASSUME NEW S, NEW a \in Seq(S), NEW b \in Seq(S)
    PROVE  Range(a \o b) = Range(a) \cup Range(b)
<1>1. ASSUME NEW x \in Range(a \o b)
      PROVE  x \in Range(a) \cup Range(b)
  <2>1. PICK i \in 1..(Len(a) + Len(b)) : x = (a \o b)[i]
    BY DEF Range
  <2>2. CASE i <= Len(a)
    BY <2>1, <2>2 DEF Range
  <2>3. CASE i > Len(a)
    <3>1. i - Len(a) \in 1..Len(b) /\ x = b[i - Len(a)]
      BY <2>1, <2>3
    <3>2. QED
      BY <3>1 DEF Range
  <2>4. QED
    BY <2>2, <2>3
<1>2. ASSUME NEW x \in Range(a)
      PROVE  x \in Range(a \o b)
  <2>1. PICK i \in 1..Len(a) : x = a[i]
    BY DEF Range
  <2>2. i \in 1..Len(a \o b) /\ x = (a \o b)[i]
    BY <2>1
  <2>3. QED
    BY <2>2 DEF Range
<1>3. ASSUME NEW x \in Range(b)
      PROVE  x \in Range(a \o b)
  <2>1. PICK i \in 1..Len(b) : x = b[i]
    BY DEF Range
  <2>2. Len(a) + i \in 1..Len(a \o b) /\ x = (a \o b)[Len(a) + i]
    BY <2>1
  <2>3. QED
    BY <2>2 DEF Range
<1>4. QED
  BY <1>1, <1>2, <1>3

LEMMA RangeOfSingleton ==
    ASSUME NEW t
    PROVE  Range(<<t>>) = {t}
BY DEF Range

(* A write adds its batch to its graph, and touches no other graph.         *)
LEMMA ExtendContent ==
    ASSUME NEW gs, IsGraphMap(gs), NEW g \in GraphName, NEW batch \in Seq(Triple)
    PROVE  /\ \A n \in DOMAIN gs \ {g} : Extend(gs, g, batch)[n] = gs[n]
           /\ Range(Extend(gs, g, batch)[g])
                = (IF g \in DOMAIN gs THEN Range(gs[g]) ELSE {}) \cup Range(batch)
<1>1. \A n \in DOMAIN gs \ {g} : Extend(gs, g, batch)[n] = gs[n]
  BY DEF Extend
<1>2. CASE g \in DOMAIN gs
  <2>1. Extend(gs, g, batch)[g] = gs[g] \o batch
    BY <1>2 DEF Extend
  <2>2. gs[g] \in Seq(Triple)
    BY <1>2 DEF IsGraphMap
  <2>3. Range(gs[g] \o batch) = Range(gs[g]) \cup Range(batch)
    BY <2>2, RangeOfConcatenation
  <2>4. QED
    BY <1>1, <1>2, <2>1, <2>3
<1>3. CASE g \notin DOMAIN gs
  BY <1>1, <1>3 DEF Extend
<1>4. QED
  BY <1>2, <1>3

LEMMA HitsType ==
    ASSUME NEW gs, IsGraphMap(gs)
    PROVE  AllHits(gs) \subseteq Hit
<1>1. ASSUME NEW g \in DOMAIN gs, NEW i \in DOMAIN gs[g]
      PROVE  [graph |-> g, pos |-> i, triple |-> gs[g][i]] \in Hit
  <2>1. g \in GraphName /\ gs[g] \in Seq(Triple)
    BY DEF IsGraphMap
  <2>2. i \in Nat /\ gs[g][i] \in Triple
    BY <2>1
  <2>3. QED
    BY <2>1, <2>2 DEF Hit
<1>2. QED
  BY <1>1 DEF AllHits, HitsIn

-----------------------------------------------------------------------------
(* Type correctness.                                                        *)

CallsSent == \A r \in Requests : req[r].pc # "idle" => req[r].call \in Calls

TypeInv == TypeOK /\ CallsSent

LEMMA TypeInit == Init => TypeInv
<1> SUFFICES ASSUME Init
             PROVE  TypeInv
  OBVIOUS
<1>1. Idle.graph \in GraphName
  <2>1. "" \in Names
    BY NamesAssumption
  <2>2. <<>> \in Seq(Part)
    OBVIOUS
  <2>3. QED
    BY <2>1, <2>2 DEF Idle, GraphName
<1>2. Idle \in RequestType
  BY <1>1 DEF Idle, RequestType
<1>3. req \in [Requests -> RequestType]
  BY <1>2 DEF Init
<1>4. CallsSent
  BY DEF Init, CallsSent, Idle
<1>5. IsGraphMap(graphs)
  BY DataServiceAssumption DEF Init
<1>6. restarts \in 0..MaxRestarts
  BY DataServiceAssumption DEF Init
<1>7. QED
  BY <1>3, <1>4, <1>5, <1>6 DEF Init, TypeInv, TypeOK

(* Assigning one field of one request's record.                             *)
PcType == {"idle", "answered", "dropped"} \cup Working
CodeType == {0, 200, 201, 400, 404, 422, 500, 502}
ReqType == [Requests -> RequestType]

LEMMA FieldTypes ==
    ASSUME NEW f \in ReqType, NEW r \in Requests
    PROVE  /\ \A v \in PcType : [f EXCEPT ![r].pc = v] \in ReqType
           /\ \A v \in Calls : [f EXCEPT ![r].call = v] \in ReqType
           /\ \A v \in SUBSET Triple : [f EXCEPT ![r].payload = v] \in ReqType
           /\ \A v \in SUBSET Triple : [f EXCEPT ![r].todo = v] \in ReqType
           /\ \A v \in GraphName : [f EXCEPT ![r].graph = v] \in ReqType
           /\ \A v \in CodeType : [f EXCEPT ![r].code = v] \in ReqType
           /\ \A v \in SUBSET Hit : [f EXCEPT ![r].hits = v] \in ReqType
           /\ \A v \in SUBSET GraphName : [f EXCEPT ![r].names = v] \in ReqType
           /\ \A v \in SUBSET Requests : [f EXCEPT ![r].before = v] \in ReqType
<1>1. \A v \in PcType : [f EXCEPT ![r].pc = v] \in ReqType
  BY DEF RequestType, ReqType, PcType
<1>2. \A v \in Calls : [f EXCEPT ![r].call = v] \in ReqType
  BY DEF RequestType, ReqType
<1>3. \A v \in SUBSET Triple : [f EXCEPT ![r].payload = v] \in ReqType
  BY DEF RequestType, ReqType
<1>4. \A v \in SUBSET Triple : [f EXCEPT ![r].todo = v] \in ReqType
  BY DEF RequestType, ReqType
<1>5. \A v \in GraphName : [f EXCEPT ![r].graph = v] \in ReqType
  BY DEF RequestType, ReqType
<1>6. \A v \in CodeType : [f EXCEPT ![r].code = v] \in ReqType
  BY DEF RequestType, ReqType, CodeType
<1>7. \A v \in SUBSET Hit : [f EXCEPT ![r].hits = v] \in ReqType
  BY DEF RequestType, ReqType
<1>8. \A v \in SUBSET GraphName : [f EXCEPT ![r].names = v] \in ReqType
  BY DEF RequestType, ReqType
<1>9. \A v \in SUBSET Requests : [f EXCEPT ![r].before = v] \in ReqType
  BY DEF RequestType, ReqType
<1>10. QED
  BY <1>1, <1>2, <1>3, <1>4, <1>5, <1>6, <1>7, <1>8, <1>9

(* The assignments of the actions, field by field.                          *)
Refused(f, r, c) == [f EXCEPT ![r].pc = "answered", ![r].code = c]
Answered(f, r, c, hits, names) ==
    [f EXCEPT ![r].pc = "answered", ![r].code = c, ![r].hits = hits,
              ![r].names = names]
Inserted(f, r, ts, g) ==
    [f EXCEPT ![r].pc = "writing", ![r].payload = ts, ![r].graph = g]
Fetched(f, r, ts, g) ==
    [f EXCEPT ![r].pc = "writing", ![r].payload = ts, ![r].todo = ts,
              ![r].graph = g]
Accepted(f, r, c, before) ==
    [f EXCEPT ![r].pc = "received", ![r].call = c, ![r].before = before]

LEMMA AnsweredType ==
    ASSUME NEW f \in ReqType, NEW r \in Requests, NEW c \in CodeType,
           NEW hits \in SUBSET Hit, NEW names \in SUBSET GraphName
    PROVE  /\ Refused(f, r, c) \in ReqType
           /\ Answered(f, r, c, hits, names) \in ReqType
<1> DEFINE f1 == [f EXCEPT ![r].pc = "answered"]
           f2 == [f1 EXCEPT ![r].code = c]
           f3 == [f2 EXCEPT ![r].hits = hits]
           f4 == [f3 EXCEPT ![r].names = names]
<1>1. f1 \in ReqType
  <2>1. "answered" \in PcType
    BY DEF PcType
  <2>2. QED
    BY <2>1, FieldTypes
<1>2. f2 \in ReqType
  <2> HIDE DEF f1
  <2>1. QED
    BY <1>1, FieldTypes
<1>3. f3 \in ReqType
  <2> HIDE DEF f2
  <2>1. QED
    BY <1>2, FieldTypes
<1>4. f4 \in ReqType
  <2> HIDE DEF f3
  <2>1. QED
    BY <1>3, FieldTypes
<1>5. QED
  BY <1>2, <1>4 DEF Refused, Answered

LEMMA WritingType ==
    ASSUME NEW f \in ReqType, NEW r \in Requests, NEW ts \in SUBSET Triple,
           NEW g \in GraphName
    PROVE  /\ Inserted(f, r, ts, g) \in ReqType
           /\ Fetched(f, r, ts, g) \in ReqType
<1> DEFINE f1 == [f EXCEPT ![r].pc = "writing"]
           f2 == [f1 EXCEPT ![r].payload = ts]
           f3 == [f2 EXCEPT ![r].todo = ts]
<1>1. f1 \in ReqType
  <2>1. "writing" \in PcType
    BY DEF PcType, Working
  <2>2. QED
    BY <2>1, FieldTypes
<1>2. f2 \in ReqType
  <2> HIDE DEF f1
  <2>1. QED
    BY <1>1, FieldTypes
<1>3. f3 \in ReqType
  <2> HIDE DEF f2
  <2>1. QED
    BY <1>2, FieldTypes
<1>4. [f2 EXCEPT ![r].graph = g] \in ReqType
  <2> HIDE DEF f2
  <2>1. QED
    BY <1>2, FieldTypes
<1>5. [f3 EXCEPT ![r].graph = g] \in ReqType
  <2> HIDE DEF f3
  <2>1. QED
    BY <1>3, FieldTypes
<1>6. QED
  BY <1>4, <1>5 DEF Inserted, Fetched

LEMMA AcceptedType ==
    ASSUME NEW f \in ReqType, NEW r \in Requests, NEW c \in Calls,
           NEW before \in SUBSET Requests
    PROVE  Accepted(f, r, c, before) \in ReqType
<1> DEFINE f1 == [f EXCEPT ![r].pc = "received"]
           f2 == [f1 EXCEPT ![r].call = c]
<1>1. f1 \in ReqType
  <2>1. "received" \in PcType
    BY DEF PcType, Working
  <2>2. QED
    BY <2>1, FieldTypes
<1>2. f2 \in ReqType
  <2> HIDE DEF f1
  <2>1. QED
    BY <1>1, FieldTypes
<1>3. [f2 EXCEPT ![r].before = before] \in ReqType
  <2> HIDE DEF f2
  <2>1. QED
    BY <1>2, FieldTypes
<1>4. QED
  BY <1>3 DEF Accepted

(* What they leave alone, and what they set.                                *)
LEMMA AssignmentsLocal ==
    ASSUME NEW f \in ReqType, NEW r \in Requests, NEW q \in Requests \ {r},
           NEW a, NEW b, NEW c, NEW d
    PROVE  /\ Refused(f, r, a)[q] = f[q]
           /\ Answered(f, r, a, b, c)[q] = f[q]
           /\ Inserted(f, r, a, b)[q] = f[q]
           /\ Fetched(f, r, a, b)[q] = f[q]
           /\ Accepted(f, r, a, b)[q] = f[q]
<1>1. Refused(f, r, a)[q] = f[q]
  BY DEF Refused, ReqType
<1>2. Answered(f, r, a, b, c)[q] = f[q]
  BY DEF Answered, ReqType
<1>3. Inserted(f, r, a, b)[q] = f[q]
  BY DEF Inserted, ReqType
<1>4. Fetched(f, r, a, b)[q] = f[q]
  BY DEF Fetched, ReqType
<1>5. Accepted(f, r, a, b)[q] = f[q]
  BY DEF Accepted, ReqType
<1>6. QED
  BY <1>1, <1>2, <1>3, <1>4, <1>5

LEMMA RefusedSets ==
    ASSUME NEW f \in ReqType, NEW r \in Requests, NEW c
    PROVE  LET g == Refused(f, r, c) IN
           /\ g[r].pc = "answered"
           /\ g[r].call = f[r].call
           /\ g[r].payload = f[r].payload
           /\ g[r].todo = f[r].todo
           /\ g[r].graph = f[r].graph
BY DEF Refused, ReqType, RequestType

LEMMA AnsweredSets ==
    ASSUME NEW f \in ReqType, NEW r \in Requests, NEW c, NEW hits, NEW names
    PROVE  LET g == Answered(f, r, c, hits, names) IN
           /\ g[r].pc = "answered"
           /\ g[r].call = f[r].call
           /\ g[r].payload = f[r].payload
           /\ g[r].todo = f[r].todo
           /\ g[r].graph = f[r].graph
BY DEF Answered, ReqType, RequestType

LEMMA WritingSets ==
    ASSUME NEW f \in ReqType, NEW r \in Requests, NEW ts, NEW g
    PROVE  /\ \A h \in {Inserted(f, r, ts, g), Fetched(f, r, ts, g)} :
                 /\ h[r].pc = "writing"
                 /\ h[r].call = f[r].call
                 /\ h[r].payload = ts
                 /\ h[r].graph = g
           /\ Inserted(f, r, ts, g)[r].todo = f[r].todo
           /\ Fetched(f, r, ts, g)[r].todo = ts
<1>1. LET h == Inserted(f, r, ts, g) IN
        /\ h[r].pc = "writing"
        /\ h[r].call = f[r].call
        /\ h[r].payload = ts
        /\ h[r].graph = g
        /\ h[r].todo = f[r].todo
  BY DEF Inserted, ReqType, RequestType
<1>2. LET h == Fetched(f, r, ts, g) IN
        /\ h[r].pc = "writing"
        /\ h[r].call = f[r].call
        /\ h[r].payload = ts
        /\ h[r].graph = g
        /\ h[r].todo = ts
  BY DEF Fetched, ReqType, RequestType
<1>3. QED
  BY <1>1, <1>2

LEMMA AcceptedSets ==
    ASSUME NEW f \in ReqType, NEW r \in Requests, NEW c, NEW before
    PROVE  LET g == Accepted(f, r, c, before) IN
           /\ g[r].pc = "received"
           /\ g[r].call = c
           /\ g[r].todo = f[r].todo
BY DEF Accepted, ReqType, RequestType

LEMMA CallFields ==
    ASSUME NEW c \in Calls
    PROVE  c.did \in Did /\ c.body \in Seq(Triple) /\ Range(c.body) \subseteq Triple
<1>1. c \in CallType
  BY DataServiceAssumption
<1>2. c.did \in Did /\ c.body \in Seq(Triple)
  BY <1>1 DEF CallType
<1>3. QED
  BY <1>2 DEF Range

(* What an ingest fetches, and the graph it will insert it into.            *)
LEMMA FetchedType ==
    ASSUME TypeOK, NEW r \in Requests, NEW did \in FoxdenDids, foxden[did] # NoRecord
    PROVE  /\ foxden[did] \in Versions
           /\ RecordToTriples[did][foxden[did]] \subseteq Triple
           /\ GraphIRIFromDID(did, [key |-> "", val |-> r]) \in GraphName
<1>1. foxden[did] \in Versions
  BY DEF TypeOK
<1>2. RecordToTriples[did][foxden[did]] \subseteq Triple
  BY <1>1, DataServiceAssumption
<1>3. [key |-> "", val |-> r] \in Part
  BY NamesAssumption, DataServiceAssumption DEF Part
<1>4. did \in Did
  BY DataServiceAssumption
<1>5. QED
  BY <1>1, <1>2, <1>3, <1>4, GraphIRIFromDIDType

(* The steps that only answer: every refusal and every query.               *)
Quiet(r) ==
    /\ req[r].pc = "received"
    /\ \E c \in CodeType, hits \in SUBSET Hit, names \in SUBSET GraphName :
          req' = Refused(req, r, c) \/ req' = Answered(req, r, c, hits, names)
    /\ UNCHANGED <<graphs, foxden, promised, restarts>>

LEMMA RefuseIsQuiet ==
    ASSUME NEW r \in Requests, req[r].pc = "received", NEW c \in CodeType, Refuse(r, c)
    PROVE  Quiet(r)
<1>1. req' = Refused(req, r, c)
  BY DEF Refuse, Refused
<1>2. {} \in SUBSET Hit /\ {} \in SUBSET GraphName
  OBVIOUS
<1>3. QED
  BY <1>1, <1>2 DEF Quiet, Refuse

LEMMA FoundIsQuiet ==
    ASSUME NEW r \in Requests, req[r].pc = "received", NEW hits \in SUBSET Hit,
           NEW names \in SUBSET GraphName, Found(r, hits, names)
    PROVE  Quiet(r)
<1>1. req' = Answered(req, r, 200, hits, names)
  BY DEF Found, Answered
<1>2. 200 \in CodeType
  BY DEF CodeType
<1>3. QED
  BY <1>1, <1>2 DEF Quiet, Found

LEMMA CutsOfHits ==
    ASSUME NEW hits, NEW cut \in Cuts(hits)
    PROVE  cut \subseteq hits
BY DEF Cuts

LEMMA ServeCases ==
    ASSUME TypeInv, NEW r \in Requests, Serve(r)
    PROVE  \/ Quiet(r)
           \/ TriplesInsert(r) \/ IngestFetch(r) \/ IngestInsert(r) \/ Created(r)
<1> USE DEF Received
<1>1. AllHits(graphs) \subseteq Hit /\ DOMAIN graphs \subseteq GraphName
  BY HitsType DEF TypeInv, TypeOK, IsGraphMap
<1>2. {200, 400, 404, 422, 500, 502} \subseteq CodeType
  BY DEF CodeType
<1>3. ASSUME BadReference(r)
      PROVE  Quiet(r)
  BY <1>2, <1>3, RefuseIsQuiet DEF BadReference
<1>4. ASSUME TriplesRejected(r)
      PROVE  Quiet(r)
  BY <1>2, <1>4, RefuseIsQuiet DEF TriplesRejected
<1>5. ASSUME Validate(r)
      PROVE  Quiet(r)
  BY <1>2, <1>5, RefuseIsQuiet DEF Validate
<1>6. ASSUME IngestNotFound(r) \/ IngestNotMapped(r)
      PROVE  Quiet(r)
  BY <1>2, <1>6, RefuseIsQuiet DEF IngestNotFound, IngestNotMapped
<1>7. ASSUME IngestFoxdenFails(r)
      PROVE  Quiet(r)
  BY <1>2, <1>7, RefuseIsQuiet DEF IngestFoxdenFails
<1>8. ASSUME BadBeamline(r)
      PROVE  Quiet(r)
  BY <1>2, <1>8, RefuseIsQuiet DEF BadBeamline
<1>9. ASSUME DatasetHandler(r)
      PROVE  Quiet(r)
  <2>1. QueryDataset(graphs, req[r].call.did, req[r].call.pattern) \subseteq Hit
    BY <1>1 DEF QueryDataset, Query
  <2>2. QED
    BY <1>9, <2>1, FoundIsQuiet DEF DatasetHandler
<1>10. ASSUME BeamlineHandler(r)
       PROVE  Quiet(r)
  <2>1. QueryBeamline(graphs, req[r].call.beamline, req[r].call.pattern) \subseteq Hit
    BY <1>1 DEF QueryBeamline
  <2>2. QED
    BY <1>10, <2>1, FoundIsQuiet DEF BeamlineHandler
<1>11. ASSUME BeamlineGraphsHandler(r)
       PROVE  Quiet(r)
  <2>1. DatasetsForBeamline(graphs, req[r].call.beamline) \subseteq GraphName
    BY <1>1 DEF DatasetsForBeamline
  <2>2. QED
    BY <1>11, <2>1, FoundIsQuiet DEF BeamlineGraphsHandler
<1>12. ASSUME GlobalHandler(r)
       PROVE  Quiet(r)
  <2>1. Resolve(req[r].call) \subseteq Hit
    BY <1>1 DEF Resolve, Describe, KeywordSearch, Query
  <2>2. PICK cut \in Cuts(Resolve(req[r].call)) : Found(r, cut, {})
    BY <1>12 DEF GlobalHandler
  <2>3. cut \subseteq Hit
    BY <2>1, CutsOfHits
  <2>4. QED
    BY <1>12, <2>2, <2>3, FoundIsQuiet DEF GlobalHandler
<1>13. ASSUME GraphsHandler(r)
       PROVE  Quiet(r)
  BY <1>1, <1>13, FoundIsQuiet DEF GraphsHandler, IsGraphMap
<1>14. QED
  BY <1>3, <1>4, <1>5, <1>6, <1>7, <1>8, <1>9, <1>10, <1>11, <1>12, <1>13 DEF Serve

LEMMA TypeStep == TypeInv /\ [Next]_vars => TypeInv'
<1> SUFFICES ASSUME TypeInv, [Next]_vars
             PROVE  TypeInv'
  OBVIOUS
<1>1. req \in ReqType /\ IsGraphMap(graphs)
  BY DEF TypeInv, TypeOK, ReqType
(* It is enough that one request moves, keeping or being given a call.      *)
<1>2. ASSUME NEW r \in Requests, req' \in ReqType,
             \A q \in Requests \ {r} : req'[q] = req[q],
             req'[r].call \in Calls,
             IsGraphMap(graphs'), promised' \subseteq Requests,
             UNCHANGED <<foxden, restarts>>
      PROVE  TypeInv'
  BY <1>2 DEF TypeInv, TypeOK, CallsSent, ReqType
<1>3. ASSUME NEW r \in Requests, Send(r)
      PROVE  TypeInv'
  <2>1. PICK c \in Calls : req' = Accepted(req, r, c, promised)
    BY <1>3 DEF Send, Accepted
  <2>2. promised \in SUBSET Requests
    BY DEF TypeInv, TypeOK
  <2>3. req' \in ReqType
    BY <1>1, <2>1, <2>2, AcceptedType
  <2>4. req'[r].call \in Calls
    BY <1>1, <2>1, AcceptedSets
  <2>5. \A q \in Requests \ {r} : req'[q] = req[q]
    BY <1>1, <2>1, AssignmentsLocal
  <2>6. QED
    BY <1>1, <1>2, <1>3, <2>2, <2>3, <2>4, <2>5 DEF Send
<1>4. ASSUME NEW r \in Requests, Quiet(r)
      PROVE  TypeInv'
  <2>1. PICK c \in CodeType, hits \in SUBSET Hit, names \in SUBSET GraphName :
           req' = Refused(req, r, c) \/ req' = Answered(req, r, c, hits, names)
    BY <1>4 DEF Quiet
  <2>2. req' \in ReqType
    BY <1>1, <2>1, AnsweredType
  <2>3. req'[r].call \in Calls
    BY <1>1, <1>4, <2>1, RefusedSets, AnsweredSets DEF TypeInv, CallsSent, Quiet
  <2>4. \A q \in Requests \ {r} : req'[q] = req[q]
    BY <1>1, <2>1, AssignmentsLocal
  <2>5. promised' \subseteq Requests /\ IsGraphMap(graphs')
    BY <1>1, <1>4 DEF TypeInv, TypeOK, Quiet
  <2>6. QED
    BY <1>2, <1>4, <2>2, <2>3, <2>4, <2>5 DEF Quiet
<1>5. ASSUME NEW r \in Requests, TriplesInsert(r)
      PROVE  TypeInv'
  <2> DEFINE call == req[r].call
             ts == Range(call.body)
             g == GraphIRI(call.did)
  <2>1. call \in Calls
    BY <1>5 DEF TriplesInsert, Received, TypeInv, CallsSent
  <2>2. g \in GraphName /\ call.body \in Seq(Triple) /\ ts \in SUBSET Triple
    BY <2>1, CallFields, GraphIRIType
  <2>3. req' = Inserted(req, r, ts, g)
    BY <1>5 DEF TriplesInsert, Inserted
  <2>4. IsGraphMap(graphs')
    BY <1>1, <1>5, <2>2, ExtendType DEF TriplesInsert, InsertForDataset
  <2> HIDE DEF ts, g
  <2>5. req' \in ReqType
    BY <1>1, <2>2, <2>3, WritingType
  <2>6. \A q \in Requests \ {r} : req'[q] = req[q]
    BY <1>1, <2>3, AssignmentsLocal
  <2>7. req'[r].call = call
    BY <1>1, <2>3, WritingSets
  <2>8. QED
    BY <1>2, <1>5, <2>1, <2>4, <2>5, <2>6, <2>7 DEF TriplesInsert, TypeInv, TypeOK
<1>6. ASSUME NEW r \in Requests, IngestFetch(r)
      PROVE  TypeInv'
  <2> DEFINE did == req[r].call.did
             triples == RecordToTriples[did][foxden[did]]
             g == GraphIRIFromDID(did, [key |-> "", val |-> r])
  <2>1. req[r].call \in Calls
    BY <1>6 DEF IngestFetch, Received, TypeInv, CallsSent
  <2>2. triples \in SUBSET Triple /\ g \in GraphName
    BY <1>6, FetchedType DEF IngestFetch, TypeInv
  <2>3. req' = Fetched(req, r, triples, g)
    BY <1>6 DEF IngestFetch, Fetched
  <2> HIDE DEF did, triples, g
  <2>4. req' \in ReqType
    BY <1>1, <2>2, <2>3, WritingType
  <2>5. \A q \in Requests \ {r} : req'[q] = req[q]
    BY <1>1, <2>3, AssignmentsLocal
  <2>6. req'[r].call = req[r].call
    BY <1>1, <2>3, WritingSets
  <2>7. QED
    BY <1>1, <1>2, <1>6, <2>1, <2>4, <2>5, <2>6 DEF IngestFetch, TypeInv, TypeOK
<1>7. ASSUME NEW r \in Requests, IngestInsert(r)
      PROVE  TypeInv'
  <2>1. PICK t \in req[r].todo :
           /\ graphs' = Insert(graphs, req[r].graph, t)
           /\ req' = [req EXCEPT ![r].todo = @ \ {t}]
    BY <1>7 DEF IngestInsert
  <2>2. t \in Triple /\ req[r].todo \ {t} \in SUBSET Triple /\ req[r].graph \in GraphName
    BY <1>1, <2>1 DEF ReqType, RequestType
  <2>3. <<t>> \in Seq(Triple)
    BY <2>2
  <2>4. IsGraphMap(graphs')
    BY <1>1, <2>1, <2>2, <2>3, ExtendType DEF Insert
  <2>5. req' \in ReqType
    BY <1>1, <2>1, <2>2, FieldTypes
  <2>6. /\ \A q \in Requests \ {r} : req'[q] = req[q]
        /\ req'[r].call = req[r].call
    BY <1>1, <2>1 DEF ReqType, RequestType
  <2>7. req'[r].call \in Calls
    BY <1>7, <2>6 DEF IngestInsert, TypeInv, CallsSent
  <2>8. QED
    BY <1>2, <1>7, <2>4, <2>5, <2>6, <2>7 DEF IngestInsert, TypeInv, TypeOK
<1>8. ASSUME NEW r \in Requests, Created(r)
      PROVE  TypeInv'
  <2>1. req' = Refused(req, r, 201) /\ 201 \in CodeType
    BY <1>8 DEF Created, Refused, CodeType
  <2>2. {} \in SUBSET Hit /\ {} \in SUBSET GraphName
    OBVIOUS
  <2>3. req' \in ReqType
    BY <1>1, <2>1, <2>2, AnsweredType
  <2>4. req'[r].call \in Calls
    <3>1. req'[r].call = req[r].call
      BY <1>1, <2>1, RefusedSets
    <3>2. QED
      BY <1>8, <3>1 DEF TypeInv, CallsSent, Created
  <2>5. \A q \in Requests \ {r} : req'[q] = req[q]
    BY <1>1, <2>1, AssignmentsLocal
  <2>6. IsGraphMap(graphs') /\ promised' \subseteq Requests
    BY <1>1, <1>8 DEF Created, TypeInv, TypeOK
  <2>7. QED
    BY <1>2, <1>8, <2>3, <2>4, <2>5, <2>6 DEF Created
<1>9. ASSUME NEW d \in FoxdenDids, FoxdenUpdate(d)
      PROVE  TypeInv'
  <2>1. foxden' \in [FoxdenDids -> Versions \cup {NoRecord}]
    BY <1>9 DEF FoxdenUpdate, TypeInv, TypeOK
  <2>2. QED
    BY <1>9, <2>1 DEF FoxdenUpdate, TypeInv, TypeOK, CallsSent
<1>10. ASSUME Restart
       PROVE  TypeInv'
  <2>1. ASSUME NEW r \in Requests
        PROVE  req'[r] \in RequestType /\ req'[r].call = req[r].call
               /\ (req[r].pc = "idle" => req'[r].pc = "idle")
    <3>1. req[r] \in RequestType
      BY <1>1 DEF ReqType
    <3>2. CASE req[r].pc \in Working
      <4>1. req'[r] = [req[r] EXCEPT !.pc = "dropped"]
        BY <1>10, <3>2 DEF Restart
      <4>2. req'[r] \in RequestType
        BY <3>1, <4>1 DEF RequestType
      <4>3. req'[r].call = req[r].call
        BY <3>1, <4>1 DEF RequestType
      <4>4. req[r].pc # "idle"
        BY <3>2 DEF Working
      <4>5. QED
        BY <4>2, <4>3, <4>4
    <3>3. CASE req[r].pc \notin Working
      BY <1>10, <3>1, <3>3 DEF Restart
    <3>4. QED
      BY <3>2, <3>3
  <2>2. req' \in [Requests -> RequestType]
    BY <1>10, <2>1 DEF Restart
  <2>3. CallsSent'
    <3>1. ASSUME NEW r \in Requests, req'[r].pc # "idle"
          PROVE  req'[r].call \in Calls
      <4>1. req[r].pc # "idle"
        BY <2>1, <3>1
      <4>2. QED
        BY <2>1, <4>1 DEF TypeInv, CallsSent
    <3>2. QED
      BY <3>1 DEF CallsSent
  <2>4. IsGraphMap(graphs')
    BY <1>10, DataServiceAssumption DEF Restart
  <2>5. restarts' \in 0..MaxRestarts
    BY <1>10, DataServiceAssumption DEF Restart, TypeInv, TypeOK
  <2>6. QED
    BY <1>10, <2>2, <2>3, <2>4, <2>5 DEF Restart, TypeInv, TypeOK
<1>11. ASSUME UNCHANGED vars
       PROVE  TypeInv'
  BY <1>11 DEF vars, TypeInv, TypeOK, CallsSent
<1>12. QED
  BY <1>3, <1>4, <1>5, <1>6, <1>7, <1>8, <1>9, <1>10, <1>11, ServeCases DEF Next

(* The state of the service is well formed whatever is sent to it: every    *)
(* graph is a sequence of triples under an IRI of the scheme, and every     *)
(* answer has one of the codes of the handlers.                             *)
THEOREM TypeCorrect == Spec => []TypeOK
<1>1. TypeInv => TypeOK
  BY DEF TypeInv
<1>2. QED
  BY <1>1, TypeInit, TypeStep, PTL DEF Spec

-----------------------------------------------------------------------------
(* The inductive invariant.  PromisesKept says nothing of a write that is   *)
(* under way, and ObservationsComplete nothing of what an ingest is still   *)
(* to insert: WritesInv adds both.  A triple of a write is stored unless    *)
(* its loop has yet to insert it, and what the loop has yet to insert types *)
(* no subject as an observation.                                            *)

WriteInv(r) ==
    /\ req[r].pc \in {"idle", "received"} => req[r].todo = {}
    /\ req[r].pc = "writing" => Observations(req[r].todo) = {}
    /\ r \in promised => req[r].pc = "answered" /\ req[r].todo = {}
    /\ req[r].pc = "writing" \/ r \in promised =>
          \A t \in req[r].payload \ req[r].todo :
              req[r].graph \in DOMAIN graphs /\ t \in Stored(req[r].graph)

WritesInv == \A r \in Requests : WriteInv(r)

IInv == TypeInv /\ ObservationsComplete /\ WritesInv

(* A write of a complete batch to a map of complete graphs.                 *)
LEMMA ExtendComplete ==
    ASSUME NEW gs, IsGraphMap(gs), \A n \in DOMAIN gs : Complete(Range(gs[n])),
           NEW g \in GraphName, NEW batch \in Seq(Triple), Complete(Range(batch))
    PROVE  \A n \in DOMAIN Extend(gs, g, batch) :
              Complete(Range(Extend(gs, g, batch)[n]))
<1> SUFFICES ASSUME NEW n \in DOMAIN Extend(gs, g, batch)
             PROVE  Complete(Range(Extend(gs, g, batch)[n]))
  OBVIOUS
<1>1. CASE n # g
  <2> DEFINE ext == Extend(gs, g, batch)
  <2>1. n \in DOMAIN gs
    <3>1. DOMAIN ext = DOMAIN gs \cup {g}
      BY ExtendType
    <3> HIDE DEF ext
    <3>2. QED
      BY <1>1, <3>1 DEF ext
  <2>2. QED
    BY <1>1, <2>1, ExtendContent
<1>2. CASE n = g /\ g \in DOMAIN gs
  <2>1. Complete(Range(gs[g]) \cup Range(batch))
    BY <1>2, CompleteUnion
  <2>2. QED
    BY <1>2, <2>1, ExtendContent
<1>3. CASE n = g /\ g \notin DOMAIN gs
  <2>1. Range(Extend(gs, g, batch)[g])
          = (IF g \in DOMAIN gs THEN Range(gs[g]) ELSE {}) \cup Range(batch)
    BY ExtendContent
  <2>2. Range(Extend(gs, g, batch)[g]) = Range(batch)
    BY <1>3, <2>1
  <2>3. QED
    BY <1>3, <2>2
<1>4. QED
  BY <1>1, <1>2, <1>3

(* Nothing leaves a graph when another batch is written.                    *)
Grows(gs, hs) ==
    \A n \in DOMAIN gs : n \in DOMAIN hs /\ Range(gs[n]) \subseteq Range(hs[n])

LEMMA ExtendGrows ==
    ASSUME NEW gs, IsGraphMap(gs), NEW g \in GraphName, NEW batch \in Seq(Triple)
    PROVE  /\ Grows(gs, Extend(gs, g, batch))
           /\ g \in DOMAIN Extend(gs, g, batch)
           /\ Range(batch) \subseteq Range(Extend(gs, g, batch)[g])
<1>1. DOMAIN Extend(gs, g, batch) = DOMAIN gs \cup {g}
  BY ExtendType
<1>2. ASSUME NEW n \in DOMAIN gs
      PROVE  Range(gs[n]) \subseteq Range(Extend(gs, g, batch)[n])
  BY ExtendContent
<1>3. Range(batch) \subseteq Range(Extend(gs, g, batch)[g])
  BY ExtendContent
<1>4. QED
  BY <1>1, <1>2, <1>3 DEF Grows

(* A step of one request keeps what is known of the other ones.             *)
LEMMA OthersKept ==
    ASSUME WritesInv, NEW r \in Requests, Grows(graphs, graphs'),
           \A q \in Requests \ {r} : req'[q] = req[q],
           promised' \subseteq promised \cup {r}, WriteInv(r)'
    PROVE  WritesInv'
<1>1. ASSUME NEW q \in Requests \ {r}
      PROVE  WriteInv(q)'
  <2>1. WriteInv(q) /\ req'[q] = req[q] /\ (q \in promised' => q \in promised)
    BY DEF WritesInv
  <2>2. ASSUME req[q].graph \in DOMAIN graphs
        PROVE  /\ req[q].graph \in DOMAIN graphs'
               /\ Stored(req[q].graph) \subseteq Range(graphs'[req[q].graph])
    BY <2>2 DEF Grows, Stored
  <2>3. QED
    BY <2>1, <2>2 DEF WriteInv, Stored
<1>2. QED
  BY <1>1 DEF WritesInv

LEMMA GrowsReflexive ==
    ASSUME NEW gs
    PROVE  Grows(gs, gs)
BY DEF Grows

LEMMA ObservationsCompleteIs ==
    ObservationsComplete <=> \A n \in DOMAIN graphs : Complete(Range(graphs[n]))
BY DEF ObservationsComplete, Stored, Complete

LEMMA InvInit == Init => IInv
<1> SUFFICES ASSUME Init
             PROVE  IInv
  OBVIOUS
<1>1. TypeInv
  BY TypeInit
<1>2. ObservationsComplete
  BY DataServiceAssumption DEF Init, ObservationsComplete, Stored
<1>3. WritesInv
  BY DEF Init, WritesInv, WriteInv, Idle
<1>4. QED
  BY <1>1, <1>2, <1>3 DEF IInv

LEMMA SendKeeps ==
    ASSUME IInv, NEW r \in Requests, Send(r)
    PROVE  ObservationsComplete' /\ WritesInv'
<1>1. req \in ReqType /\ WriteInv(r)
  BY DEF IInv, TypeInv, TypeOK, ReqType, WritesInv
<1>2. PICK c \in Calls : req' = Accepted(req, r, c, promised)
  BY DEF Send, Accepted
<1>3. req[r].pc = "idle" /\ graphs' = graphs /\ promised' = promised
  BY DEF Send
<1>4. WriteInv(r)'
  <2>1. req'[r].pc = "received" /\ req'[r].todo = req[r].todo
    BY <1>1, <1>2, AcceptedSets
  <2>2. r \notin promised /\ req[r].todo = {}
    BY <1>1, <1>3 DEF WriteInv
  <2>3. QED
    BY <1>3, <2>1, <2>2 DEF WriteInv
<1>5. \A q \in Requests \ {r} : req'[q] = req[q]
  BY <1>1, <1>2, AssignmentsLocal
<1>6. Grows(graphs, graphs')
  BY <1>3, GrowsReflexive
<1>7. WritesInv'
  BY <1>3, <1>4, <1>5, <1>6, OthersKept DEF IInv
<1>8. QED
  BY <1>3, <1>7 DEF IInv, ObservationsComplete, Stored

LEMMA QuietKeeps ==
    ASSUME IInv, NEW r \in Requests, Quiet(r)
    PROVE  ObservationsComplete' /\ WritesInv'
<1>1. req \in ReqType /\ WriteInv(r)
  BY DEF IInv, TypeInv, TypeOK, ReqType, WritesInv
<1>2. PICK c \in CodeType, hits \in SUBSET Hit, names \in SUBSET GraphName :
         req' = Refused(req, r, c) \/ req' = Answered(req, r, c, hits, names)
  BY DEF Quiet
<1>3. req[r].pc = "received" /\ graphs' = graphs /\ promised' = promised
  BY DEF Quiet
<1>4. WriteInv(r)'
  <2>1. req'[r].pc = "answered"
    BY <1>1, <1>2, RefusedSets, AnsweredSets
  <2>2. r \notin promised'
    BY <1>1, <1>3 DEF WriteInv
  <2>3. QED
    BY <2>1, <2>2 DEF WriteInv
<1>5. \A q \in Requests \ {r} : req'[q] = req[q]
  BY <1>1, <1>2, AssignmentsLocal
<1>6. Grows(graphs, graphs')
  BY <1>3, GrowsReflexive
<1>7. WritesInv'
  BY <1>3, <1>4, <1>5, <1>6, OthersKept DEF IInv
<1>8. QED
  BY <1>3, <1>7 DEF IInv, ObservationsComplete, Stored

LEMMA TriplesInsertKeeps ==
    ASSUME IInv, NEW r \in Requests, TriplesInsert(r)
    PROVE  ObservationsComplete' /\ WritesInv'
<1> DEFINE call == req[r].call
           ts == Range(call.body)
           g == GraphIRI(call.did)
<1>1. req \in ReqType /\ WriteInv(r) /\ IsGraphMap(graphs)
  BY DEF IInv, TypeInv, TypeOK, ReqType, WritesInv
<1>2. call \in Calls
  BY DEF TriplesInsert, Received, IInv, TypeInv, CallsSent
<1>3. g \in GraphName /\ call.body \in Seq(Triple)
  BY <1>2, CallFields, GraphIRIType
<1>4. graphs' = Extend(graphs, g, call.body)
  BY DEF TriplesInsert, InsertForDataset
<1>5. req' = Inserted(req, r, ts, g)
  BY DEF TriplesInsert, Inserted
<1>6. req[r].pc = "received" /\ promised' = promised
  BY DEF TriplesInsert, Received
<1>7. Complete(ts)
  BY DEF TriplesInsert, Conforms, ValidateForDataset, ValidateObservation, Complete
<1>8. ObservationsComplete'
  <2>1. \A n \in DOMAIN graphs : Complete(Range(graphs[n]))
    BY DEF IInv, ObservationsComplete, Stored, Complete
  <2>2. \A n \in DOMAIN graphs' : Complete(Range(graphs'[n]))
    BY <1>1, <1>3, <1>4, <1>7, <2>1, ExtendComplete
  <2>3. QED
    BY <2>2 DEF ObservationsComplete, Stored, Complete
<1>9. Grows(graphs, graphs') /\ g \in DOMAIN graphs' /\ ts \subseteq Range(graphs'[g])
  BY <1>1, <1>3, <1>4, ExtendGrows
<1> HIDE DEF ts, g
<1>10. \A q \in Requests \ {r} : req'[q] = req[q]
  BY <1>1, <1>5, AssignmentsLocal
<1>11. WriteInv(r)'
  <2>1. /\ req'[r].pc = "writing" /\ req'[r].todo = req[r].todo
        /\ req'[r].payload = ts /\ req'[r].graph = g
    BY <1>1, <1>5, WritingSets
  <2>2. r \notin promised' /\ req[r].todo = {}
    BY <1>1, <1>6 DEF WriteInv
  <2>3. Observations({}) = {}
    BY DEF Observations
  <2>4. QED
    BY <1>9, <2>1, <2>2, <2>3 DEF WriteInv, Stored
<1>12. WritesInv'
  BY <1>6, <1>9, <1>10, <1>11, OthersKept DEF IInv
<1>13. QED
  BY <1>8, <1>12

LEMMA IngestFetchKeeps ==
    ASSUME IInv, NEW r \in Requests, IngestFetch(r)
    PROVE  ObservationsComplete' /\ WritesInv'
<1> DEFINE did == req[r].call.did
           ts == RecordToTriples[did][foxden[did]]
           g == GraphIRIFromDID(did, [key |-> "", val |-> r])
<1>1. req \in ReqType /\ WriteInv(r)
  BY DEF IInv, TypeInv, TypeOK, ReqType, WritesInv
<1>2. req' = Fetched(req, r, ts, g)
  BY DEF IngestFetch, Fetched
<1>3. req[r].pc = "received" /\ graphs' = graphs /\ promised' = promised
  BY DEF IngestFetch, Received
<1>4. Observations(ts) = {}
  <2>1. did \in FoxdenDids /\ foxden[did] # NoRecord
    BY DEF IngestFetch
  <2>2. foxden[did] \in Versions
    BY <2>1 DEF IInv, TypeInv, TypeOK
  <2>3. QED
    BY <2>1, <2>2, DataServiceAssumption
<1> HIDE DEF ts, g
<1>5. \A q \in Requests \ {r} : req'[q] = req[q]
  BY <1>1, <1>2, AssignmentsLocal
<1>6. WriteInv(r)'
  <2>1. req'[r].pc = "writing" /\ req'[r].todo = ts /\ req'[r].payload = ts
    BY <1>1, <1>2, WritingSets
  <2>2. r \notin promised'
    BY <1>1, <1>3 DEF WriteInv
  <2>3. QED
    BY <1>4, <2>1, <2>2 DEF WriteInv
<1>7. Grows(graphs, graphs')
  BY <1>3, GrowsReflexive
<1>8. WritesInv'
  BY <1>3, <1>5, <1>6, <1>7, OthersKept DEF IInv
<1>9. QED
  BY <1>3, <1>8 DEF IInv, ObservationsComplete, Stored

LEMMA IngestInsertKeeps ==
    ASSUME IInv, NEW r \in Requests, IngestInsert(r)
    PROVE  ObservationsComplete' /\ WritesInv'
<1> DEFINE g == req[r].graph
<1>1. req \in ReqType /\ WriteInv(r) /\ IsGraphMap(graphs)
  BY DEF IInv, TypeInv, TypeOK, ReqType, WritesInv
<1>2. PICK t \in req[r].todo :
         /\ graphs' = Extend(graphs, g, <<t>>)
         /\ req' = [req EXCEPT ![r].todo = @ \ {t}]
  BY DEF IngestInsert, Insert
<1>3. req[r].pc = "writing" /\ promised' = promised
  BY DEF IngestInsert
<1>4. g \in GraphName /\ t \in Triple
  BY <1>1 DEF ReqType, RequestType
<1>5. <<t>> \in Seq(Triple)
  BY <1>4
<1>6. Range(<<t>>) = {t}
  BY RangeOfSingleton
<1>7. ObservationsComplete'
  <2>1. Observations(req[r].todo) = {}
    BY <1>1, <1>3 DEF WriteInv
  <2>2. Observations({t}) = {}
    BY <2>1 DEF Observations
  <2>3. Complete(Range(<<t>>))
    BY <1>6, <2>2 DEF Complete
  <2>4. \A n \in DOMAIN graphs : Complete(Range(graphs[n]))
    BY DEF IInv, ObservationsComplete, Stored, Complete
  <2>5. \A n \in DOMAIN graphs' : Complete(Range(graphs'[n]))
    BY <1>1, <1>2, <1>4, <1>5, <2>3, <2>4, ExtendComplete
  <2>6. QED
    BY <2>5 DEF ObservationsComplete, Stored, Complete
<1>8. Grows(graphs, graphs') /\ g \in DOMAIN graphs' /\ t \in Range(graphs'[g])
  BY <1>1, <1>2, <1>4, <1>5, <1>6, ExtendGrows
<1>9. \A q \in Requests \ {r} : req'[q] = req[q]
  BY <1>1, <1>2 DEF ReqType
<1>10. WriteInv(r)'
  <2>1. /\ req'[r].pc = "writing" /\ req'[r].todo = req[r].todo \ {t}
        /\ req'[r].payload = req[r].payload /\ req'[r].graph = g
    BY <1>1, <1>2, <1>3 DEF ReqType, RequestType
  <2>2. Observations(req'[r].todo) = {}
    BY <1>1, <1>3, <2>1 DEF WriteInv, Observations
  <2>3. r \notin promised'
    BY <1>1, <1>3 DEF WriteInv
  <2>4. ASSUME NEW u \in req'[r].payload \ req'[r].todo
        PROVE  g \in DOMAIN graphs' /\ u \in Range(graphs'[g])
    <3>1. CASE u = t
      BY <1>8, <3>1
    <3>2. CASE u # t
      <4>1. g \in DOMAIN graphs /\ u \in Range(graphs[g])
        BY <1>1, <1>3, <2>1, <3>2 DEF WriteInv, Stored
      <4>2. QED
        BY <1>8, <4>1 DEF Grows
    <3>3. QED
      BY <3>1, <3>2
  <2>5. QED
    BY <2>1, <2>2, <2>3, <2>4 DEF WriteInv, Stored
<1>11. WritesInv'
  BY <1>3, <1>8, <1>9, <1>10, OthersKept DEF IInv
<1>12. QED
  BY <1>7, <1>11

LEMMA CreatedKeeps ==
    ASSUME IInv, NEW r \in Requests, Created(r)
    PROVE  ObservationsComplete' /\ WritesInv'
<1>1. req \in ReqType /\ WriteInv(r)
  BY DEF IInv, TypeInv, TypeOK, ReqType, WritesInv
<1>2. req' = Refused(req, r, 201)
  BY DEF Created, Refused
<1>3. /\ req[r].pc = "writing" /\ req[r].todo = {}
      /\ graphs' = graphs /\ promised' = promised \cup {r}
  BY DEF Created
<1>4. \A q \in Requests \ {r} : req'[q] = req[q]
  BY <1>1, <1>2, AssignmentsLocal
<1>5. WriteInv(r)'
  <2>1. /\ req'[r].pc = "answered" /\ req'[r].todo = req[r].todo
        /\ req'[r].payload = req[r].payload /\ req'[r].graph = req[r].graph
    BY <1>1, <1>2, RefusedSets
  <2>2. QED
    BY <1>1, <1>3, <2>1 DEF WriteInv, Stored
<1>6. Grows(graphs, graphs')
  BY <1>3, GrowsReflexive
<1>7. WritesInv'
  BY <1>3, <1>4, <1>5, <1>6, OthersKept DEF IInv
<1>8. QED
  BY <1>3, <1>7 DEF IInv, ObservationsComplete, Stored

LEMMA RestartKeeps ==
    ASSUME IInv, Restart
    PROVE  ObservationsComplete' /\ WritesInv'
<1>1. graphs' = SeedGraphs /\ promised' = {}
  BY DEF Restart
<1>2. ObservationsComplete'
  BY <1>1, DataServiceAssumption DEF ObservationsComplete, Stored
<1>3. ASSUME NEW r \in Requests
      PROVE  WriteInv(r)'
  <2>1. req[r] \in RequestType /\ WriteInv(r)
    BY DEF IInv, TypeInv, TypeOK, WritesInv
  <2>2. CASE req[r].pc \in Working
    <3>1. req'[r] = [req[r] EXCEPT !.pc = "dropped"]
      BY <2>2 DEF Restart
    <3>2. req'[r].pc = "dropped"
      BY <2>1, <3>1 DEF RequestType
    <3>3. QED
      BY <1>1, <3>2 DEF WriteInv
  <2>3. CASE req[r].pc \notin Working
    <3>1. req'[r] = req[r] /\ req[r].pc # "writing"
      BY <2>3 DEF Restart, Working
    <3>2. QED
      BY <1>1, <2>1, <3>1 DEF WriteInv
  <2>4. QED
    BY <2>2, <2>3
<1>4. QED
  BY <1>2, <1>3 DEF WritesInv

LEMMA InvStep == IInv /\ [Next]_vars => IInv'
<1> SUFFICES ASSUME IInv, [Next]_vars
             PROVE  IInv'
  OBVIOUS
<1>1. TypeInv'
  BY TypeStep DEF IInv
<1>2. ASSUME graphs' = graphs, req' = req, promised' = promised
      PROVE  ObservationsComplete' /\ WritesInv'
  BY <1>2 DEF IInv, ObservationsComplete, WritesInv, WriteInv, Stored
<1>3. ASSUME NEW r \in Requests, Serve(r)
      PROVE  ObservationsComplete' /\ WritesInv'
  BY <1>3, ServeCases, QuietKeeps, TriplesInsertKeeps, IngestFetchKeeps,
     IngestInsertKeeps, CreatedKeeps DEF IInv
<1>4. ASSUME NEW d \in FoxdenDids, FoxdenUpdate(d)
      PROVE  ObservationsComplete' /\ WritesInv'
  BY <1>2, <1>4 DEF FoxdenUpdate
<1>5. ASSUME UNCHANGED vars
      PROVE  ObservationsComplete' /\ WritesInv'
  BY <1>2, <1>5 DEF vars
<1>6. ObservationsComplete' /\ WritesInv'
  BY <1>3, <1>4, <1>5, SendKeeps, RestartKeeps DEF Next
<1>7. QED
  BY <1>1, <1>6 DEF IInv

LEMMA Invariance == Spec => []IInv
BY InvInit, InvStep, PTL DEF Spec

(* Each graph stays a graph of complete observations, for every mix of      *)
(* validated writes, unvalidated ingests, crashes and restarts, provided    *)
(* the seed is and FOXDEN records type no observation.                      *)
THEOREM ObservationsStayComplete == Spec => []ObservationsComplete
<1>1. IInv => ObservationsComplete
  BY DEF IInv
<1>2. QED
  BY <1>1, Invariance, PTL

(* A 201 of either write handler is the truth, however many ingests of the  *)
(* same dataset run at once and whatever else is written meanwhile.         *)
THEOREM AcknowledgedWritesStored == Spec => []PromisesKept
<1>1. IInv => PromisesKept
  <2> SUFFICES ASSUME IInv, NEW w \in promised
               PROVE  /\ req[w].graph \in DOMAIN graphs \/ req[w].payload = {}
                      /\ \A t \in req[w].payload : t \in Stored(req[w].graph)
    BY DEF PromisesKept
  <2>1. w \in Requests
    BY DEF IInv, TypeInv, TypeOK
  <2>2. WriteInv(w)
    BY <2>1 DEF IInv, WritesInv
  <2>3. QED
    BY <2>2 DEF WriteInv
<1>2. QED
  BY <1>1, Invariance, PTL

-----------------------------------------------------------------------------
(* The quads of a map of graphs.                                            *)

QuadsOf(gs) == {<<h.graph, h.triple>> : h \in AllHits(gs)}

LEMMA QuadsAre ==
    ASSUME NEW gs
    PROVE  QuadsOf(gs) = UNION {{<<n, t>> : t \in Range(gs[n])} : n \in DOMAIN gs}
<1> DEFINE union == UNION {{<<n, t>> : t \in Range(gs[n])} : n \in DOMAIN gs}
<1>1. ASSUME NEW q \in QuadsOf(gs)
      PROVE  q \in union
  <2>1. PICK n \in DOMAIN gs : \E i \in DOMAIN gs[n] : q = <<n, gs[n][i]>>
    BY DEF QuadsOf, AllHits, HitsIn
  <2> PICK i \in DOMAIN gs[n] : q = <<n, gs[n][i]>>
    BY <2>1
  <2>2. gs[n][i] \in Range(gs[n])
    BY DEF Range
  <2>3. QED
    BY <2>2
<1>2. ASSUME NEW q \in union
      PROVE  q \in QuadsOf(gs)
  <2>0. PICK n \in DOMAIN gs : q \in {<<n, t>> : t \in Range(gs[n])}
    OBVIOUS
  <2>1. PICK t \in Range(gs[n]) : q = <<n, t>>
    BY <2>0
  <2>2. PICK i \in DOMAIN gs[n] : t = gs[n][i]
    BY DEF Range
  <2> DEFINE hit == [graph |-> n, pos |-> i, triple |-> gs[n][i]]
  <2>3. hit \in AllHits(gs)
    BY DEF AllHits, HitsIn
  <2>4. q = <<hit.graph, hit.triple>>
    BY <2>1, <2>2
  <2>5. QED
    BY <2>3, <2>4 DEF QuadsOf
<1>3. QED
  BY <1>1, <1>2

LEMMA QuadMembership ==
    ASSUME NEW gs, NEW n, NEW t
    PROVE  <<n, t>> \in QuadsOf(gs) <=> n \in DOMAIN gs /\ t \in Range(gs[n])
BY QuadsAre

(* A write adds the quads of its batch, and no others.                      *)
LEMMA ExtendQuads ==
    ASSUME NEW gs, IsGraphMap(gs), NEW g \in GraphName, NEW batch \in Seq(Triple)
    PROVE  QuadsOf(Extend(gs, g, batch)) = QuadsOf(gs) \cup {<<g, t>> : t \in Range(batch)}
<1> DEFINE ext == Extend(gs, g, batch)
<1>1. DOMAIN ext = DOMAIN gs \cup {g}
  BY ExtendType
<1>2. \A n \in DOMAIN gs \ {g} : ext[n] = gs[n]
  BY ExtendContent
<1>3. Range(ext[g]) = (IF g \in DOMAIN gs THEN Range(gs[g]) ELSE {}) \cup Range(batch)
  BY ExtendContent
<1> HIDE DEF ext
<1>4. ASSUME NEW n, NEW t
      PROVE  <<n, t>> \in QuadsOf(ext)
                <=> <<n, t>> \in QuadsOf(gs) \/ (n = g /\ t \in Range(batch))
  <2>1. CASE n = g
    BY <1>1, <1>3, <2>1, QuadMembership
  <2>2. CASE n # g
    BY <1>1, <1>2, <2>2, QuadMembership
  <2>3. QED
    BY <2>1, <2>2
<1>5. \A q \in QuadsOf(ext) : \E n, t : q = <<n, t>>
  BY DEF QuadsOf
<1>6. \A q \in QuadsOf(gs) : \E n, t : q = <<n, t>>
  BY DEF QuadsOf
<1>7. ASSUME NEW q \in QuadsOf(ext)
      PROVE  q \in QuadsOf(gs) \cup {<<g, t>> : t \in Range(batch)}
  <2>1. PICK n, t : q = <<n, t>>
    BY <1>5
  <2>2. QED
    BY <1>4, <2>1
<1>8. ASSUME NEW q \in QuadsOf(gs) \cup {<<g, t>> : t \in Range(batch)}
      PROVE  q \in QuadsOf(ext)
  <2>1. CASE q \in QuadsOf(gs)
    BY <1>4, <1>6, <2>1
  <2>2. CASE q \in {<<g, t>> : t \in Range(batch)}
    BY <1>4, <2>2
  <2>3. QED
    BY <2>1, <2>2
<1>9. QED
  BY <1>7, <1>8 DEF ext

-----------------------------------------------------------------------------
(* What an ingest has still to insert is a batch of the abstract store, for *)
(* one of its graphs.                                                       *)

PendingInv(r) ==
    req[r].pc = "writing" /\ req[r].todo # {} =>
        /\ req[r].graph \in TargetGraphs
        /\ \A t \in req[r].todo : {t} \in Batches

PendingsInv == \A r \in Requests : PendingInv(r)

(* A DID that FOXDEN holds has more than one part, so that its graph does   *)
(* not depend on the fresh UUID.                                            *)
LEMMA FetchTargets ==
    ASSUME NEW did \in FoxdenDids, NEW v \in Versions, NEW uuid
    PROVE  /\ GraphIRIFromDID(did, uuid) \in TargetGraphs
           /\ \A t \in RecordToTriples[did][v] : {t} \in Batches
<1>1. ~(Len(did) < 2)
  <2>1. did \in Seq(Part) /\ Len(did) > 1
    BY DataServiceAssumption DEF Did
  <2>2. QED
    BY <2>1
<1>2. GraphIRIFromDID(did, uuid) = GraphIRIFromDID(did, [key |-> "", val |-> ""])
  BY <1>1 DEF GraphIRIFromDID
<1>3. RecordToTriples[did][v] \in Range(RecordToTriples[did])
  BY DataServiceAssumption DEF Range
<1>4. RecordToTriples[did][v] \in UNION {Range(RecordToTriples[d]) : d \in FoxdenDids}
  BY <1>3
<1>5. QED
  BY <1>2, <1>4 DEF TargetGraphs, Batches

LEMMA TargetsInit == Init => PendingsInv
<1>1. Init => \A r \in Requests : req[r].pc = "idle"
  <2>1. Idle.pc = "idle"
    BY DEF Idle
  <2>2. QED
    BY <2>1 DEF Init
<1>2. QED
  BY <1>1 DEF PendingsInv, PendingInv

LEMMA TargetsStep ==
    ASSUME IInv, PendingsInv, [Next]_vars
    PROVE  PendingsInv'
<1>1. req \in ReqType
  BY DEF IInv, TypeInv, TypeOK, ReqType
<1>2. ASSUME NEW r \in Requests, \A q \in Requests \ {r} : req'[q] = req[q], PendingInv(r)'
      PROVE  PendingsInv'
  <2>1. ASSUME NEW q \in Requests \ {r}
        PROVE  PendingInv(q)'
    BY <1>2 DEF PendingsInv, PendingInv
  <2>2. QED
    BY <1>2, <2>1 DEF PendingsInv
<1>3. ASSUME NEW r \in Requests, Send(r)
      PROVE  PendingsInv'
  <2>1. PICK c \in Calls : req' = Accepted(req, r, c, promised)
    BY <1>3 DEF Send, Accepted
  <2>2. req'[r].pc = "received"
    BY <1>1, <2>1, AcceptedSets
  <2>3. \A q \in Requests \ {r} : req'[q] = req[q]
    BY <1>1, <2>1, AssignmentsLocal
  <2>4. QED
    BY <1>2, <2>2, <2>3 DEF PendingInv
<1>4. ASSUME NEW r \in Requests, Quiet(r)
      PROVE  PendingsInv'
  <2>1. PICK c \in CodeType, hits \in SUBSET Hit, names \in SUBSET GraphName :
           req' = Refused(req, r, c) \/ req' = Answered(req, r, c, hits, names)
    BY <1>4 DEF Quiet
  <2>2. req'[r].pc = "answered"
    BY <1>1, <2>1, RefusedSets, AnsweredSets
  <2>3. \A q \in Requests \ {r} : req'[q] = req[q]
    BY <1>1, <2>1, AssignmentsLocal
  <2>4. QED
    BY <1>2, <2>2, <2>3 DEF PendingInv
<1>5. ASSUME NEW r \in Requests, TriplesInsert(r)
      PROVE  PendingsInv'
  <2> DEFINE ts == Range(req[r].call.body)
             g == GraphIRI(req[r].call.did)
  <2>1. req' = Inserted(req, r, ts, g)
    BY <1>5 DEF TriplesInsert, Inserted
  <2> HIDE DEF ts, g
  <2>2. req'[r].todo = req[r].todo
    BY <1>1, <2>1, WritingSets
  <2>3. req[r].todo = {}
    BY <1>5 DEF TriplesInsert, Received, IInv, WritesInv, WriteInv
  <2>4. \A q \in Requests \ {r} : req'[q] = req[q]
    BY <1>1, <2>1, AssignmentsLocal
  <2>5. QED
    BY <1>2, <2>2, <2>3, <2>4 DEF PendingInv
<1>6. ASSUME NEW r \in Requests, IngestFetch(r)
      PROVE  PendingsInv'
  <2> DEFINE did == req[r].call.did
             ts == RecordToTriples[did][foxden[did]]
             g == GraphIRIFromDID(did, [key |-> "", val |-> r])
  <2>1. req' = Fetched(req, r, ts, g)
    BY <1>6 DEF IngestFetch, Fetched
  <2>2. did \in FoxdenDids /\ foxden[did] # NoRecord
    BY <1>6 DEF IngestFetch
  <2>3. foxden[did] \in Versions
    BY <2>2 DEF IInv, TypeInv, TypeOK
  <2>4. g \in TargetGraphs /\ \A t \in ts : {t} \in Batches
    BY <2>2, <2>3, FetchTargets
  <2> HIDE DEF did, ts, g
  <2>5. req'[r].todo = ts /\ req'[r].graph = g
    BY <1>1, <2>1, WritingSets
  <2>6. \A q \in Requests \ {r} : req'[q] = req[q]
    BY <1>1, <2>1, AssignmentsLocal
  <2>7. PendingInv(r)'
    <3>1. g \in TargetGraphs' /\ \A t \in ts : {t} \in Batches'
      BY <2>4 DEF TargetGraphs, Batches
    <3>2. QED
      BY <2>5, <3>1 DEF PendingInv
  <2>8. QED
    BY <1>2, <2>6, <2>7
<1>7. ASSUME NEW r \in Requests, IngestInsert(r)
      PROVE  PendingsInv'
  <2>1. PICK t \in req[r].todo : req' = [req EXCEPT ![r].todo = @ \ {t}]
    BY <1>7 DEF IngestInsert
  <2>2. /\ \A q \in Requests \ {r} : req'[q] = req[q]
        /\ req'[r].pc = req[r].pc /\ req'[r].graph = req[r].graph
        /\ req'[r].todo \subseteq req[r].todo
    BY <1>1, <2>1 DEF ReqType, RequestType
  <2>3. PendingInv(r)
    BY DEF PendingsInv
  <2>4. PendingInv(r)'
    BY <2>2, <2>3 DEF PendingInv
  <2>5. QED
    BY <1>2, <2>2, <2>4
<1>8. ASSUME NEW r \in Requests, Created(r)
      PROVE  PendingsInv'
  <2>1. req' = Refused(req, r, 201)
    BY <1>8 DEF Created, Refused
  <2>2. req'[r].pc = "answered"
    BY <1>1, <2>1, RefusedSets
  <2>3. \A q \in Requests \ {r} : req'[q] = req[q]
    BY <1>1, <2>1, AssignmentsLocal
  <2>4. QED
    BY <1>2, <2>2, <2>3 DEF PendingInv
<1>9. ASSUME Restart
      PROVE  PendingsInv'
  <2>1. ASSUME NEW r \in Requests
        PROVE  req'[r].pc # "writing"
    <3>1. CASE req[r].pc \in Working
      BY <1>1, <1>9, <3>1 DEF Restart, ReqType, RequestType
    <3>2. CASE req[r].pc \notin Working
      BY <1>9, <3>2 DEF Restart, Working
    <3>3. QED
      BY <3>1, <3>2
  <2>2. QED
    BY <2>1 DEF PendingsInv, PendingInv
<1>10. ASSUME req' = req
       PROVE  PendingsInv'
  BY <1>10 DEF PendingsInv, PendingInv
<1>11. QED
  BY <1>3, <1>4, <1>5, <1>6, <1>7, <1>8, <1>9, <1>10, ServeCases
  DEF Next, vars, FoxdenUpdate, IInv

RInv == IInv /\ PendingsInv

LEMMA RefinementInvariance == Spec => []RInv
<1>1. Init => RInv
  BY InvInit, TargetsInit DEF RInv
<1>2. RInv /\ [Next]_vars => RInv'
  BY InvStep, TargetsStep DEF RInv
<1>3. QED
  BY <1>1, <1>2, PTL DEF Spec

-----------------------------------------------------------------------------
(* The promises.                                                            *)

LEMMA QuadsIs == Quads = QuadsOf(graphs)
BY DEF Quads, QuadsOf

(* A request that is not answered yet has promised nothing.                 *)
LEMMA AtWorkUnpromised ==
    ASSUME IInv, NEW r \in Requests, req[r].pc # "answered"
    PROVE  r \notin promised
BY DEF IInv, WritesInv, WriteInv

LEMMA PromisesUntouched ==
    ASSUME IInv, NEW r \in Requests, r \notin promised, promised' = promised,
           \A q \in Requests \ {r} : req'[q] = req[q]
    PROVE  PromisedQuads' = PromisedQuads
<1>1. \A w \in promised : req'[w] = req[w]
  BY DEF IInv, TypeInv, TypeOK
<1>2. QED
  BY <1>1 DEF PromisedQuads

LEMMA PromisesStored == IInv => PromisedQuads \subseteq Quads
<1> SUFFICES ASSUME IInv, NEW w \in promised, NEW t \in req[w].payload
             PROVE  <<req[w].graph, t>> \in Quads
  BY DEF PromisedQuads
<1>1. w \in Requests
  BY DEF IInv, TypeInv, TypeOK
<1>2. req[w].graph \in DOMAIN graphs /\ t \in Stored(req[w].graph)
  BY <1>1 DEF IInv, WritesInv, WriteInv
<1>3. QED
  BY <1>2, QuadMembership, QuadsIs DEF Stored

(* What a step does to quads and promises.                                  *)
Adds(g, batch) ==
    /\ Quads' = Quads \cup {<<g, t>> : t \in batch}
    /\ PromisedQuads' = PromisedQuads

Promises ==
    /\ Quads' = Quads
    /\ PromisedQuads \subseteq PromisedQuads'

Forgets ==
    /\ Quads' = QuadsOf(SeedGraphs)
    /\ PromisedQuads' = {}

LEMMA UnwrittenQuads ==
    ASSUME graphs' = graphs
    PROVE  Quads' = Quads
BY DEF Quads

LEMMA StepEffects ==
    ASSUME RInv, [Next]_vars
    PROVE  \/ \E g \in TargetGraphs, batch \in Batches : Adds(g, batch)
           \/ Promises
           \/ Forgets
<1>1. req \in ReqType /\ IsGraphMap(graphs) /\ IInv
  BY DEF RInv, IInv, TypeInv, TypeOK, ReqType
<1>2. ASSUME NEW r \in Requests, req[r].pc # "answered", graphs' = graphs,
             promised' = promised, \A q \in Requests \ {r} : req'[q] = req[q]
      PROVE  Promises
  <2>1. PromisedQuads' = PromisedQuads
    BY <1>1, <1>2, AtWorkUnpromised, PromisesUntouched
  <2>2. QED
    BY <1>2, <2>1, UnwrittenQuads DEF Promises
<1>3. ASSUME NEW r \in Requests, Send(r)
      PROVE  Promises
  <2>1. PICK c \in Calls : req' = Accepted(req, r, c, promised)
    BY <1>3 DEF Send, Accepted
  <2>2. \A q \in Requests \ {r} : req'[q] = req[q]
    BY <1>1, <2>1, AssignmentsLocal
  <2>3. QED
    BY <1>2, <1>3, <2>2 DEF Send
<1>4. ASSUME NEW r \in Requests, Quiet(r)
      PROVE  Promises
  <2>1. PICK c \in CodeType, hits \in SUBSET Hit, names \in SUBSET GraphName :
           req' = Refused(req, r, c) \/ req' = Answered(req, r, c, hits, names)
    BY <1>4 DEF Quiet
  <2>2. \A q \in Requests \ {r} : req'[q] = req[q]
    BY <1>1, <2>1, AssignmentsLocal
  <2>3. QED
    BY <1>2, <1>4, <2>2 DEF Quiet
<1>5. ASSUME NEW r \in Requests, TriplesInsert(r)
      PROVE  \E g \in TargetGraphs, batch \in Batches : Adds(g, batch)
  <2> DEFINE call == req[r].call
             ts == Range(call.body)
             g == GraphIRI(call.did)
  <2>1. call \in Calls
    BY <1>1, <1>5 DEF TriplesInsert, Received, IInv, TypeInv, CallsSent
  <2>2. g \in GraphName /\ call.body \in Seq(Triple)
    BY <2>1, CallFields, GraphIRIType
  <2>3. g \in TargetGraphs /\ ts \in Batches
    BY <2>1 DEF TargetGraphs, Batches
  <2>4. graphs' = Extend(graphs, g, call.body)
    BY <1>5 DEF TriplesInsert, InsertForDataset
  <2>5. QuadsOf(graphs') = QuadsOf(graphs) \cup {<<g, t>> : t \in ts}
    BY <1>1, <2>2, <2>4, ExtendQuads
  <2>6. Quads' = Quads \cup {<<g, t>> : t \in ts}
    BY <2>5 DEF Quads, QuadsOf
  <2>7. req' = Inserted(req, r, ts, g)
    BY <1>5 DEF TriplesInsert, Inserted
  <2> HIDE DEF ts, g
  <2>8. \A q \in Requests \ {r} : req'[q] = req[q]
    BY <1>1, <2>7, AssignmentsLocal
  <2>9. req[r].pc = "received" /\ promised' = promised
    BY <1>5 DEF TriplesInsert, Received
  <2>10. PromisedQuads' = PromisedQuads
    BY <1>1, <2>8, <2>9, AtWorkUnpromised, PromisesUntouched
  <2>11. QED
    BY <2>3, <2>6, <2>10 DEF Adds
<1>6. ASSUME NEW r \in Requests, IngestFetch(r)
      PROVE  Promises
  <2> DEFINE did == req[r].call.did
             ts == RecordToTriples[did][foxden[did]]
             g == GraphIRIFromDID(did, [key |-> "", val |-> r])
  <2>1. req' = Fetched(req, r, ts, g)
    BY <1>6 DEF IngestFetch, Fetched
  <2> HIDE DEF did, ts, g
  <2>2. \A q \in Requests \ {r} : req'[q] = req[q]
    BY <1>1, <2>1, AssignmentsLocal
  <2>3. QED
    BY <1>2, <1>6, <2>2 DEF IngestFetch, Received
<1>7. ASSUME NEW r \in Requests, IngestInsert(r)
      PROVE  \E g \in TargetGraphs, batch \in Batches : Adds(g, batch)
  <2> DEFINE g == req[r].graph
  <2>1. PICK t \in req[r].todo :
           /\ graphs' = Extend(graphs, g, <<t>>)
           /\ req' = [req EXCEPT ![r].todo = @ \ {t}]
    BY <1>7 DEF IngestInsert, Insert
  <2>2. req[r].pc = "writing" /\ promised' = promised
    BY <1>7 DEF IngestInsert
  <2>3. g \in TargetGraphs /\ {t} \in Batches
    BY <2>1, <2>2 DEF RInv, PendingsInv, PendingInv
  <2>4. g \in GraphName /\ t \in Triple
    BY <1>1 DEF ReqType, RequestType
  <2>5. <<t>> \in Seq(Triple) /\ Range(<<t>>) = {t}
    BY <2>4, RangeOfSingleton
  <2>6. QuadsOf(graphs') = QuadsOf(graphs) \cup {<<g, u>> : u \in {t}}
    BY <1>1, <2>1, <2>4, <2>5, ExtendQuads
  <2>7. Quads' = Quads \cup {<<g, u>> : u \in {t}}
    BY <2>6 DEF Quads, QuadsOf
  <2>8. \A q \in Requests \ {r} : req'[q] = req[q]
    BY <1>1, <2>1 DEF ReqType
  <2>9. PromisedQuads' = PromisedQuads
    BY <1>1, <2>2, <2>8, AtWorkUnpromised, PromisesUntouched
  <2>10. QED
    BY <2>3, <2>7, <2>9 DEF Adds
<1>8. ASSUME NEW r \in Requests, Created(r)
      PROVE  Promises
  <2>1. req' = Refused(req, r, 201) /\ graphs' = graphs /\ promised' = promised \cup {r}
    BY <1>8 DEF Created, Refused
  <2>2. /\ req'[r].payload = req[r].payload
        /\ req'[r].graph = req[r].graph
    BY <1>1, <2>1, RefusedSets
  <2>3. \A q \in Requests \ {r} : req'[q] = req[q]
    BY <1>1, <2>1, AssignmentsLocal
  <2>4. \A w \in promised : req'[w].payload = req[w].payload /\ req'[w].graph = req[w].graph
    BY <1>1, <2>2, <2>3 DEF IInv, TypeInv, TypeOK
  <2>5. PromisedQuads \subseteq PromisedQuads'
    BY <2>1, <2>4 DEF PromisedQuads
  <2>6. QED
    BY <2>1, <2>5, UnwrittenQuads DEF Promises
<1>9. ASSUME Restart
      PROVE  Forgets
  BY <1>9 DEF Restart, Forgets, Quads, QuadsOf, PromisedQuads
<1>10. ASSUME graphs' = graphs, req' = req, promised' = promised
       PROVE  Promises
  BY <1>10, UnwrittenQuads DEF Promises, PromisedQuads
<1>11. QED
  BY <1>1, <1>3, <1>4, <1>5, <1>6, <1>7, <1>8, <1>9, <1>10, ServeCases
  DEF Next, vars, FoxdenUpdate, IInv

(* The service over the in-memory store is a store of quads: a batch of the *)
(* dataset route appears at once, triples of an ingest one by one, nothing  *)
(* goes but by a restart, which takes the promises along, and only what is  *)
(* stored is promised.                                                      *)
THEOREM ImplementsStore == Spec => ImplementsGraphStore
<1>1. Init => Abstract!Init
  BY DEF Init, Abstract!Init, Quads, PromisedQuads
<1>2. RInv /\ RInv' /\ [Next]_vars => [Abstract!Next]_(Abstract!storeVars)
  <2> SUFFICES ASSUME RInv, RInv', [Next]_vars
               PROVE  Abstract!Next
    OBVIOUS
  <2>1. ASSUME NEW g \in TargetGraphs, NEW batch \in Batches, Adds(g, batch)
        PROVE  Abstract!Next
    <3>1. Abstract!Insert(g, batch)
      BY <2>1 DEF Adds, Abstract!Insert
    <3>2. QED
      BY <3>1 DEF Abstract!Next, Abstract!DurableNext
  <2>2. CASE Promises
    <3>1. IInv'
      BY DEF RInv
    <3>2. (PromisedQuads \subseteq Quads)'
      BY <3>1, PromisesStored, PTL
    <3>3. Abstract!Acknowledge
      BY <2>2, <3>2 DEF Promises, Abstract!Acknowledge
    <3>4. QED
      BY <3>3 DEF Abstract!Next, Abstract!DurableNext
  <2>3. CASE Forgets
    <3>1. Abstract!Restart
      BY <2>3 DEF Forgets, QuadsOf, Abstract!Restart
    <3>2. QED
      BY <3>1 DEF Abstract!Next
  <2>4. QED
    BY <2>1, <2>2, <2>3, StepEffects
<1>3. QED
  BY <1>1, <1>2, RefinementInvariance, PTL DEF Spec, ImplementsGraphStore, Abstract!Spec

-----------------------------------------------------------------------------
(* More of what the assignments of a step set and keep.                     *)

LEMMA BeforeKept ==
    ASSUME NEW f \in ReqType, NEW r \in Requests, NEW a, NEW b, NEW c
    PROVE  /\ Refused(f, r, a)[r].before = f[r].before
           /\ Answered(f, r, a, b, c)[r].before = f[r].before
           /\ Inserted(f, r, a, b)[r].before = f[r].before
           /\ Fetched(f, r, a, b)[r].before = f[r].before
<1>1. Refused(f, r, a)[r].before = f[r].before
  BY DEF Refused, ReqType, RequestType
<1>2. Answered(f, r, a, b, c)[r].before = f[r].before
  BY DEF Answered, ReqType, RequestType
<1>3. Inserted(f, r, a, b)[r].before = f[r].before
  BY DEF Inserted, ReqType, RequestType
<1>4. Fetched(f, r, a, b)[r].before = f[r].before
  BY DEF Fetched, ReqType, RequestType
<1>5. QED
  BY <1>1, <1>2, <1>3, <1>4

LEMMA AnswerFields ==
    ASSUME NEW f \in ReqType, NEW r \in Requests, NEW c, NEW hits, NEW names
    PROVE  /\ Refused(f, r, c)[r].code = c
           /\ Answered(f, r, c, hits, names)[r].hits = hits
           /\ Answered(f, r, c, hits, names)[r].names = names
<1>1. Refused(f, r, c)[r].code = c
  BY DEF Refused, ReqType, RequestType
<1>2. Answered(f, r, c, hits, names)[r].hits = hits
  BY DEF Answered, ReqType, RequestType
<1>3. Answered(f, r, c, hits, names)[r].names = names
  BY DEF Answered, ReqType, RequestType
<1>4. QED
  BY <1>1, <1>2, <1>3

LEMMA AcceptedBefore ==
    ASSUME NEW f \in ReqType, NEW r \in Requests, NEW c, NEW before
    PROVE  Accepted(f, r, c, before)[r].before = before
BY DEF Accepted, ReqType, RequestType

-----------------------------------------------------------------------------
(* The inductive invariant, beyond IInv.  A write aims at the graph of its  *)
(* DID, whichever derivation named it, and has made it by the time it is    *)
(* promised; a request that is about to read was sent after promises that   *)
(* still hold; and what a read that has been answered saw does not change.  *)

AimsAt(w) ==
    LET did == req[w].call.did IN
    /\ did \in Did
    /\ req[w].graph = GraphIRI(did)
    /\ Len(did) > 1 \/ BeamlineSegment(did) \in ValidNames

TargetInv(w) ==
    req[w].pc = "writing" \/ w \in promised =>
        /\ AimsAt(w)
        /\ req[w].graph \in DOMAIN graphs \/ req[w].todo # {}

BeforeInv(r) ==
    /\ \A w \in req[r].before : w \in Requests /\ req[w].pc = "answered"
    /\ req[r].pc = "received" => req[r].before \subseteq promised

SeesWrite(r, w, op) ==
    IF op \in {"graphs", "allGraphs"} THEN req[w].graph \in req[r].names
    ELSE \A t \in req[w].payload :
            Matches(t, req[r].call.pattern) => \E h \in req[r].hits : h.triple = t

Sees(r) ==
    \A op \in Reads : FoundBy(r, op) /\ Uncut(r) =>
        \A w \in req[r].before : InScope(req[r].call, req[w].call.did) => SeesWrite(r, w, op)

ReadsInv == \A r \in Requests : TargetInv(r) /\ BeforeInv(r) /\ Sees(r)

SInv == IInv /\ ReadsInv

(* A step of one request that is not answered yet keeps what is known of    *)
(* the other ones.                                                          *)
LEMMA ReadsOthersKept ==
    ASSUME SInv, NEW r \in Requests, req[r].pc # "answered", Grows(graphs, graphs'),
           \A q \in Requests \ {r} : req'[q] = req[q],
           promised \subseteq promised', promised' \subseteq promised \cup {r},
           TargetInv(r)', BeforeInv(r)', Sees(r)'
    PROVE  ReadsInv'
<1>1. ASSUME NEW q \in Requests \ {r}
      PROVE  TargetInv(q)' /\ BeforeInv(q)' /\ Sees(q)'
  <2>1. /\ TargetInv(q) /\ BeforeInv(q) /\ Sees(q)
        /\ req'[q] = req[q] /\ (q \in promised' => q \in promised)
    BY DEF SInv, ReadsInv
  <2>2. \A w \in req[q].before : w \in Requests /\ w # r /\ req'[w] = req[w]
    BY <2>1 DEF BeforeInv
  <2>3. TargetInv(q)'
    BY <2>1 DEF TargetInv, AimsAt, Grows
  <2>4. BeforeInv(q)'
    BY <2>1, <2>2 DEF BeforeInv
  <2>5. Sees(q)'
    BY <2>1, <2>2 DEF Sees, SeesWrite, FoundBy, Uncut
  <2>6. QED
    BY <2>3, <2>4, <2>5
<1>2. QED
  BY <1>1 DEF ReadsInv

LEMMA ReadsInit == Init => ReadsInv
<1> SUFFICES ASSUME Init, NEW r \in Requests
             PROVE  TargetInv(r) /\ BeforeInv(r) /\ Sees(r)
  BY DEF ReadsInv
<1>1. req[r].pc = "idle" /\ req[r].before = {} /\ promised = {}
  <2>1. Idle.pc = "idle" /\ Idle.before = {}
    BY DEF Idle
  <2>2. QED
    BY <2>1 DEF Init
<1>2. QED
  BY <1>1 DEF TargetInv, BeforeInv, Sees

LEMMA SendSees ==
    ASSUME SInv, NEW r \in Requests, Send(r)
    PROVE  ReadsInv'
<1>1. req \in ReqType
  BY DEF SInv, IInv, TypeInv, TypeOK, ReqType
<1>2. PICK c \in Calls : req' = Accepted(req, r, c, promised)
  BY DEF Send, Accepted
<1>3. req[r].pc = "idle" /\ graphs' = graphs /\ promised' = promised
  BY DEF Send
<1>4. req'[r].pc = "received" /\ req'[r].before = promised
  BY <1>1, <1>2, AcceptedSets, AcceptedBefore
<1>5. \A q \in Requests \ {r} : req'[q] = req[q]
  BY <1>1, <1>2, AssignmentsLocal
<1>6. /\ r \notin promised /\ promised \subseteq Requests
      /\ \A w \in promised : req[w].pc = "answered"
  BY <1>3 DEF SInv, IInv, TypeInv, TypeOK, WritesInv, WriteInv
<1>7. TargetInv(r)' /\ Sees(r)'
  BY <1>3, <1>4, <1>6 DEF TargetInv, Sees, FoundBy
<1>8. BeforeInv(r)'
  BY <1>3, <1>4, <1>5, <1>6 DEF BeforeInv
<1>9. QED
  BY <1>3, <1>5, <1>7, <1>8, GrowsReflexive, ReadsOthersKept

(* What is needed of an answer: that it sees, if it is one of a read.       *)
LEMMA AnswerSees ==
    ASSUME SInv, NEW r \in Requests, Quiet(r), Sees(r)'
    PROVE  ReadsInv'
<1>1. req \in ReqType
  BY DEF SInv, IInv, TypeInv, TypeOK, ReqType
<1>2. PICK c \in CodeType, hits \in SUBSET Hit, names \in SUBSET GraphName :
         req' = Refused(req, r, c) \/ req' = Answered(req, r, c, hits, names)
  BY DEF Quiet
<1>3. req[r].pc = "received" /\ graphs' = graphs /\ promised' = promised
  BY DEF Quiet
<1>4. req'[r].pc = "answered" /\ req'[r].before = req[r].before
  BY <1>1, <1>2, RefusedSets, AnsweredSets, BeforeKept
<1>5. \A q \in Requests \ {r} : req'[q] = req[q]
  BY <1>1, <1>2, AssignmentsLocal
<1>6. r \notin promised
  BY <1>3 DEF SInv, IInv, WritesInv, WriteInv
<1>7. TargetInv(r)'
  BY <1>3, <1>4, <1>6 DEF TargetInv
<1>8. BeforeInv(r)'
  BY <1>3, <1>4, <1>5 DEF SInv, ReadsInv, BeforeInv
<1>9. QED
  BY <1>3, <1>5, <1>7, <1>8, GrowsReflexive, ReadsOthersKept

LEMMA RefuseSees ==
    ASSUME SInv, NEW r \in Requests, req[r].pc = "received", NEW c \in CodeType,
           Refuse(r, c), c # 200 \/ req[r].call.op = "validate"
    PROVE  ReadsInv'
<1>1. req \in ReqType
  BY DEF SInv, IInv, TypeInv, TypeOK, ReqType
<1>2. req' = Refused(req, r, c)
  BY DEF Refuse, Refused
<1>3. req'[r].code = c /\ req'[r].call = req[r].call
  BY <1>1, <1>2, AnswerFields, RefusedSets
<1>4. Sees(r)'
  BY <1>3 DEF Sees, FoundBy, Reads
<1>5. QED
  BY <1>4, RefuseIsQuiet, AnswerSees

-----------------------------------------------------------------------------
(* The reads.                                                               *)

LEMMA HitOf ==
    ASSUME NEW gs, NEW g \in DOMAIN gs, NEW t \in Range(gs[g])
    PROVE  \E h \in AllHits(gs) : h.graph = g /\ h.triple = t
<1>1. PICK i \in DOMAIN gs[g] : t = gs[g][i]
  BY DEF Range
<1> DEFINE hit == [graph |-> g, pos |-> i, triple |-> gs[g][i]]
<1>2. hit \in AllHits(gs)
  BY DEF AllHits, HitsIn
<1>3. hit.graph = g /\ hit.triple = t
  BY <1>1
<1>4. QED
  BY <1>2, <1>3

(* What a request about to read was promised is there to be found.          *)
LEMMA PromisedThere ==
    ASSUME SInv, NEW r \in Requests, req[r].pc = "received", NEW w \in req[r].before
    PROVE  /\ w \in Requests /\ w # r /\ AimsAt(w)
           /\ req[w].graph \in DOMAIN graphs
           /\ \A t \in req[w].payload :
                 \E h \in AllHits(graphs) : h.graph = req[w].graph /\ h.triple = t
<1>1. w \in promised /\ w \in Requests /\ req[w].pc = "answered"
  BY DEF SInv, ReadsInv, BeforeInv
<1>2. /\ req[w].todo = {}
      /\ \A t \in req[w].payload \ req[w].todo :
            req[w].graph \in DOMAIN graphs /\ t \in Stored(req[w].graph)
  BY <1>1 DEF SInv, IInv, WritesInv, WriteInv
<1>3. AimsAt(w) /\ req[w].graph \in DOMAIN graphs
  BY <1>1, <1>2 DEF SInv, ReadsInv, TargetInv
<1>4. \A t \in req[w].payload : t \in Range(graphs[req[w].graph])
  BY <1>2 DEF Stored
<1>5. QED
  BY <1>1, <1>3, <1>4, HitOf

(* A read's answer sees when its hits, or its names, cover each promise.    *)
LEMMA FoundSees ==
    ASSUME SInv, NEW r \in Requests, req[r].pc = "received", req[r].call.op \in Reads,
           NEW hits \in SUBSET Hit, NEW names \in SUBSET GraphName, Found(r, hits, names),
           \A w \in req[r].before : InScope(req[r].call, req[w].call.did) =>
              IF req[r].call.op \in {"graphs", "allGraphs"} THEN req[w].graph \in names
              ELSE (req[r].call.op = "global" => Cardinality(hits) < ResultLimit) =>
                   \A t \in req[w].payload :
                      Matches(t, req[r].call.pattern) => \E h \in hits : h.triple = t
    PROVE  ReadsInv'
<1>1. req \in ReqType
  BY DEF SInv, IInv, TypeInv, TypeOK, ReqType
<1>2. req' = Answered(req, r, 200, hits, names)
  BY DEF Found, Answered
<1>3. /\ req'[r].hits = hits /\ req'[r].names = names /\ req'[r].call = req[r].call
      /\ req'[r].before = req[r].before
  BY <1>1, <1>2, AnswerFields, AnsweredSets, BeforeKept
<1>4. \A q \in Requests \ {r} : req'[q] = req[q]
  BY <1>1, <1>2, AssignmentsLocal
<1>5. Sees(r)'
  <2> SUFFICES ASSUME NEW op \in Reads, FoundBy(r, op)', Uncut(r)',
                      NEW w \in req'[r].before, InScope(req'[r].call, req'[w].call.did)
               PROVE  SeesWrite(r, w, op)'
    BY DEF Sees
  <2>1. op = req[r].call.op /\ (op = "global" => Cardinality(hits) < ResultLimit)
    BY <1>3 DEF FoundBy, Uncut
  <2>2. w \in req[r].before /\ w # r /\ w \in Requests
    BY <1>3, PromisedThere
  <2>3. req'[w] = req[w]
    BY <1>4, <2>2
  <2>4. InScope(req[r].call, req[w].call.did)
    BY <1>3, <2>3
  <2>5. QED
    BY <1>3, <2>1, <2>2, <2>3, <2>4 DEF SeesWrite
<1>6. QED
  BY <1>5, FoundIsQuiet, AnswerSees

LEMMA DatasetSees ==
    ASSUME SInv, NEW r \in Requests, DatasetHandler(r)
    PROVE  ReadsInv'
<1> DEFINE call == req[r].call
           hits == QueryDataset(graphs, call.did, call.pattern)
<1>1. /\ req[r].pc = "received" /\ call.op = "dataset" /\ Found(r, hits, {})
      /\ BeamlineSegment(call.did) \in ValidNames
  BY DEF DatasetHandler, Received, RefOfPath, ValidRef
<1>2. call \in Calls /\ call.did \in Did
  BY <1>1, CallFields DEF SInv, IInv, TypeInv, CallsSent
<1>3. hits \subseteq Hit
  BY HitsType DEF QueryDataset, Query, SInv, IInv, TypeInv, TypeOK
<1>4. ASSUME NEW w \in req[r].before, InScope(call, req[w].call.did),
             NEW t \in req[w].payload, Matches(t, call.pattern)
      PROVE  \E h \in hits : h.triple = t
  <2>1. AimsAt(w)
    BY <1>1, PromisedThere
  <2>2. PICK h \in AllHits(graphs) : h.graph = req[w].graph /\ h.triple = t
    BY <1>1, PromisedThere
  <2>3. Canonical(req[w].call.did) = Canonical(call.did)
    BY <1>1, <1>4 DEF InScope
  <2>4. GraphIRI(req[w].call.did) = GraphIRI(call.did)
    BY <1>1, <1>2, <2>1, <2>3, OneGraph DEF AimsAt
  <2>5. h.graph = GraphIRI(call.did)
    BY <2>1, <2>2, <2>4 DEF AimsAt
  <2>6. h \in hits
    BY <1>4, <2>2, <2>5 DEF QueryDataset, Query
  <2>7. QED
    BY <2>2, <2>6
<1> HIDE DEF hits
<1>5. QED
  BY <1>1, <1>3, <1>4, FoundSees DEF Reads

LEMMA BeamlineSees ==
    ASSUME SInv, NEW r \in Requests, BeamlineHandler(r)
    PROVE  ReadsInv'
<1> DEFINE call == req[r].call
           hits == QueryBeamline(graphs, call.beamline, call.pattern)
<1>1. /\ req[r].pc = "received" /\ call.op = "beamline" /\ Found(r, hits, {})
      /\ Lower[call.beamline] = call.beamline
  BY NamesAssumption DEF BeamlineHandler, Received
<1>2. hits \subseteq Hit
  BY HitsType DEF QueryBeamline, SInv, IInv, TypeInv, TypeOK
<1>3. ASSUME NEW w \in req[r].before, InScope(call, req[w].call.did),
             NEW t \in req[w].payload, Matches(t, call.pattern)
      PROVE  \E h \in hits : h.triple = t
  <2>1. AimsAt(w) /\ req[w].graph \in DOMAIN graphs
    BY <1>1, PromisedThere
  <2>2. PICK h \in AllHits(graphs) : h.graph = req[w].graph /\ h.triple = t
    BY <1>1, PromisedThere
  <2>3. Lower[BeamlineSegment(req[w].call.did)] = call.beamline
    BY <1>1, <1>3 DEF InScope
  <2>4. req[w].graph.bl = call.beamline
    BY <2>1, <2>3 DEF AimsAt, GraphIRI
  <2>5. h.graph \in DatasetsForBeamline(graphs, call.beamline)
    BY <1>1, <2>1, <2>2, <2>4 DEF DatasetsForBeamline
  <2>6. h \in hits
    BY <1>3, <2>2, <2>5 DEF QueryBeamline
  <2>7. QED
    BY <2>2, <2>6
<1> HIDE DEF hits
<1>4. QED
  BY <1>1, <1>2, <1>3, FoundSees DEF Reads

LEMMA BeamlineGraphsSees ==
    ASSUME SInv, NEW r \in Requests, BeamlineGraphsHandler(r)
    PROVE  ReadsInv'
<1> DEFINE call == req[r].call
           names == DatasetsForBeamline(graphs, call.beamline)
<1>1. /\ req[r].pc = "received" /\ call.op = "graphs" /\ Found(r, {}, names)
      /\ Lower[call.beamline] = call.beamline
  BY NamesAssumption DEF BeamlineGraphsHandler, Received
<1>2. names \subseteq GraphName
  BY DEF DatasetsForBeamline, SInv, IInv, TypeInv, TypeOK, IsGraphMap
<1>3. ASSUME NEW w \in req[r].before, InScope(call, req[w].call.did)
      PROVE  req[w].graph \in names
  <2>1. AimsAt(w) /\ req[w].graph \in DOMAIN graphs
    BY <1>1, PromisedThere
  <2>2. Lower[BeamlineSegment(req[w].call.did)] = call.beamline
    BY <1>1, <1>3 DEF InScope
  <2>3. req[w].graph.bl = call.beamline
    BY <2>1, <2>2 DEF AimsAt, GraphIRI
  <2>4. QED
    BY <1>1, <2>1, <2>3 DEF DatasetsForBeamline
<1> HIDE DEF names
<1>4. QED
  BY <1>1, <1>2, <1>3, FoundSees DEF Reads

LEMMA GraphsSees ==
    ASSUME SInv, NEW r \in Requests, GraphsHandler(r)
    PROVE  ReadsInv'
<1>1. req[r].pc = "received" /\ req[r].call.op = "allGraphs" /\ Found(r, {}, DOMAIN graphs)
  BY DEF GraphsHandler, Received
<1>2. DOMAIN graphs \subseteq GraphName
  BY DEF SInv, IInv, TypeInv, TypeOK, IsGraphMap
<1>3. \A w \in req[r].before : req[w].graph \in DOMAIN graphs
  BY <1>1, PromisedThere
<1>4. QED
  BY <1>1, <1>2, <1>3, FoundSees DEF Reads

LEMMA GlobalSees ==
    ASSUME SInv, NEW r \in Requests, GlobalHandler(r)
    PROVE  ReadsInv'
<1> DEFINE call == req[r].call
<1>1. PICK cut \in Cuts(Resolve(call)) : Found(r, cut, {})
  BY DEF GlobalHandler
<1>2. req[r].pc = "received" /\ call.op = "global"
  BY DEF GlobalHandler, Received
<1>3. cut \subseteq Hit
  <2>1. Resolve(call) \subseteq Hit
    BY HitsType DEF Resolve, Describe, KeywordSearch, Query, SInv, IInv, TypeInv, TypeOK
  <2>2. QED
    BY <2>1, CutsOfHits
<1>4. ASSUME NEW w \in req[r].before, InScope(call, req[w].call.did),
             Cardinality(cut) < ResultLimit,
             NEW t \in req[w].payload, Matches(t, call.pattern)
      PROVE  \E h \in cut : h.triple = t
  <2>1. PICK h \in AllHits(graphs) : h.graph = req[w].graph /\ h.triple = t
    BY <1>2, PromisedThere
  <2>2. call.filter = {} /\ call.describe = Wildcard /\ call.search = Wildcard
    BY <1>2, <1>4 DEF InScope
  <2>3. h \in Resolve(call)
    BY <1>4, <2>1, <2>2 DEF Resolve, Query
  <2>4. cut = Resolve(call)
    <3>1. Cardinality(cut) # ResultLimit
      BY <1>4, DataServiceAssumption
    <3>2. QED
      BY <1>1, <3>1 DEF Cuts
  <2>5. QED
    BY <2>1, <2>3, <2>4
<1> HIDE DEF call
<1>5. QED
  BY <1>1, <1>2, <1>3, <1>4, FoundSees DEF Reads, call

-----------------------------------------------------------------------------
(* The writes.                                                              *)

LEMMA TriplesInsertSees ==
    ASSUME SInv, NEW r \in Requests, TriplesInsert(r)
    PROVE  ReadsInv'
<1> DEFINE call == req[r].call
           ts == Range(call.body)
           g == GraphIRI(call.did)
<1>1. req \in ReqType /\ IsGraphMap(graphs)
  BY DEF SInv, IInv, TypeInv, TypeOK, ReqType
<1>2. call \in Calls
  BY DEF TriplesInsert, Received, SInv, IInv, TypeInv, CallsSent
<1>3. g \in GraphName /\ call.body \in Seq(Triple) /\ call.did \in Did
  BY <1>2, CallFields, GraphIRIType
<1>4. graphs' = Extend(graphs, g, call.body)
  BY DEF TriplesInsert, InsertForDataset
<1>5. req' = Inserted(req, r, ts, g)
  BY DEF TriplesInsert, Inserted
<1>6. /\ req[r].pc = "received" /\ promised' = promised
      /\ BeamlineSegment(call.did) \in ValidNames
  BY DEF TriplesInsert, Received, RefOfPath, ValidRef
<1>7. Grows(graphs, graphs') /\ g \in DOMAIN graphs'
  BY <1>1, <1>3, <1>4, ExtendGrows
<1>8. g = GraphIRI(call.did)
  OBVIOUS
<1> HIDE DEF ts, g
<1>9. /\ req'[r].pc = "writing" /\ req'[r].graph = g /\ req'[r].call = call
      /\ req'[r].before = req[r].before
  BY <1>1, <1>5, WritingSets, BeforeKept
<1>10. \A q \in Requests \ {r} : req'[q] = req[q]
  BY <1>1, <1>5, AssignmentsLocal
<1>11. TargetInv(r)'
  BY <1>3, <1>6, <1>7, <1>8, <1>9 DEF TargetInv, AimsAt
<1>12. BeforeInv(r)'
  BY <1>6, <1>9, <1>10 DEF SInv, ReadsInv, BeforeInv
<1>13. Sees(r)'
  BY <1>9 DEF Sees, FoundBy
<1>14. QED
  BY <1>6, <1>7, <1>10, <1>11, <1>12, <1>13, ReadsOthersKept

LEMMA IngestFetchSees ==
    ASSUME SInv, NEW r \in Requests, IngestFetch(r)
    PROVE  ReadsInv'
<1> DEFINE did == req[r].call.did
           ts == RecordToTriples[did][foxden[did]]
           g == GraphIRIFromDID(did, [key |-> "", val |-> r])
<1>1. req \in ReqType
  BY DEF SInv, IInv, TypeInv, TypeOK, ReqType
<1>2. req' = Fetched(req, r, ts, g)
  BY DEF IngestFetch, Fetched
<1>3. req[r].pc = "received" /\ graphs' = graphs /\ promised' = promised
  BY DEF IngestFetch, Received
<1>4. did \in FoxdenDids /\ foxden[did] \in Versions
  BY DEF IngestFetch, SInv, IInv, TypeInv, TypeOK
<1>5. ts # {}
  BY DEF IngestFetch
<1>6. did \in Did /\ Len(did) > 1 /\ did[1].key = "beamline"
  BY <1>4, DataServiceAssumption
<1>7. g = GraphIRI(did)
  BY <1>6, DerivationsAgree
<1> HIDE DEF ts, g
<1>8. /\ req'[r].pc = "writing" /\ req'[r].todo = ts /\ req'[r].graph = g
      /\ req'[r].call = req[r].call /\ req'[r].before = req[r].before
  BY <1>1, <1>2, WritingSets, BeforeKept
<1>9. \A q \in Requests \ {r} : req'[q] = req[q]
  BY <1>1, <1>2, AssignmentsLocal
<1>10. TargetInv(r)'
  BY <1>5, <1>6, <1>7, <1>8 DEF TargetInv, AimsAt
<1>11. BeforeInv(r)'
  BY <1>3, <1>8, <1>9 DEF SInv, ReadsInv, BeforeInv
<1>12. Sees(r)'
  BY <1>8 DEF Sees, FoundBy
<1>13. QED
  BY <1>3, <1>9, <1>10, <1>11, <1>12, GrowsReflexive, ReadsOthersKept

LEMMA IngestInsertSees ==
    ASSUME SInv, NEW r \in Requests, IngestInsert(r)
    PROVE  ReadsInv'
<1> DEFINE g == req[r].graph
<1>1. req \in ReqType /\ IsGraphMap(graphs) /\ TargetInv(r) /\ BeforeInv(r)
  BY DEF SInv, ReadsInv, IInv, TypeInv, TypeOK, ReqType
<1>2. PICK t \in req[r].todo :
         /\ graphs' = Extend(graphs, g, <<t>>)
         /\ req' = [req EXCEPT ![r].todo = @ \ {t}]
  BY DEF IngestInsert, Insert
<1>3. req[r].pc = "writing" /\ promised' = promised
  BY DEF IngestInsert
<1>4. g \in GraphName /\ <<t>> \in Seq(Triple)
  <2>1. g \in GraphName /\ t \in Triple
    BY <1>1 DEF ReqType, RequestType
  <2>2. QED
    BY <2>1
<1>5. Grows(graphs, graphs') /\ g \in DOMAIN graphs'
  BY <1>1, <1>2, <1>4, ExtendGrows
<1>6. \A q \in Requests \ {r} : req'[q] = req[q]
  BY <1>1, <1>2 DEF ReqType
<1>7. /\ req'[r].pc = "writing" /\ req'[r].call = req[r].call
      /\ req'[r].graph = g /\ req'[r].before = req[r].before
  BY <1>1, <1>2, <1>3 DEF ReqType, RequestType
<1>8. TargetInv(r)'
  BY <1>1, <1>3, <1>5, <1>7 DEF TargetInv, AimsAt
<1>9. BeforeInv(r)'
  BY <1>1, <1>3, <1>6, <1>7 DEF BeforeInv
<1>10. Sees(r)'
  BY <1>7 DEF Sees, FoundBy
<1>11. QED
  BY <1>3, <1>5, <1>6, <1>8, <1>9, <1>10, ReadsOthersKept

LEMMA CreatedSees ==
    ASSUME SInv, NEW r \in Requests, Created(r)
    PROVE  ReadsInv'
<1>1. req \in ReqType /\ TargetInv(r) /\ BeforeInv(r)
  BY DEF SInv, ReadsInv, IInv, TypeInv, TypeOK, ReqType
<1>2. req' = Refused(req, r, 201)
  BY DEF Created, Refused
<1>3. /\ req[r].pc = "writing" /\ req[r].todo = {}
      /\ graphs' = graphs /\ promised' = promised \cup {r}
  BY DEF Created
<1>4. /\ req'[r].pc = "answered" /\ req'[r].code = 201 /\ req'[r].call = req[r].call
      /\ req'[r].graph = req[r].graph /\ req'[r].before = req[r].before
  BY <1>1, <1>2, RefusedSets, AnswerFields, BeforeKept
<1>5. \A q \in Requests \ {r} : req'[q] = req[q]
  BY <1>1, <1>2, AssignmentsLocal
<1>6. TargetInv(r)'
  BY <1>1, <1>3, <1>4 DEF TargetInv, AimsAt
<1>7. BeforeInv(r)'
  BY <1>1, <1>3, <1>4, <1>5 DEF BeforeInv
<1>8. Sees(r)'
  BY <1>4 DEF Sees, FoundBy
<1>9. QED
  BY <1>3, <1>5, <1>6, <1>7, <1>8, GrowsReflexive, ReadsOthersKept

LEMMA RestartSees ==
    ASSUME SInv, Restart
    PROVE  ReadsInv'
<1>1. promised' = {} /\ req \in ReqType
  BY DEF Restart, SInv, IInv, TypeInv, TypeOK, ReqType
<1>2. ASSUME NEW r \in Requests
      PROVE  \/ req[r].pc \notin Working /\ req'[r] = req[r]
             \/ /\ req[r].pc \in Working /\ req'[r].pc = "dropped"
                /\ req'[r].before = req[r].before
  <2>1. req[r] \in RequestType
    BY <1>1 DEF ReqType
  <2>2. CASE req[r].pc \in Working
    <3>1. req'[r] = [req[r] EXCEPT !.pc = "dropped"]
      BY <2>2 DEF Restart
    <3>2. QED
      BY <2>1, <2>2, <3>1 DEF RequestType
  <2>3. CASE req[r].pc \notin Working
    BY <2>3 DEF Restart
  <2>4. QED
    BY <2>2, <2>3
<1>3. ASSUME NEW w \in Requests, req[w].pc = "answered"
      PROVE  req'[w] = req[w]
  BY <1>2, <1>3 DEF Working
<1>4. ASSUME NEW r \in Requests
      PROVE  TargetInv(r)' /\ BeforeInv(r)' /\ Sees(r)'
  <2>1. BeforeInv(r) /\ Sees(r)
    BY DEF SInv, ReadsInv
  <2>2. TargetInv(r)'
    BY <1>1, <1>2 DEF TargetInv, Working
  <2>3. BeforeInv(r)'
    BY <1>2, <1>3, <2>1 DEF BeforeInv, Working
  <2>4. Sees(r)'
    <3>1. CASE req[r].pc \in Working
      BY <1>2, <3>1 DEF Sees, FoundBy
    <3>2. CASE req[r].pc \notin Working
      <4>1. req'[r] = req[r]
        BY <1>2, <3>2
      <4>2. \A w \in req[r].before : req'[w] = req[w]
        BY <1>3, <2>1 DEF BeforeInv
      <4>3. QED
        BY <2>1, <4>1, <4>2 DEF Sees, SeesWrite, FoundBy, Uncut
    <3>3. QED
      BY <3>1, <3>2
  <2>5. QED
    BY <2>2, <2>3, <2>4
<1>5. QED
  BY <1>4 DEF ReadsInv

LEMMA ServeSees ==
    ASSUME SInv, NEW r \in Requests, Serve(r)
    PROVE  ReadsInv'
<1>1. {200, 400, 404, 422, 500, 502} \subseteq CodeType
  BY DEF CodeType
<1>2. ASSUME BadReference(r)
      PROVE  ReadsInv'
  BY <1>1, <1>2, RefuseSees DEF BadReference
<1>3. ASSUME TriplesRejected(r)
      PROVE  ReadsInv'
  BY <1>1, <1>3, RefuseSees DEF TriplesRejected, Received
<1>4. ASSUME Validate(r)
      PROVE  ReadsInv'
  BY <1>1, <1>4, RefuseSees DEF Validate, Received
<1>5. ASSUME IngestNotFound(r) \/ IngestNotMapped(r)
      PROVE  ReadsInv'
  BY <1>1, <1>5, RefuseSees DEF IngestNotFound, IngestNotMapped, Received
<1>6. ASSUME IngestFoxdenFails(r)
      PROVE  ReadsInv'
  BY <1>1, <1>6, RefuseSees DEF IngestFoxdenFails, Received
<1>7. ASSUME BadBeamline(r)
      PROVE  ReadsInv'
  BY <1>1, <1>7, RefuseSees DEF BadBeamline, Received
<1>8. QED
  BY <1>2, <1>3, <1>4, <1>5, <1>6, <1>7, DatasetSees, BeamlineSees,
     BeamlineGraphsSees, GraphsSees, GlobalSees, TriplesInsertSees,
     IngestFetchSees, IngestInsertSees, CreatedSees DEF Serve

LEMMA ReadsStep == SInv /\ [Next]_vars => SInv'
<1> SUFFICES ASSUME SInv, [Next]_vars
             PROVE  SInv'
  OBVIOUS
<1>1. IInv'
  BY InvStep DEF SInv
<1>2. ASSUME graphs' = graphs, req' = req, promised' = promised
      PROVE  ReadsInv'
  BY <1>2 DEF SInv, ReadsInv, TargetInv, AimsAt, BeforeInv, Sees, SeesWrite,
              FoundBy, Uncut
<1>3. ASSUME NEW d \in FoxdenDids, FoxdenUpdate(d)
      PROVE  ReadsInv'
  BY <1>2, <1>3 DEF FoxdenUpdate
<1>4. ASSUME UNCHANGED vars
      PROVE  ReadsInv'
  BY <1>2, <1>4 DEF vars
<1>5. ReadsInv'
  BY <1>3, <1>4, SendSees, ServeSees, RestartSees DEF Next
<1>6. QED
  BY <1>1, <1>5 DEF SInv

(* Read your writes, and everybody's: a query sent after a write of either  *)
(* handler was answered 201 finds its triples through each route that       *)
(* covers its dataset, whatever the two DIDs' case and whichever of the two *)
(* derivations named the graph, unless the answer reached the limit.        *)
THEOREM ReadsFindWrites == Spec => []ReadsSeeAcknowledged
<1>1. Init => SInv
  BY InvInit, ReadsInit DEF SInv
<1>2. SInv => ReadsSeeAcknowledged
  BY DEF SInv, ReadsInv, Sees, SeesWrite, ReadsSeeAcknowledged
<1>3. QED
  BY <1>1, <1>2, ReadsStep, PTL DEF Spec

-----------------------------------------------------------------------------
(* Where a read's answer comes from.  Of a write only what it was about to  *)
(* store, where, and for which DID is told, so that this outlives a restart.*)

(* A dataset write has been validated, an ingest has its record.            *)
ByRoute(w) ==
    \/ req[w].call \in Calls /\ req[w].call.op = "triples"
    \/ req[w].call.did \in FoxdenDids

Wrote(w, g, t) ==
    /\ t \in req[w].payload
    /\ req[w].graph = g
    /\ AimsAt(w)
    /\ ByRoute(w)

Origin(g, t) ==
    \/ g \in DOMAIN SeedGraphs /\ t \in Range(SeedGraphs[g])
    \/ \E w \in Requests : Wrote(w, g, t)

StoreTraced == \A g \in DOMAIN graphs : \A t \in Range(graphs[g]) : Origin(g, t)

(* The graphs that a scoped query may look into.                            *)
Covers(call, g) ==
    IF call.op = "dataset" THEN ValidRef(call.beamline, call.did) /\ g = GraphIRI(call.did)
    ELSE g.bl = call.beamline

HitTraced(r, h) == Origin(h.graph, h.triple) /\ Covers(req[r].call, h.graph)

ReadTraced(r) ==
    FoundBy(r, "dataset") \/ FoundBy(r, "beamline") =>
        \A h \in req[r].hits : HitTraced(r, h)

WriteTraced(r) ==
    /\ req[r].pc \in {"idle", "received"} => req[r].payload = {}
    /\ req[r].pc = "writing" => ByRoute(r) /\ req[r].todo \subseteq req[r].payload

TraceInv == StoreTraced /\ \A r \in Requests : ReadTraced(r) /\ WriteTraced(r)

(* A request that was about to store something says so ever after.          *)
Remembers(r) ==
    req[r].payload # {} =>
        /\ req'[r].payload = req[r].payload
        /\ req'[r].graph = req[r].graph
        /\ req'[r].call = req[r].call

LEMMA OriginKept ==
    ASSUME \A w \in Requests : Remembers(w), NEW g, NEW t, Origin(g, t)
    PROVE  Origin(g, t)'
<1>1. ASSUME NEW w \in Requests, Wrote(w, g, t)
      PROVE  Wrote(w, g, t)'
  <2>1. /\ req'[w].payload = req[w].payload /\ req'[w].graph = req[w].graph
        /\ req'[w].call = req[w].call
    BY <1>1 DEF Wrote, Remembers
  <2>2. QED
    BY <1>1, <2>1 DEF Wrote, AimsAt, ByRoute
<1>2. QED
  BY <1>1 DEF Origin

LEMMA TraceKept ==
    ASSUME TraceInv, NEW r \in Requests, Remembers(r),
           \A q \in Requests \ {r} : req'[q] = req[q],
           StoreTraced', ReadTraced(r)', WriteTraced(r)'
    PROVE  TraceInv'
<1>1. \A q \in Requests : Remembers(q)
  BY DEF Remembers
<1>2. ASSUME NEW q \in Requests \ {r}
      PROVE  ReadTraced(q)' /\ WriteTraced(q)'
  <2>1. ReadTraced(q) /\ WriteTraced(q) /\ req'[q] = req[q]
    BY DEF TraceInv
  <2>2. ASSUME NEW h, HitTraced(q, h)
        PROVE  HitTraced(q, h)'
    BY <1>1, <2>1, <2>2, OriginKept DEF HitTraced
  <2>3. QED
    BY <2>1, <2>2 DEF ReadTraced, WriteTraced, ByRoute, FoundBy
<1>3. QED
  BY <1>2 DEF TraceInv

LEMMA StoreUnchangedTraced ==
    ASSUME TraceInv, \A w \in Requests : Remembers(w), graphs' = graphs
    PROVE  StoreTraced'
BY OriginKept DEF TraceInv, StoreTraced

LEMMA TraceInit == Init => TraceInv
<1> SUFFICES ASSUME Init
             PROVE  TraceInv
  OBVIOUS
<1>1. StoreTraced
  BY DEF Init, StoreTraced, Origin
<1>2. ASSUME NEW r \in Requests
      PROVE  req[r].pc = "idle" /\ req[r].payload = {}
  <2>1. Idle.pc = "idle" /\ Idle.payload = {}
    BY DEF Idle
  <2>2. QED
    BY <2>1 DEF Init
<1>3. QED
  BY <1>1, <1>2 DEF TraceInv, ReadTraced, FoundBy, WriteTraced

-----------------------------------------------------------------------------
(* Steps that store nothing.                                                *)

LEMMA PayloadKept ==
    ASSUME NEW f \in ReqType, NEW r \in Requests, NEW c, NEW before
    PROVE  Accepted(f, r, c, before)[r].payload = f[r].payload
BY DEF Accepted, ReqType, RequestType

LEMMA SendTraced ==
    ASSUME SInv, TraceInv, NEW r \in Requests, Send(r)
    PROVE  TraceInv'
<1>1. req \in ReqType
  BY DEF SInv, IInv, TypeInv, TypeOK, ReqType
<1>2. PICK c \in Calls : req' = Accepted(req, r, c, promised)
  BY DEF Send, Accepted
<1>3. req[r].payload = {} /\ graphs' = graphs
  BY DEF Send, TraceInv, WriteTraced
<1>4. req'[r].pc = "received" /\ req'[r].payload = {}
  BY <1>1, <1>2, <1>3, AcceptedSets, PayloadKept
<1>5. \A q \in Requests \ {r} : req'[q] = req[q]
  BY <1>1, <1>2, AssignmentsLocal
<1>6. \A q \in Requests : Remembers(q)
  BY <1>3, <1>5 DEF Remembers
<1>7. StoreTraced'
  BY <1>3, <1>6, StoreUnchangedTraced
<1>8. ReadTraced(r)' /\ WriteTraced(r)'
  BY <1>4 DEF ReadTraced, FoundBy, WriteTraced
<1>9. QED
  BY <1>5, <1>6, <1>7, <1>8, TraceKept

(* What is needed of an answer: that it is traced, if it is one of a read.  *)
LEMMA AnswerTraced ==
    ASSUME SInv, TraceInv, NEW r \in Requests, Quiet(r),
           (\A w \in Requests : Remembers(w)) => ReadTraced(r)'
    PROVE  TraceInv'
<1>1. req \in ReqType
  BY DEF SInv, IInv, TypeInv, TypeOK, ReqType
<1>2. PICK c \in CodeType, hits \in SUBSET Hit, names \in SUBSET GraphName :
         req' = Refused(req, r, c) \/ req' = Answered(req, r, c, hits, names)
  BY DEF Quiet
<1>3. /\ req'[r].pc = "answered" /\ req'[r].payload = req[r].payload
      /\ req'[r].graph = req[r].graph /\ req'[r].call = req[r].call
  BY <1>1, <1>2, RefusedSets, AnsweredSets
<1>4. \A q \in Requests \ {r} : req'[q] = req[q]
  BY <1>1, <1>2, AssignmentsLocal
<1>5. \A q \in Requests : Remembers(q)
  BY <1>3, <1>4 DEF Remembers
<1>6. graphs' = graphs
  BY DEF Quiet
<1>7. StoreTraced'
  BY <1>5, <1>6, StoreUnchangedTraced
<1>8. WriteTraced(r)'
  BY <1>3 DEF WriteTraced
<1>9. QED
  BY <1>4, <1>5, <1>7, <1>8, TraceKept

LEMMA RefuseTraced ==
    ASSUME SInv, TraceInv, NEW r \in Requests, req[r].pc = "received", NEW c \in CodeType,
           Refuse(r, c), c # 200 \/ req[r].call.op = "validate"
    PROVE  TraceInv'
<1>1. req \in ReqType
  BY DEF SInv, IInv, TypeInv, TypeOK, ReqType
<1>2. req' = Refused(req, r, c)
  BY DEF Refuse, Refused
<1>3. req'[r].code = c /\ req'[r].call = req[r].call
  BY <1>1, <1>2, AnswerFields, RefusedSets
<1>4. ReadTraced(r)'
  BY <1>3 DEF ReadTraced, FoundBy
<1>5. QED
  BY <1>4, RefuseIsQuiet, AnswerTraced

(* An answer of a route that is not scoped is not looked at.                *)
LEMMA FoundTraced ==
    ASSUME SInv, TraceInv, NEW r \in Requests, req[r].pc = "received",
           NEW hits \in SUBSET Hit, NEW names \in SUBSET GraphName, Found(r, hits, names),
           req[r].call.op \in {"dataset", "beamline"} => \A h \in hits : HitTraced(r, h)
    PROVE  TraceInv'
<1>1. req \in ReqType
  BY DEF SInv, IInv, TypeInv, TypeOK, ReqType
<1>2. req' = Answered(req, r, 200, hits, names)
  BY DEF Found, Answered
<1>3. req'[r].hits = hits /\ req'[r].call = req[r].call
  BY <1>1, <1>2, AnswerFields, AnsweredSets
<1>4. ASSUME \A w \in Requests : Remembers(w), NEW h, HitTraced(r, h)
      PROVE  HitTraced(r, h)'
  BY <1>3, <1>4, OriginKept DEF HitTraced
<1>5. ASSUME \A w \in Requests : Remembers(w)
      PROVE  ReadTraced(r)'
  BY <1>3, <1>4, <1>5 DEF ReadTraced, FoundBy
<1>6. QED
  BY <1>5, FoundIsQuiet, AnswerTraced

LEMMA HitsTraced ==
    ASSUME SInv, TraceInv, NEW h \in AllHits(graphs)
    PROVE  h \in Hit /\ Origin(h.graph, h.triple)
<1>1. h \in Hit
  BY HitsType DEF SInv, IInv, TypeInv, TypeOK
<1>2. PICK g \in DOMAIN graphs : h \in HitsIn(graphs, g)
  BY DEF AllHits
<1>3. h.graph = g /\ h.triple \in Range(graphs[g])
  BY <1>2 DEF HitsIn, Range
<1>4. QED
  BY <1>1, <1>3 DEF TraceInv, StoreTraced

LEMMA DatasetTraced ==
    ASSUME SInv, TraceInv, NEW r \in Requests, DatasetHandler(r)
    PROVE  TraceInv'
<1> DEFINE call == req[r].call
           hits == QueryDataset(graphs, call.did, call.pattern)
<1>1. /\ req[r].pc = "received" /\ call.op = "dataset" /\ Found(r, hits, {})
      /\ ValidRef(call.beamline, call.did)
  BY DEF DatasetHandler, Received, RefOfPath
<1>2. \A h \in hits : h \in AllHits(graphs) /\ h.graph = GraphIRI(call.did)
  BY DEF QueryDataset, Query
<1>3. \A h \in hits : h \in Hit /\ HitTraced(r, h)
  BY <1>1, <1>2, HitsTraced DEF HitTraced, Covers
<1> HIDE DEF hits
<1>4. QED
  BY <1>1, <1>3, FoundTraced

LEMMA BeamlineTraced ==
    ASSUME SInv, TraceInv, NEW r \in Requests, BeamlineHandler(r)
    PROVE  TraceInv'
<1> DEFINE call == req[r].call
           hits == QueryBeamline(graphs, call.beamline, call.pattern)
<1>1. /\ req[r].pc = "received" /\ call.op = "beamline" /\ Found(r, hits, {})
      /\ Lower[call.beamline] = call.beamline
  BY NamesAssumption DEF BeamlineHandler, Received
<1>2. \A h \in hits : h \in AllHits(graphs) /\ h.graph.bl = call.beamline
  BY <1>1 DEF QueryBeamline, DatasetsForBeamline
<1>3. \A h \in hits : h \in Hit /\ HitTraced(r, h)
  BY <1>1, <1>2, HitsTraced DEF HitTraced, Covers
<1> HIDE DEF hits
<1>4. QED
  BY <1>1, <1>3, FoundTraced

LEMMA UnscopedTraced ==
    ASSUME SInv, TraceInv, NEW r \in Requests,
           BeamlineGraphsHandler(r) \/ GraphsHandler(r) \/ GlobalHandler(r)
    PROVE  TraceInv'
<1>1. IsGraphMap(graphs)
  BY DEF SInv, IInv, TypeInv, TypeOK
<1>2. DOMAIN graphs \subseteq GraphName
  BY <1>1 DEF IsGraphMap
<1>3. CASE BeamlineGraphsHandler(r)
  <2>1. req[r].pc = "received" /\ req[r].call.op = "graphs"
    BY <1>3 DEF BeamlineGraphsHandler, Received
  <2>2. PICK names \in SUBSET GraphName : Found(r, {}, names)
    BY <1>2, <1>3 DEF BeamlineGraphsHandler, DatasetsForBeamline
  <2>3. QED
    BY <2>1, <2>2, FoundTraced
<1>4. CASE GraphsHandler(r)
  BY <1>2, <1>4, FoundTraced DEF GraphsHandler, Received
<1>5. CASE GlobalHandler(r)
  <2>1. req[r].pc = "received" /\ req[r].call.op = "global"
    BY <1>5 DEF GlobalHandler, Received
  <2>2. PICK cut \in Cuts(Resolve(req[r].call)) : Found(r, cut, {})
    BY <1>5 DEF GlobalHandler
  <2>3. Resolve(req[r].call) \subseteq Hit
    BY <1>1, HitsType DEF Resolve, Describe, KeywordSearch, Query
  <2>4. cut \subseteq Hit
    BY <2>3, CutsOfHits
  <2>5. QED
    BY <2>1, <2>2, <2>4, FoundTraced
<1>6. QED
  BY <1>3, <1>4, <1>5

-----------------------------------------------------------------------------
(* Steps that store.                                                        *)

LEMMA ExtendHolds ==
    ASSUME NEW gs, IsGraphMap(gs), NEW g \in GraphName, NEW batch \in Seq(Triple)
    PROVE  \A n \in DOMAIN Extend(gs, g, batch) : \A t \in Range(Extend(gs, g, batch)[n]) :
              \/ n \in DOMAIN gs /\ t \in Range(gs[n])
              \/ n = g /\ t \in Range(batch)
<1> DEFINE hs == Extend(gs, g, batch)
<1>1. DOMAIN hs = DOMAIN gs \cup {g}
  BY ExtendType
<1>2. \A n \in DOMAIN gs \ {g} : hs[n] = gs[n]
  BY ExtendContent
<1>3. Range(hs[g]) = (IF g \in DOMAIN gs THEN Range(gs[g]) ELSE {}) \cup Range(batch)
  BY ExtendContent
<1> HIDE DEF hs
<1>4. \A n \in DOMAIN hs : \A t \in Range(hs[n]) :
         \/ n \in DOMAIN gs /\ t \in Range(gs[n])
         \/ n = g /\ t \in Range(batch)
  BY <1>1, <1>2, <1>3
<1>5. QED
  BY <1>4 DEF hs

LEMMA TriplesInsertTraced ==
    ASSUME SInv, TraceInv, NEW r \in Requests, TriplesInsert(r)
    PROVE  TraceInv'
<1>1. req \in ReqType /\ IsGraphMap(graphs)
  BY DEF SInv, IInv, TypeInv, TypeOK, ReqType
<1>2. PICK call \in Calls : call = req[r].call
  BY DEF TriplesInsert, Received, SInv, IInv, TypeInv, CallsSent
<1>3. PICK g \in GraphName : g = GraphIRI(call.did)
  BY CallFields, GraphIRIType
<1>4. PICK ts : ts = Range(call.body)
  OBVIOUS
<1>5. /\ call.body \in Seq(Triple) /\ call.did \in Did /\ call.op = "triples"
      /\ BeamlineSegment(call.did) \in ValidNames
      /\ req[r].payload = {} /\ req[r].todo = {}
  BY <1>2, CallFields DEF TriplesInsert, Received, RefOfPath, ValidRef, TraceInv, WriteTraced,
                          SInv, IInv, WritesInv, WriteInv
<1>6. graphs' = Extend(graphs, g, call.body)
  BY <1>2, <1>3 DEF TriplesInsert, InsertForDataset
<1>7. req' = Inserted(req, r, ts, g)
  BY <1>2, <1>3, <1>4 DEF TriplesInsert, Inserted
<1>8. \A n \in DOMAIN graphs' : \A t \in Range(graphs'[n]) :
         \/ n \in DOMAIN graphs /\ t \in Range(graphs[n])
         \/ n = g /\ t \in ts
  BY <1>1, <1>4, <1>5, <1>6, ExtendHolds
<1>9. /\ req'[r].pc = "writing" /\ req'[r].payload = ts /\ req'[r].graph = g
      /\ req'[r].call = call /\ req'[r].todo = {}
  BY <1>1, <1>2, <1>5, <1>7, WritingSets
<1>10. \A q \in Requests \ {r} : req'[q] = req[q]
  BY <1>1, <1>7, AssignmentsLocal
<1>11. \A q \in Requests : Remembers(q)
  BY <1>5, <1>10 DEF Remembers
<1>12. \A t \in ts : Wrote(r, g, t)'
  BY <1>3, <1>5, <1>9 DEF Wrote, AimsAt, ByRoute
<1>13. StoreTraced'
  <2> SUFFICES ASSUME NEW n \in DOMAIN graphs', NEW t \in Range(graphs'[n])
               PROVE  Origin(n, t)'
    BY DEF StoreTraced
  <2>1. CASE n \in DOMAIN graphs /\ t \in Range(graphs[n])
    BY <1>11, <2>1, OriginKept DEF TraceInv, StoreTraced
  <2>2. CASE n = g /\ t \in ts
    BY <1>12, <2>2 DEF Origin
  <2>3. QED
    BY <1>8, <2>1, <2>2
<1>14. ReadTraced(r)' /\ WriteTraced(r)'
  BY <1>5, <1>9 DEF ReadTraced, FoundBy, WriteTraced, ByRoute
<1>15. QED
  BY <1>10, <1>11, <1>13, <1>14, TraceKept

LEMMA IngestFetchTraced ==
    ASSUME SInv, TraceInv, NEW r \in Requests, IngestFetch(r)
    PROVE  TraceInv'
<1> DEFINE did == req[r].call.did
           ts == RecordToTriples[did][foxden[did]]
           g == GraphIRIFromDID(did, [key |-> "", val |-> r])
<1>1. req \in ReqType
  BY DEF SInv, IInv, TypeInv, TypeOK, ReqType
<1>2. req' = Fetched(req, r, ts, g)
  BY DEF IngestFetch, Fetched
<1>3. req[r].payload = {} /\ graphs' = graphs
  BY DEF IngestFetch, Received, TraceInv, WriteTraced
<1> HIDE DEF ts, g
<1>4. /\ req'[r].pc = "writing" /\ req'[r].call = req[r].call
      /\ req'[r].payload = ts /\ req'[r].todo = ts
  BY <1>1, <1>2, WritingSets
<1>5. \A q \in Requests \ {r} : req'[q] = req[q]
  BY <1>1, <1>2, AssignmentsLocal
<1>6. \A q \in Requests : Remembers(q)
  BY <1>3, <1>5 DEF Remembers
<1>7. StoreTraced'
  BY <1>3, <1>6, StoreUnchangedTraced
<1>8. did \in FoxdenDids
  BY DEF IngestFetch
<1>9. ReadTraced(r)' /\ WriteTraced(r)'
  BY <1>4, <1>8 DEF ReadTraced, FoundBy, WriteTraced, ByRoute
<1>10. QED
  BY <1>5, <1>6, <1>7, <1>9, TraceKept

LEMMA IngestInsertTraced ==
    ASSUME SInv, TraceInv, NEW r \in Requests, IngestInsert(r)
    PROVE  TraceInv'
<1>1. req \in ReqType /\ IsGraphMap(graphs) /\ AimsAt(r)
  BY DEF SInv, ReadsInv, TargetInv, IInv, TypeInv, TypeOK, ReqType, IngestInsert
<1>2. PICK g \in GraphName : g = req[r].graph
  BY <1>1 DEF ReqType, RequestType
<1>3. PICK t \in req[r].todo :
         /\ graphs' = Extend(graphs, g, <<t>>)
         /\ req' = [req EXCEPT ![r].todo = @ \ {t}]
  BY <1>2 DEF IngestInsert, Insert
<1>4. t \in Triple /\ <<t>> \in Seq(Triple)
  <2>1. t \in Triple
    BY <1>1 DEF ReqType, RequestType
  <2>2. QED
    BY <2>1
<1>5. \A n \in DOMAIN graphs' : \A u \in Range(graphs'[n]) :
         \/ n \in DOMAIN graphs /\ u \in Range(graphs[n])
         \/ n = g /\ u = t
  <2>1. Range(<<t>>) = {t}
    BY RangeOfSingleton
  <2>2. \A n \in DOMAIN Extend(graphs, g, <<t>>) : \A u \in Range(Extend(graphs, g, <<t>>)[n]) :
           \/ n \in DOMAIN graphs /\ u \in Range(graphs[n])
           \/ n = g /\ u \in Range(<<t>>)
    BY <1>1, <1>4, ExtendHolds
  <2>3. QED
    BY <1>3, <2>1, <2>2
<1>6. \A q \in Requests \ {r} : req'[q] = req[q]
  BY <1>1, <1>3 DEF ReqType
<1>7. /\ req'[r].pc = "writing" /\ req'[r].call = req[r].call
      /\ req'[r].graph = req[r].graph /\ req'[r].payload = req[r].payload
      /\ req'[r].todo \subseteq req[r].todo
  BY <1>1, <1>3 DEF IngestInsert, ReqType, RequestType
<1>8. \A q \in Requests : Remembers(q)
  BY <1>6, <1>7 DEF Remembers
<1>9. Wrote(r, g, t)
  BY <1>1, <1>2, <1>3 DEF Wrote, TraceInv, WriteTraced, IngestInsert
<1>10. StoreTraced'
  <2> SUFFICES ASSUME NEW n \in DOMAIN graphs', NEW u \in Range(graphs'[n])
               PROVE  Origin(n, u)'
    BY DEF StoreTraced
  <2>1. CASE n \in DOMAIN graphs /\ u \in Range(graphs[n])
    BY <1>8, <2>1, OriginKept DEF TraceInv, StoreTraced
  <2>2. CASE n = g /\ u = t
    BY <1>8, <1>9, <2>2, OriginKept DEF Origin
  <2>3. QED
    BY <1>5, <2>1, <2>2
<1>11. ReadTraced(r)' /\ WriteTraced(r)'
  BY <1>7 DEF ReadTraced, FoundBy, WriteTraced, ByRoute, TraceInv, IngestInsert
<1>12. QED
  BY <1>6, <1>8, <1>10, <1>11, TraceKept

LEMMA CreatedTraced ==
    ASSUME SInv, TraceInv, NEW r \in Requests, Created(r)
    PROVE  TraceInv'
<1>1. req \in ReqType
  BY DEF SInv, IInv, TypeInv, TypeOK, ReqType
<1>2. req' = Refused(req, r, 201)
  BY DEF Created, Refused
<1>3. /\ req'[r].pc = "answered" /\ req'[r].code = 201 /\ req'[r].payload = req[r].payload
      /\ req'[r].graph = req[r].graph /\ req'[r].call = req[r].call
  BY <1>1, <1>2, RefusedSets, AnswerFields
<1>4. \A q \in Requests \ {r} : req'[q] = req[q]
  BY <1>1, <1>2, AssignmentsLocal
<1>5. (\A q \in Requests : Remembers(q)) /\ graphs' = graphs
  <2>1. graphs' = graphs
    BY DEF Created
  <2>2. Remembers(r)
    BY <1>3 DEF Remembers
  <2>3. \A q \in Requests \ {r} : Remembers(q)
    BY <1>4 DEF Remembers
  <2>4. QED
    BY <2>1, <2>2, <2>3
<1>6. StoreTraced'
  BY <1>5, StoreUnchangedTraced
<1>7. ReadTraced(r)' /\ WriteTraced(r)'
  BY <1>3 DEF ReadTraced, FoundBy, WriteTraced
<1>8. QED
  BY <1>4, <1>5, <1>6, <1>7, TraceKept

LEMMA RestartTraced ==
    ASSUME SInv, TraceInv, Restart
    PROVE  TraceInv'
<1>1. graphs' = SeedGraphs /\ req \in ReqType
  BY DEF Restart, SInv, IInv, TypeInv, TypeOK, ReqType
<1>2. ASSUME NEW r \in Requests
      PROVE  \/ req'[r] = req[r] /\ req[r].pc \notin Working
             \/ /\ req'[r].pc = "dropped" /\ req'[r].payload = req[r].payload
                /\ req'[r].graph = req[r].graph /\ req'[r].call = req[r].call
  <2>1. req[r] \in RequestType
    BY <1>1 DEF ReqType
  <2>2. CASE req[r].pc \in Working
    <3>1. req'[r] = [req[r] EXCEPT !.pc = "dropped"]
      BY <2>2 DEF Restart
    <3>2. QED
      BY <2>1, <3>1 DEF RequestType
  <2>3. CASE req[r].pc \notin Working
    BY <2>3 DEF Restart
  <2>4. QED
    BY <2>2, <2>3
<1>3. \A r \in Requests : Remembers(r)
  BY <1>2 DEF Remembers
<1>4. StoreTraced'
  BY <1>1 DEF StoreTraced, Origin
<1>5. ASSUME NEW r \in Requests
      PROVE  ReadTraced(r)' /\ WriteTraced(r)'
  <2>1. CASE req'[r] = req[r]
    <3>1. \A h : HitTraced(r, h) => HitTraced(r, h)'
      BY <1>3, <2>1, OriginKept DEF HitTraced
    <3>2. QED
      BY <2>1, <3>1 DEF TraceInv, ReadTraced, WriteTraced, ByRoute, FoundBy
  <2>2. CASE req'[r].pc = "dropped"
    BY <2>2 DEF ReadTraced, WriteTraced, FoundBy
  <2>3. QED
    BY <1>2, <2>1, <2>2
<1>6. QED
  BY <1>4, <1>5 DEF TraceInv

LEMMA ServeTraced ==
    ASSUME SInv, TraceInv, NEW r \in Requests, Serve(r)
    PROVE  TraceInv'
<1>1. {200, 400, 404, 422, 500, 502} \subseteq CodeType
  BY DEF CodeType
<1>2. ASSUME BadReference(r)
      PROVE  TraceInv'
  BY <1>1, <1>2, RefuseTraced DEF BadReference
<1>3. ASSUME TriplesRejected(r)
      PROVE  TraceInv'
  BY <1>1, <1>3, RefuseTraced DEF TriplesRejected, Received
<1>4. ASSUME Validate(r)
      PROVE  TraceInv'
  BY <1>1, <1>4, RefuseTraced DEF Validate, Received
<1>5. ASSUME IngestNotFound(r) \/ IngestNotMapped(r)
      PROVE  TraceInv'
  BY <1>1, <1>5, RefuseTraced DEF IngestNotFound, IngestNotMapped, Received
<1>6. ASSUME IngestFoxdenFails(r)
      PROVE  TraceInv'
  BY <1>1, <1>6, RefuseTraced DEF IngestFoxdenFails, Received
<1>7. ASSUME BadBeamline(r)
      PROVE  TraceInv'
  BY <1>1, <1>7, RefuseTraced DEF BadBeamline, Received
<1>8. QED
  BY <1>2, <1>3, <1>4, <1>5, <1>6, <1>7, DatasetTraced, BeamlineTraced, UnscopedTraced,
     TriplesInsertTraced, IngestFetchTraced, IngestInsertTraced, CreatedTraced DEF Serve

LEMMA TraceStep == SInv /\ TraceInv /\ [Next]_vars => TraceInv'
<1> SUFFICES ASSUME SInv, TraceInv, [Next]_vars
             PROVE  TraceInv'
  OBVIOUS
<1>1. ASSUME graphs' = graphs, req' = req
      PROVE  TraceInv'
  <2>1. \A w \in Requests : Remembers(w)
    BY <1>1 DEF Remembers
  <2>2. StoreTraced'
    BY <1>1, <2>1, StoreUnchangedTraced
  <2>3. \A r \in Requests : \A h : HitTraced(r, h) => HitTraced(r, h)'
    BY <1>1, <2>1, OriginKept DEF HitTraced
  <2>4. QED
    BY <1>1, <2>2, <2>3 DEF TraceInv, ReadTraced, WriteTraced, ByRoute, FoundBy
<1>2. ASSUME NEW d \in FoxdenDids, FoxdenUpdate(d)
      PROVE  TraceInv'
  BY <1>1, <1>2 DEF FoxdenUpdate
<1>3. ASSUME UNCHANGED vars
      PROVE  TraceInv'
  BY <1>1, <1>3 DEF vars
<1>4. QED
  BY <1>2, <1>3, SendTraced, ServeTraced, RestartTraced DEF Next

(* Nothing leaks into a scope: what a dataset's or a beamline's query       *)
(* returns was seeded there or sent to a dataset of the scope, provided the *)
(* DIDs have their canonical form.                                          *)
THEOREM ReadsStayInScope ==
    ASSUME \A c \in Calls : c.op \in {"triples", "dataset"} => CanonicalForm(c.did)
    PROVE  Spec => []ReadsTraceable
<1>1. Init => SInv /\ TraceInv
  BY InvInit, ReadsInit, TraceInit DEF SInv
<1>2. SInv /\ TraceInv => ReadsTraceable
  <2> SUFFICES ASSUME SInv, TraceInv, NEW r \in Requests,
                      FoundBy(r, "dataset") \/ FoundBy(r, "beamline"),
                      NEW h \in req[r].hits
               PROVE  \/ /\ h.graph \in DOMAIN SeedGraphs
                         /\ h.triple \in Range(SeedGraphs[h.graph])
                         /\ h.graph.bl = req[r].call.beamline
                      \/ \E w \in Requests :
                            /\ h.triple \in req[w].payload
                            /\ InScope(req[r].call, req[w].call.did)
    BY DEF ReadsTraceable
  <2> DEFINE call == req[r].call
  <2>1. /\ Origin(h.graph, h.triple) /\ Covers(call, h.graph)
        /\ call.op \in {"dataset", "beamline"} /\ call \in Calls
    BY DEF TraceInv, ReadTraced, HitTraced, FoundBy, SInv, IInv, TypeInv, CallsSent
  <2>2. call.did \in Did
    BY <2>1, CallFields
  <2>3. h.graph.bl = call.beamline
    <3>1. CASE call.op = "dataset"
      <4>1. h.graph = GraphIRI(call.did) /\ ValidRef(call.beamline, call.did)
        BY <2>1, <3>1 DEF Covers
      <4>2. h.graph.bl = Lower[call.beamline]
        BY <4>1 DEF GraphIRI, ValidRef
      <4>3. QED
        BY <4>1, <4>2, NamesAssumption DEF ValidRef
    <3>2. CASE call.op # "dataset"
      BY <2>1, <3>2 DEF Covers
    <3>3. QED
      BY <3>1, <3>2
  <2>4. ASSUME NEW w \in Requests, Wrote(w, h.graph, h.triple)
        PROVE  InScope(call, req[w].call.did)
    <3> DEFINE did == req[w].call.did
    <3>1. did \in Did /\ h.graph = GraphIRI(did)
      BY <2>4 DEF Wrote, AimsAt
    <3>2. CASE call.op = "beamline"
      BY <2>3, <3>1, <3>2 DEF InScope, GraphIRI
    <3>3. CASE call.op = "dataset"
      <4>1. CanonicalForm(did)
        BY <2>4, DataServiceAssumption DEF Wrote, ByRoute, CanonicalForm
      <4>2. CanonicalForm(call.did) /\ h.graph = GraphIRI(call.did)
        BY <2>1, <3>3 DEF Covers
      <4>3. Canonical(did) = Canonical(call.did)
        BY <2>2, <3>1, <4>1, <4>2, OneDataset
      <4>4. QED
        BY <3>3, <4>3 DEF InScope
    <3>4. QED
      BY <2>1, <3>2, <3>3
  <2>5. QED
    BY <2>1, <2>3, <2>4 DEF Origin, Wrote
<1>3. QED
  BY <1>1, <1>2, ReadsStep, TraceStep, PTL DEF Spec
=============================================================================
