---------------------------- MODULE DataService -----------------------------
(***************************************************************************)
(* The data-service over the in-memory store.  Every HTTP request runs in   *)
(* its own goroutine; the store's methods are atomic, so a handler is the   *)
(* sequence of its store calls.  FOXDEN, the metadata service the ingest    *)
(* reads from, is external: its owners change records at any time, and it   *)
(* may fail to answer within the client's timeout.  The process may be      *)
(* restarted at any time, which ends the requests in flight and starts over *)
(* from the seed data.                                                      *)
(***************************************************************************)
EXTENDS MemoryStore, Shacl, FiniteSets

CONSTANTS
    Requests,         \* the requests clients send, each once
    Calls,            \* what a request may ask for
    FoxdenDids,       \* the DIDs FOXDEN may hold a record for
    Versions,         \* the contents a FOXDEN record may have
    NoCall,           \* a request not sent yet asks for nothing
    NoRecord,         \* FOXDEN holds no record for a DID
    RecordToTriples,  \* RecordToTriples[d][v]: the triples made of a record, at
                      \* least its identifier; none if it lacks its did
    SeedGraphs,       \* the graphs seed() builds
    ResultLimit,      \* the limit of the global query route: 100
    MaxRestarts       \* bound of the model: how often the process restarts

Ops == {"triples", "validate", "ingest", "dataset", "beamline", "graphs", "allGraphs", "global"}
Writes == {"triples", "ingest"}

CallType ==
    [op : Ops, beamline : Names, did : Did, body : Seq(Triple),
     pattern : [s : Subject \cup {Wildcard}, p : Predicate \cup {Wildcard}, o : Object \cup {Wildcard}],
     filter : SUBSET GraphName,
     describe : Subject \cup Object \cup {Wildcard}, search : DOMAIN Containing \cup {Wildcard}]

IsGraphMap(gs) ==
    /\ DOMAIN gs \subseteq GraphName
    /\ gs \in [DOMAIN gs -> Seq(Triple)]

ASSUME DataServiceAssumption ==
    /\ Calls \subseteq CallType
    /\ NoCall \notin Calls
    /\ NoRecord \notin Versions
    /\ Requests \subseteq Names
    /\ FoxdenDids \subseteq {d \in Did : Len(d) > 1 /\ d[1].key = "beamline"}
    /\ RecordToTriples \in [FoxdenDids -> [Versions -> SUBSET Triple]]
    /\ \A d \in FoxdenDids, v \in Versions :
           Observations(RecordToTriples[d][v]) = {}
    /\ IsGraphMap(SeedGraphs)
    /\ \A g \in DOMAIN SeedGraphs :
           \A s \in Observations(Range(SeedGraphs[g])) :
               HasRequiredProperties(Range(SeedGraphs[g]), s)
    /\ ResultLimit \in Nat
    /\ MaxRestarts \in Nat

Hit == [graph : GraphName, pos : Nat, triple : Triple]

VARIABLES
    graphs,     \* MemoryStore.graphs
    foxden,     \* foxden[d]: the version of d's record, or NoRecord
    req,        \* req[r]: the goroutine that serves r, and its answer
    promised,   \* history: the writes answered 201 since the process started
    restarts    \* counts the restarts, to bound them

vars == <<graphs, foxden, req, promised, restarts>>

(* pc: where the goroutine stands; payload: the triples the write stores;   *)
(* todo: those of them the ingest loop has still to insert; graph: where it *)
(* inserts them; code, hits, names: the answer; before: history, the writes *)
(* that had been answered 201 when the request was sent.                    *)
Working == {"received", "writing"}

RequestType ==
    [pc : {"idle", "answered", "dropped"} \cup Working,
     call : Calls \cup {NoCall}, payload : SUBSET Triple, todo : SUBSET Triple,
     graph : GraphName, code : {0, 200, 201, 400, 404, 422, 500, 502},
     hits : SUBSET Hit, names : SUBSET GraphName, before : SUBSET Requests]

Idle ==
    [pc |-> "idle", call |-> NoCall, payload |-> {}, todo |-> {},
     graph |-> [bl |-> "", path |-> <<>>], code |-> 0, hits |-> {}, names |-> {},
     before |-> {}]

Init ==
    /\ graphs = SeedGraphs
    /\ foxden \in [FoxdenDids -> Versions \cup {NoRecord}]
    /\ req = [r \in Requests |-> Idle]
    /\ promised = {}
    /\ restarts = 0

-----------------------------------------------------------------------------
(* The client's and FOXDEN's side.                                          *)

Send(r) ==
    /\ req[r].pc = "idle"
    /\ \E c \in Calls :
        req' = [req EXCEPT ![r].pc = "received", ![r].call = c, ![r].before = promised]
    /\ UNCHANGED <<graphs, foxden, promised, restarts>>

FoxdenUpdate(d) ==
    /\ \E v \in Versions : foxden' = [foxden EXCEPT ![d] = v]
    /\ UNCHANGED <<graphs, req, promised, restarts>>

-----------------------------------------------------------------------------
(* The write handlers.                                                      *)

Received(r, op) == req[r].pc = "received" /\ req[r].call.op = op

Refuse(r, code) ==
    /\ req' = [req EXCEPT ![r].pc = "answered", ![r].code = code]
    /\ UNCHANGED <<graphs, foxden, promised, restarts>>

(* datasetRefFromPath(), used by every dataset route but the FOXDEN ones.   *)
RefOfPath(call) == ValidRef(call.beamline, call.did)

BadReference(r) ==
    /\ req[r].pc = "received"
    /\ req[r].call.op \in {"triples", "validate", "dataset"}
    /\ ~RefOfPath(req[r].call)
    /\ Refuse(r, 400)

Conforms(call) == ValidateForDataset(call.beamline, Range(call.body))

TriplesRejected(r) ==
    /\ Received(r, "triples")
    /\ RefOfPath(req[r].call)
    /\ ~Conforms(req[r].call)
    /\ Refuse(r, 422)

TriplesInsert(r) ==
    LET call == req[r].call IN
    /\ Received(r, "triples")
    /\ RefOfPath(call)
    /\ Conforms(call)
    /\ graphs' = InsertForDataset(graphs, call.did, call.body)
    /\ req' = [req EXCEPT ![r].pc = "writing", ![r].payload = Range(call.body),
                          ![r].graph = GraphIRI(call.did)]
    /\ UNCHANGED <<foxden, promised, restarts>>

(* The dry run answers 200 whether or not the triples conform.              *)
Validate(r) ==
    /\ Received(r, "validate")
    /\ RefOfPath(req[r].call)
    /\ Refuse(r, 200)

(* QueryByDID() and RecordToTriples(): the record as it is at this moment.  *)
(* The beamline of the path is not looked at, and nothing is validated.     *)
IngestFetch(r) ==
    LET did == req[r].call.did
        triples == RecordToTriples[did][foxden[did]]
    IN
    /\ Received(r, "ingest")
    /\ did \in FoxdenDids
    /\ foxden[did] # NoRecord
    /\ triples # {}
    /\ req' = [req EXCEPT ![r].pc = "writing", ![r].payload = triples,
                          ![r].todo = triples,
                          ![r].graph = GraphIRIFromDID(did, [key |-> "", val |-> r])]
    /\ UNCHANGED <<graphs, foxden, promised, restarts>>

(* RecordToTriples() fails for want of a did, before anything is stored.    *)
IngestNotMapped(r) ==
    LET did == req[r].call.did IN
    /\ Received(r, "ingest")
    /\ did \in FoxdenDids
    /\ foxden[did] # NoRecord
    /\ RecordToTriples[did][foxden[did]] = {}
    /\ Refuse(r, 500)

IngestNotFound(r) ==
    LET did == req[r].call.did IN
    /\ Received(r, "ingest")
    /\ did \in FoxdenDids => foxden[did] = NoRecord
    /\ Refuse(r, 404)

(* Mutation: a timeout is told from the other errors.                       *)
IngestFoxdenFailsAs504(r) ==
    /\ Received(r, "ingest")
    /\ Refuse(r, 502) \/ Refuse(r, 504)

(* FOXDEN answered with an error, or not within the timeout.                *)
IngestFoxdenFails(r) ==
    /\ Received(r, "ingest")
    /\ Refuse(r, 502)

(* Mutation: the loop ends one triple early, and nothing answers.           *)
IngestInsertStopsEarly(r) ==
    /\ req[r].pc = "writing" /\ Cardinality(req[r].todo) > 1
    /\ \E t \in req[r].todo :
        /\ graphs' = Insert(graphs, req[r].graph, t)
        /\ req' = [req EXCEPT ![r].todo = @ \ {t}]
    /\ UNCHANGED <<foxden, promised, restarts>>

(* One turn of the loop, one lock.  RecordToTriples ranges over Go maps, so *)
(* the triples come in any order.                                           *)
IngestInsert(r) ==
    /\ req[r].pc = "writing"
    /\ \E t \in req[r].todo :
        /\ graphs' = Insert(graphs, req[r].graph, t)
        /\ req' = [req EXCEPT ![r].todo = @ \ {t}]
    /\ UNCHANGED <<foxden, promised, restarts>>

(* Mutation: the inserts are left to run behind the answer.                 *)
CreatedBeforeStored(r) ==
    /\ req[r].pc = "writing"
    /\ req' = [req EXCEPT ![r].pc = "answered", ![r].code = 201]
    /\ promised' = promised \cup {r}
    /\ UNCHANGED <<graphs, foxden, restarts>>

(* The 201 of both handlers, past the last insert.                          *)
Created(r) ==
    /\ req[r].pc = "writing"
    /\ req[r].todo = {}
    /\ req' = [req EXCEPT ![r].pc = "answered", ![r].code = 201]
    /\ promised' = promised \cup {r}
    /\ UNCHANGED <<graphs, foxden, restarts>>

-----------------------------------------------------------------------------
(* The query handlers: one store call each.                                 *)

Found(r, hits, names) ==
    /\ req' = [req EXCEPT ![r].pc = "answered", ![r].code = 200, ![r].hits = hits,
                          ![r].names = names]
    /\ UNCHANGED <<graphs, foxden, promised, restarts>>

DatasetHandler(r) ==
    LET call == req[r].call IN
    /\ Received(r, "dataset")
    /\ RefOfPath(call)
    /\ Found(r, QueryDataset(graphs, call.did, call.pattern), {})

BadBeamline(r) ==
    /\ Received(r, "beamline") \/ Received(r, "graphs")
    /\ req[r].call.beamline \notin ValidNames
    /\ Refuse(r, 400)

BeamlineHandler(r) ==
    LET call == req[r].call IN
    /\ Received(r, "beamline")
    /\ call.beamline \in ValidNames
    /\ Found(r, QueryBeamline(graphs, call.beamline, call.pattern), {})

BeamlineGraphsHandler(r) ==
    LET beamline == req[r].call.beamline IN
    /\ Received(r, "graphs")
    /\ beamline \in ValidNames
    /\ Found(r, {}, DatasetsForBeamline(graphs, beamline))

GraphsHandler(r) ==
    /\ Received(r, "allGraphs")
    /\ Found(r, {}, DOMAIN graphs)

(* resolve(): describe wins over search, search over the s, p, o, g filter. *)
Resolve(call) ==
    IF call.describe # Wildcard THEN Describe(graphs, call.describe)
    ELSE IF call.search # Wildcard THEN KeywordSearch(graphs, call.search)
    ELSE Query(graphs, call.pattern, call.filter)

(* results[:limit] of a scan that visits the graphs in some order: all the  *)
(* graphs but one are in it entirely or not at all, and that one up to some *)
(* position.                                                                *)
Cuts(hits) ==
    LET Within(g, set) == {h \in set : h.graph = g} IN
    IF Cardinality(hits) <= ResultLimit THEN {hits}
    ELSE {cut \in SUBSET hits :
            /\ Cardinality(cut) = ResultLimit
            /\ \A h \in cut, k \in hits :
                   k.graph = h.graph /\ k.pos < h.pos => k \in cut
            /\ \A h, k \in cut :
                   \/ h.graph = k.graph
                   \/ Within(h.graph, hits) \subseteq cut
                   \/ Within(k.graph, hits) \subseteq cut}

GlobalHandler(r) ==
    /\ Received(r, "global")
    /\ \E cut \in Cuts(Resolve(req[r].call)) : Found(r, cut, {})

-----------------------------------------------------------------------------
(* The process ends and starts again: nothing of the store survives, and a  *)
(* request in flight gets no answer.                                        *)
Restart ==
    /\ restarts < MaxRestarts
    /\ restarts' = restarts + 1
    /\ graphs' = SeedGraphs
    /\ promised' = {}
    /\ req' = [r \in Requests |->
                 IF req[r].pc \in Working THEN [req[r] EXCEPT !.pc = "dropped"]
                 ELSE req[r]]
    /\ UNCHANGED foxden

Serve(r) ==
    \/ BadReference(r) \/ TriplesRejected(r) \/ TriplesInsert(r) \/ Validate(r)
    \/ IngestFetch(r) \/ IngestNotFound(r) \/ IngestNotMapped(r) \/ IngestFoxdenFails(r)
    \/ IngestInsert(r) \/ Created(r)
    \/ DatasetHandler(r) \/ BadBeamline(r) \/ BeamlineHandler(r)
    \/ BeamlineGraphsHandler(r) \/ GraphsHandler(r) \/ GlobalHandler(r)

Next ==
    \/ \E r \in Requests : Send(r) \/ Serve(r)
    \/ \E d \in FoxdenDids : FoxdenUpdate(d)
    \/ Restart

(* Go schedules every goroutine, and the FOXDEN client gives up after its   *)
(* timeout: a handler never stops for good.  Nobody has to send a request,  *)
(* change a record or restart the process.                                  *)
Fairness == \A r \in Requests : WF_vars(Serve(r))

Spec == Init /\ [][Next]_vars
FairSpec == Spec /\ Fairness

-----------------------------------------------------------------------------
TypeOK ==
    /\ IsGraphMap(graphs)
    /\ foxden \in [FoxdenDids -> Versions \cup {NoRecord}]
    /\ req \in [Requests -> RequestType]
    /\ promised \subseteq Requests
    /\ restarts \in 0..MaxRestarts

Stored(g) == Range(graphs[g])

(* Whatever mix of validated writes and unvalidated ingests a graph has     *)
(* received, and at every moment between them, a resource that it types as  *)
(* sosa:Observation has the three properties of fabric:ObservationShape:    *)
(* the validator looks only at the triples of one request, and only at the  *)
(* subjects typed there.                                                    *)
ObservationsComplete ==
    \A g \in DOMAIN graphs :
        \A s \in Observations(Stored(g)) : HasRequiredProperties(Stored(g), s)

(* A 201 is the truth: each triple counted in its "inserted" or "ingested"  *)
(* is in the graph the answer names, until the process restarts.            *)
PromisesKept ==
    \A w \in promised :
        /\ req[w].graph \in DOMAIN graphs \/ req[w].payload = {}
        /\ \A t \in req[w].payload : t \in Stored(req[w].graph)

(* Two DIDs address one dataset when they differ in the case of the         *)
(* beamline alone.                                                          *)
InScope(call, did) ==
    CASE call.op = "dataset" -> Canonical(did) = Canonical(call.did)
      [] call.op \in {"beamline", "graphs"} -> Lower[BeamlineSegment(did)] = call.beamline
      [] call.op = "allGraphs" -> TRUE
      [] OTHER -> call.filter = {} /\ call.describe = Wildcard /\ call.search = Wildcard

Reads == {"dataset", "beamline", "graphs", "allGraphs", "global"}

FoundBy(r, op) ==
    req[r].pc = "answered" /\ req[r].code = 200 /\ req[r].call.op = op

Uncut(r) == req[r].call.op = "global" => Cardinality(req[r].hits) < ResultLimit

(* A query sent after a write was answered 201 finds what was written, and  *)
(* a listing the graph it is in: the two derivations of the graph IRI, the  *)
(* case of the beamline and the scope of the route agree.  (A global answer *)
(* that reached the limit may be cut.)                                      *)
ReadsSeeAcknowledged ==
    \A op \in Reads : \A r \in {q \in Requests : FoundBy(q, op) /\ Uncut(q)} :
        \A w \in {v \in req[r].before : InScope(req[r].call, req[v].call.did)} :
            IF op \in {"graphs", "allGraphs"} THEN req[w].graph \in req[r].names
            ELSE \A t \in req[w].payload :
                    Matches(t, req[r].call.pattern)
                    => \E h \in req[r].hits : h.triple = t

(* A scoped query returns nothing that was not seeded in its scope or sent  *)
(* to a dataset of its scope by a write that passed its checks, however     *)
(* similar the beamline names are.                                          *)
ReadsTraceable ==
    \A r \in Requests : FoundBy(r, "dataset") \/ FoundBy(r, "beamline") =>
        \A h \in req[r].hits :
            \/ /\ h.graph \in DOMAIN SeedGraphs
               /\ h.triple \in Range(SeedGraphs[h.graph])
               /\ h.graph.bl = req[r].call.beamline
            \/ \E w \in Requests :
                  /\ h.triple \in req[w].payload
                  /\ InScope(req[r].call, req[w].call.did)

(* The set of quads is what the GraphStore interface promises to keep.      *)
Quads == {<<h.graph, h.triple>> : h \in AllHits(graphs)}
PromisedQuads == UNION {{<<req[w].graph, t>> : t \in req[w].payload} : w \in promised}
TargetGraphs ==
    {GraphIRI(c.did) : c \in Calls}
    \cup {GraphIRIFromDID(d, [key |-> "", val |-> ""]) : d \in FoxdenDids}
Batches ==
    {Range(c.body) : c \in Calls}
    \cup {{t} : t \in UNION UNION {Range(RecordToTriples[d]) : d \in FoxdenDids}}

Abstract == INSTANCE GraphStore WITH
    Graph <- TargetGraphs, Batch <- Batches,
    Seed <- {<<h.graph, h.triple>> : h \in AllHits(SeedGraphs)},
    quads <- Quads, acknowledged <- PromisedQuads

(* The service implements the abstract store: a batch of the dataset route  *)
(* appears at once, nothing disappears but by a restart, and only stored    *)
(* quads are acknowledged.                                                  *)
ImplementsGraphStore == Abstract!Spec

(* Every request that reaches the service is answered, or the process ends. *)
EveryRequestAnswered ==
    \A r \in Requests :
        req[r].pc \in Working ~> req[r].pc \in {"answered", "dropped"}
=============================================================================
