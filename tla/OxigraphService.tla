-------------------------- MODULE OxigraphService ---------------------------
(***************************************************************************)
(* The data-service over Oxigraph.  Every call of the store is an HTTP      *)
(* request to another process, which may refuse it, or be too slow for the  *)
(* client's timeout: an update that was given up is not taken back, and     *)
(* Oxigraph may execute it at any later time or never.  The store has no    *)
(* state of its own, so a restart of the data-service loses the requests in *)
(* flight and nothing else.                                                 *)
(*                                                                          *)
(* The handlers are those of DataService, and so are their checks; what     *)
(* differs is what becomes of an error of the store.  An ingest stands here *)
(* past its answer from FOXDEN, with the triples of the record.             *)
(***************************************************************************)
EXTENDS OxigraphStore, FiniteSets

CONSTANTS
    Requests,       \* the requests clients send, each once
    Calls,          \* what a request may ask for
    NoCall,         \* a request not sent yet asks for nothing
    ResultLimit,    \* the limit of the global query route: 100
    MaxRestarts     \* bound of the model: how often the data-service restarts

Scoped == {"dataset", "beamline"}
Unscoped == {"graphs", "allGraphs", "global"}
Writes == {"triples", "ingest"}

CallType ==
    [op : Scoped \cup Unscoped \cup Writes, beamline : Names, did : Did, body : SUBSET Triple,
     pattern : [s : Subject \cup {Wildcard}, p : Predicate \cup {Wildcard}, o : Object \cup {Wildcard}],
     filter : SUBSET GraphName,
     describe : Subject \cup Object \cup {Wildcard}, search : DOMAIN Containing \cup {Wildcard}]

ASSUME OxigraphServiceAssumption ==
    /\ Calls \subseteq CallType
    /\ NoCall \notin Calls
    /\ \A c \in Calls : c.op = "ingest" => Observations(c.body) = {}
    /\ ResultLimit \in Nat
    /\ MaxRestarts \in Nat

VARIABLES
    db,         \* the quads Oxigraph holds
    late,       \* the updates given up by their sender, not executed yet
    req,        \* req[r]: the goroutine that serves r, and its answer
    promised,   \* history: the writes answered 201
    restarts    \* counts the restarts, to bound them

vars == <<db, late, req, promised, restarts>>

(* http: the request to Oxigraph, if one is out; batch: what it inserts;    *)
(* todo: what the ingest loop has still to insert; rows, names: what a      *)
(* query found; before: history, the writes answered 201 when the request   *)
(* was sent; failed: history, the triples whose insert reported an error.   *)
Working == {"received", "waiting"}

RequestType ==
    [pc : {"idle", "answered", "dropped"} \cup Working, call : Calls \cup {NoCall},
     http : {"none", "sent", "done", "failed"}, batch : SUBSET Triple, todo : SUBSET Triple,
     rows : SUBSET Quad, names : SUBSET GraphName, code : {0, 200, 201, 400, 422},
     before : SUBSET Requests, failed : SUBSET Triple]

Idle ==
    [pc |-> "idle", call |-> NoCall, http |-> "none", batch |-> {}, todo |-> {},
     rows |-> {}, names |-> {}, code |-> 0, before |-> {}, failed |-> {}]

Init ==
    /\ db = {}
    /\ late = {}
    /\ req = [r \in Requests |-> Idle]
    /\ promised = {}
    /\ restarts = 0

(* The graph a write goes to, by the derivation of its route.               *)
GraphOf(call) ==
    IF call.op = "ingest" THEN GraphIRIFromDID(call.did, [key |-> "", val |-> ""])
    ELSE GraphIRI(call.did)

Send(r) ==
    /\ req[r].pc = "idle"
    /\ \E c \in Calls :
        req' = [req EXCEPT ![r].pc = "received", ![r].call = c, ![r].before = promised,
                           ![r].todo = IF c.op = "ingest" THEN c.body ELSE {}]
    /\ UNCHANGED <<db, late, promised, restarts>>

-----------------------------------------------------------------------------
(* The handlers up to their request to Oxigraph.                            *)

Received(r, ops) == req[r].pc = "received" /\ req[r].call.op \in ops

Answer(r, code) ==
    /\ req' = [req EXCEPT ![r].pc = "answered", ![r].code = code]
    /\ UNCHANGED <<db, late, promised, restarts>>

Accepted(call) ==
    CASE call.op \in {"triples", "dataset"} -> ValidRef(call.beamline, call.did)
      [] call.op \in {"beamline", "graphs"} -> call.beamline \in ValidNames
      [] OTHER -> TRUE

BadRequest(r) ==
    /\ req[r].pc = "received"
    /\ ~Accepted(req[r].call)
    /\ Answer(r, 400)

Conforms(call) == ValidateForDataset(call.beamline, call.body)

Unprocessable(r) ==
    /\ Received(r, {"triples"})
    /\ Accepted(req[r].call)
    /\ ~Conforms(req[r].call)
    /\ Answer(r, 422)

Ask(r, batch) ==
    /\ req' = [req EXCEPT ![r].pc = "waiting", ![r].http = "sent", ![r].batch = batch]
    /\ UNCHANGED <<db, late, promised, restarts>>

(* Mutation: the validator is not asked.                                    *)
TriplesUnchecked(r) ==
    LET call == req[r].call IN
    /\ Received(r, {"triples"})
    /\ Accepted(call)
    /\ call.body # {}
    /\ Ask(r, call.body)

TriplesUpdate(r) ==
    LET call == req[r].call IN
    /\ Received(r, {"triples"})
    /\ Accepted(call) /\ Conforms(call)
    /\ call.body # {}
    /\ Ask(r, call.body)

(* One turn of the ingest loop, for any triple that is left.                *)
IngestUpdate(r) ==
    /\ Received(r, {"ingest"})
    /\ \E t \in req[r].todo : Ask(r, {t})

QueryRequest(r) ==
    /\ Received(r, Scoped \cup Unscoped)
    /\ Accepted(req[r].call)
    /\ Ask(r, {})

-----------------------------------------------------------------------------
(* Oxigraph, and the connection to it.                                      *)

(* resolve(): describe wins over search, search over the s, p, o, g filter. *)
Resolve(call) ==
    IF call.describe # Wildcard THEN Describe(db, call.describe)
    ELSE IF call.search # Wildcard THEN KeywordSearch(db, call.search)
    ELSE Query(db, call.pattern, call.filter)

Rows(call) ==
    CASE call.op = "dataset" -> QueryDataset(db, call.did, call.pattern)
      [] call.op = "beamline" -> QueryBeamline(db, call.beamline, call.pattern)
      [] call.op = "global" -> Resolve(call)
      [] OTHER -> {}

FoundNames(call) ==
    CASE call.op = "graphs" -> DatasetsForBeamline(db, call.beamline)
      [] call.op = "allGraphs" -> Graphs(db)
      [] OTHER -> {}

Execute(r) ==
    LET call == req[r].call IN
    /\ req[r].http = "sent"
    /\ db' = InsertData(db, GraphOf(call), req[r].batch)
    /\ req' = [req EXCEPT ![r].http = "done", ![r].rows = Rows(call),
                          ![r].names = FoundNames(call)]
    /\ UNCHANGED <<late, promised, restarts>>

(* No connection, or a status other than 200 and 204.                       *)
Reject(r) ==
    /\ req[r].http = "sent"
    /\ req' = [req EXCEPT ![r].http = "failed", ![r].failed = @ \cup req[r].batch]
    /\ UNCHANGED <<db, late, promised, restarts>>

Update(r) == [graph |-> GraphOf(req[r].call), batch |-> req[r].batch]

(* Mutation: the client waits for as long as it takes.                      *)
TimesOutIfDone(r) ==
    /\ req[r].http = "done"
    /\ req' = [req EXCEPT ![r].http = "failed", ![r].failed = @ \cup req[r].batch,
                          ![r].rows = {}, ![r].names = {}]
    /\ UNCHANGED <<db, late, promised, restarts>>

(* The client's timeout, before or after Oxigraph has executed the request. *)
TimesOut(r) ==
    /\ req[r].http \in {"sent", "done"}
    /\ req' = [req EXCEPT ![r].http = "failed", ![r].failed = @ \cup req[r].batch,
                          ![r].rows = {}, ![r].names = {}]
    /\ late' = late \cup IF req[r].http = "sent" /\ req[r].batch # {} THEN {Update(r)} ELSE {}
    /\ UNCHANGED <<db, promised, restarts>>

ExecuteLate(u) ==
    /\ u \in late
    /\ db' = InsertData(db, u.graph, u.batch)
    /\ late' = late \ {u}
    /\ UNCHANGED <<req, promised, restarts>>

-----------------------------------------------------------------------------
(* The handlers from the answer of Oxigraph on.                             *)

Created(r) ==
    /\ req' = [req EXCEPT ![r].pc = "answered", ![r].code = 201, ![r].http = "none"]
    /\ promised' = promised \cup {r}
    /\ UNCHANGED <<db, late, restarts>>

(* Mutation: the error of the store is dropped here as well.                *)
TriplesCreatedAnyway(r) ==
    /\ req[r].pc = "waiting" /\ req[r].call.op = "triples"
    /\ req[r].http \in {"done", "failed"}
    /\ Created(r)

TriplesCreated(r) ==
    LET call == req[r].call IN
    /\ \/ Received(r, {"triples"}) /\ Accepted(call) /\ call.body = {}   \* nothing to send
       \/ req[r].pc = "waiting" /\ call.op = "triples" /\ req[r].http = "done"
    /\ Created(r)

(* Insert() drops the error: the loop goes on to the next triple.           *)
IngestContinues(r) ==
    /\ req[r].pc = "waiting" /\ req[r].call.op = "ingest"
    /\ req[r].http \in {"done", "failed"}
    /\ req' = [req EXCEPT ![r].pc = "received", ![r].http = "none", ![r].batch = {},
                          ![r].todo = @ \ req[r].batch]
    /\ UNCHANGED <<db, late, promised, restarts>>

IngestCreated(r) ==
    /\ Received(r, {"ingest"})
    /\ req[r].todo = {}
    /\ Created(r)

(* Mutation: a code of its own for the error of the store.                  *)
StoreErrorAs502(r) ==
    /\ req[r].pc = "waiting" /\ req[r].call.op \in Scoped \cup {"triples"}
    /\ req[r].http = "failed"
    /\ req' = [req EXCEPT ![r].pc = "answered", ![r].code = 502, ![r].http = "none"]
    /\ UNCHANGED <<db, late, promised, restarts>>

(* The store's error reaches the client on these routes.                    *)
StoreError(r) ==
    /\ req[r].pc = "waiting" /\ req[r].call.op \in Scoped \cup {"triples"}
    /\ req[r].http = "failed"
    /\ req' = [req EXCEPT ![r].pc = "answered", ![r].code = 400, ![r].http = "none"]
    /\ UNCHANGED <<db, late, promised, restarts>>

(* results[:limit], of rows in any order.                                   *)
Cuts(rows) ==
    IF Cardinality(rows) <= ResultLimit THEN {rows}
    ELSE {cut \in SUBSET rows : Cardinality(cut) = ResultLimit}

(* Mutation: QueryDataset and QueryBeamline drop their error as Query does. *)
FoundScopedAnyway(r) ==
    /\ req[r].pc = "waiting" /\ req[r].call.op \in Scoped
    /\ req[r].http \in {"done", "failed"}
    /\ req' = [req EXCEPT ![r].pc = "answered", ![r].code = 200, ![r].http = "none"]
    /\ UNCHANGED <<db, late, promised, restarts>>

FoundScoped(r) ==
    /\ req[r].pc = "waiting" /\ req[r].call.op \in Scoped
    /\ req[r].http = "done"
    /\ req' = [req EXCEPT ![r].pc = "answered", ![r].code = 200, ![r].http = "none"]
    /\ UNCHANGED <<db, late, promised, restarts>>

(* Query(), Describe(), KeywordSearch(), Graphs() and DatasetsForBeamline() *)
(* drop the error: a failed request has no rows.                            *)
FoundUnscoped(r) ==
    /\ req[r].pc = "waiting" /\ req[r].call.op \in Unscoped
    /\ req[r].http \in {"done", "failed"}
    /\ \E cut \in Cuts(req[r].rows) :
        req' = [req EXCEPT ![r].pc = "answered", ![r].code = 200, ![r].http = "none",
                           ![r].rows = cut]
    /\ UNCHANGED <<db, late, promised, restarts>>

-----------------------------------------------------------------------------
Abandoned == {r \in Requests : req[r].http = "sent" /\ req[r].batch # {}}

Restart ==
    /\ restarts < MaxRestarts
    /\ restarts' = restarts + 1
    /\ late' = late \cup {Update(r) : r \in Abandoned}
    /\ req' = [r \in Requests |->
                 IF req[r].pc \in Working THEN [req[r] EXCEPT !.pc = "dropped", !.http = "none"]
                 ELSE req[r]]
    /\ UNCHANGED <<db, promised>>

Serve(r) ==
    \/ BadRequest(r) \/ Unprocessable(r)
    \/ TriplesUpdate(r) \/ IngestUpdate(r) \/ QueryRequest(r)
    \/ TimesOut(r)
    \/ TriplesCreated(r) \/ IngestContinues(r) \/ IngestCreated(r)
    \/ StoreError(r) \/ FoundScoped(r) \/ FoundUnscoped(r)

Oxigraph == \E r \in Requests : Execute(r) \/ Reject(r)

Next ==
    \/ \E r \in Requests : Send(r) \/ Serve(r)
    \/ Oxigraph
    \/ \E u \in late : ExecuteLate(u)
    \/ Restart

(* The goroutines run, and their HTTP client has a timeout (30 s when none  *)
(* is configured).  Oxigraph owes nothing.                                  *)
Fairness == \A r \in Requests : WF_vars(Serve(r))

Spec == Init /\ [][Next]_vars
FairSpec == Spec /\ Fairness

-----------------------------------------------------------------------------
TypeOK ==
    /\ db \subseteq Quad
    /\ late \subseteq [graph : GraphName, batch : SUBSET Triple]
    /\ req \in [Requests -> RequestType]
    /\ promised \subseteq Requests
    /\ restarts \in 0..MaxRestarts

StoredIn(g) == {q[2] : q \in {p \in db : p[1] = g}}

(* What a 201 is worth.  Of a dataset write, every triple is stored, for    *)
(* good: no restart of the data-service takes it away.  Of an ingest, every *)
(* triple but those whose own insert failed, which the answer counts as     *)
(* ingested and does not tell.                                              *)
CreatedIsStored ==
    \A w \in promised :
        LET call == req[w].call IN
        call.body \subseteq
            StoredIn(GraphOf(call)) \cup (IF call.op = "ingest" THEN req[w].failed ELSE {})

(* However late an update that was given up is executed, and whatever part  *)
(* of an ingest has failed, a resource that a graph types as an observation *)
(* has its required properties.                                             *)
ObservationsComplete ==
    \A g \in Graphs(db) :
        \A s \in Observations(StoredIn(g)) : HasRequiredProperties(StoredIn(g), s)

InScope(call, did) ==
    CASE call.op = "dataset" -> Canonical(did) = Canonical(call.did)
      [] call.op \in {"beamline", "graphs"} -> Lower[BeamlineSegment(did)] = call.beamline
      [] call.op = "allGraphs" -> TRUE
      [] OTHER -> call.filter = {} /\ call.describe = Wildcard /\ call.search = Wildcard

FoundBy(r, ops) ==
    req[r].pc = "answered" /\ req[r].code = 200 /\ req[r].call.op \in ops

(* The dataset writes answered 201 before r was sent, in the scope of r.    *)
Owed(r) ==
    {w \in req[r].before : req[w].call.op = "triples" /\ InScope(req[r].call, req[w].call.did)}

Sees(r, w) ==
    LET call == req[r].call
        written == req[w].call.body
    IN
    IF call.op \in {"graphs", "allGraphs"} THEN written = {} \/ GraphOf(req[w].call) \in req[r].names
    ELSE written \subseteq {q[2] : q \in req[r].rows} \/ Cardinality(req[r].rows) = ResultLimit

(* An unfiltered answer 200 is never half of the truth: it holds all that   *)
(* was acknowledged in its scope, or, on the routes that drop the error of  *)
(* the store and on no other, nothing at all.                               *)
ReadsAllOrNothing ==
    \A r \in Requests :
        FoundBy(r, Scoped \cup Unscoped) /\ PassesFilters(req[r].call.pattern) =>
            \/ \A w \in Owed(r) : Sees(r, w)
            \/ /\ req[r].call.op \in Unscoped
               /\ req[r].rows = {} /\ req[r].names = {}

(* The abstract store, which here outlives the data-service; the writes of  *)
(* the dataset route are those that are truly acknowledged.                 *)
Abstract == INSTANCE GraphStore WITH
    Graph <- {GraphOf(c) : c \in Calls},
    Batch <- {c.body : c \in {d \in Calls : d.op = "triples"}}
             \cup {{t} : t \in UNION {c.body : c \in {d \in Calls : d.op = "ingest"}}},
    Seed <- {},
    quads <- db,
    acknowledged <-
        UNION {{<<GraphOf(req[w].call), t>> : t \in req[w].call.body} :
                 w \in {v \in promised : req[v].call.op = "triples"}}

(* Late, lost and failed requests and restarts notwithstanding, the service *)
(* implements the durable abstract store: a batch appears at once or never, *)
(* nothing disappears, and a dataset write is acknowledged only when it is  *)
(* stored.                                                                  *)
ImplementsGraphStore == Abstract!DurableSpec

(* A hanging Oxigraph hangs no client of the data-service: every request is *)
(* answered, or the process ends.                                           *)
EveryRequestAnswered ==
    \A r \in Requests :
        req[r].pc \in Working ~> req[r].pc \in {"answered", "dropped"}

(* store.go: "Empty subject/predicate/object act as wildcards", the others  *)
(* select; oxigraph.go: the two stores "are interchangeable".  So a query   *)
(* finds the triples it asks for that were acknowledged before.             *)
FiltersSelect ==
    \A r \in Requests : FoundBy(r, Scoped) =>
        \A w \in Owed(r) :
            \A t \in req[w].call.body :
                (\A f \in {"s", "p", "o"} : req[r].call.pattern[f] \in {Wildcard, t[f]})
                => \E q \in req[r].rows : q[2] = t
=============================================================================
