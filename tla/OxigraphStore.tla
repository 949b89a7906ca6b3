--------------------------- MODULE OxigraphStore ----------------------------
(***************************************************************************)
(* The Oxigraph GraphStore: what each of its SPARQL statements does to, or  *)
(* reads from, the RDF dataset that the Oxigraph server holds.  An RDF      *)
(* dataset is a set of quads: a triple inserted twice is there once, and a  *)
(* graph without triples does not exist.  The lists of results are sets, as *)
(* no query asks for an order.                                              *)
(***************************************************************************)
EXTENDS Shacl

CONSTANTS
    Wildcard,     \* the empty text, which matches everything
    Literals,     \* the objects that are literals, the others being IRIs
    Containing    \* Containing[w]: the literals that contain word w

ASSUME OxigraphAssumption == Literals \subseteq Object

Quad == GraphName \X Triple

(* Mutation: the batch takes the place of what the graph held.              *)
InsertDataReplaces(db, g, batch) ==
    {q \in db : q[1] # g} \cup {<<g, t>> : t \in batch}

(* INSERT DATA of one batch into one graph: one transaction.                *)
InsertData(db, g, batch) == db \cup {<<g, t>> : t \in batch}

(* tripleVar(): what is asked for takes the variable's place in the triple  *)
(* pattern, as an IRI, also for the object.                                 *)
MatchesTerms(t, pattern) ==
    \A f \in {"s", "p", "o"} :
        \/ pattern[f] = Wildcard
        \/ pattern[f] = t[f] /\ t[f] \notin Literals

(* And then there is a FILTER on the variable.  It is bound nowhere once a  *)
(* constant stands in its place, so the FILTER is an error, which drops the *)
(* row.                                                                     *)
PassesFilters(pattern) == \A f \in {"s", "p", "o"} : pattern[f] = Wildcard

Select(db, pattern, graphs) ==
    {q \in db :
        /\ q[1] \in graphs
        /\ MatchesTerms(q[2], pattern)
        /\ PassesFilters(pattern)}

Graphs(db) == {q[1] : q \in db}

DatasetsForBeamline(db, beamline) == {g \in Graphs(db) : g.bl = Lower[beamline]}

QueryDataset(db, did, pattern) == Select(db, pattern, {GraphIRI(did)})

QueryBeamline(db, beamline, pattern) ==
    Select(db, pattern, DatasetsForBeamline(db, beamline))

(* filter is {} when the g parameter is absent, else {the graph asked for}. *)
Query(db, pattern, filter) ==
    Select(db, pattern, IF filter = {} THEN Graphs(db) ELSE filter)

(* The filter compares with an IRI, which no literal is equal to.           *)
Describe(db, iri) ==
    {q \in db : iri = q[2].s \/ (iri = q[2].o /\ iri \notin Literals)}

KeywordSearch(db, word) == {q \in db : q[2].o \in Containing[word]}
=============================================================================
