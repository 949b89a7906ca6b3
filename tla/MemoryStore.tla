---------------------------- MODULE MemoryStore -----------------------------
(***************************************************************************)
(* The in-memory GraphStore: a map from graph IRI to the slice of triples   *)
(* of that graph.  Every method holds the store's lock for its whole body,  *)
(* so each is one atomic operator on the map.  A method that reads returns  *)
(* its hits, a hit being a position of a slice: two equal triples are two   *)
(* hits.  Go visits the map in any order, and the order within one graph is *)
(* kept by the positions.                                                   *)
(***************************************************************************)
EXTENDS DatasetDid, Functions

CONSTANTS
    Wildcard,            \* the empty text, which matches everything
    Containing      \* Containing[w]: the literal objects that contain word w

(* Mutation: a write replaces the content of its graph.                     *)
ExtendReplaces(graphs, g, batch) ==
    [n \in DOMAIN graphs \cup {g} |-> IF n = g THEN batch ELSE graphs[n]]

(* ensureGraph() and append: the graph exists afterwards even when the      *)
(* batch is empty.                                                          *)
Extend(graphs, g, batch) ==
    [n \in DOMAIN graphs \cup {g} |->
        IF n # g THEN graphs[n]
        ELSE IF g \in DOMAIN graphs THEN graphs[g] \o batch ELSE batch]

(* Past Validate(), which the caller has repeated.  One lock for the batch. *)
InsertForDataset(graphs, did, batch) == Extend(graphs, GraphIRI(did), batch)

Insert(graphs, g, t) == Extend(graphs, g, <<t>>)

Matches(t, pattern) ==
    \A f \in {"s", "p", "o"} : pattern[f] = Wildcard \/ pattern[f] = t[f]

HitsIn(graphs, g) ==
    {[graph |-> g, pos |-> i, triple |-> graphs[g][i]] : i \in DOMAIN graphs[g]}

AllHits(graphs) == UNION {HitsIn(graphs, g) : g \in DOMAIN graphs}

(* filter is {} when the g parameter is absent, else {the graph asked for}. *)
Query(graphs, pattern, filter) ==
    {h \in AllHits(graphs) :
        /\ filter = {} \/ h.graph \in filter
        /\ Matches(h.triple, pattern)}

(* Mutation: the graph of the dataset is not passed on.                     *)
QueryDatasetEverywhere(graphs, did, pattern) == Query(graphs, pattern, {})

QueryDataset(graphs, did, pattern) == Query(graphs, pattern, {GraphIRI(did)})

(* The prefix <base>/graph/<beamline>/ ends in its delimiter.               *)
DatasetsForBeamline(graphs, beamline) ==
    {g \in DOMAIN graphs : g.bl = Lower[beamline]}

QueryBeamline(graphs, beamline, pattern) ==
    {h \in AllHits(graphs) :
        /\ h.graph \in DatasetsForBeamline(graphs, beamline)
        /\ Matches(h.triple, pattern)}

Describe(graphs, iri) ==
    {h \in AllHits(graphs) : iri \in {h.triple.s, h.triple.o}}

KeywordSearch(graphs, word) ==
    {h \in AllHits(graphs) : h.triple.o \in Containing[word]}
=============================================================================
