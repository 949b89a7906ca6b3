----------------------------- MODULE GraphStore -----------------------------
(***************************************************************************)
(* What the GraphStore interface promises its callers, whichever back-end   *)
(* implements it: an RDF dataset is a set of quads, an insert of a batch    *)
(* into one graph is atomic, nothing is ever deleted, and what has been     *)
(* acknowledged is there.  A back-end that keeps its quads in the process   *)
(* loses them, and every promise about them, with the process; a durable    *)
(* one does not.                                                            *)
(***************************************************************************)
CONSTANTS
    Graph,    \* the graph IRIs written to
    Batch,    \* the sets of triples one store call inserts
    Seed      \* the quads a new store holds

VARIABLES
    quads,          \* the <<graph, triple>> pairs stored
    acknowledged    \* those a caller has been told are stored

storeVars == <<quads, acknowledged>>

Init ==
    /\ quads = Seed
    /\ acknowledged = {}

Insert(g, batch) ==
    /\ quads' = quads \cup {<<g, t>> : t \in batch}
    /\ UNCHANGED acknowledged

Acknowledge ==
    /\ acknowledged \subseteq acknowledged'
    /\ acknowledged' \subseteq quads
    /\ UNCHANGED quads

Restart ==
    /\ quads' = Seed
    /\ acknowledged' = {}

DurableNext ==
    \/ \E g \in Graph, batch \in Batch : Insert(g, batch)
    \/ Acknowledge

Next == DurableNext \/ Restart

DurableSpec == Init /\ [][DurableNext]_storeVars
Spec == Init /\ [][Next]_storeVars
=============================================================================
