----------------------------- MODULE DatasetDid -----------------------------
(***************************************************************************)
(* Dataset identifiers (DIDs), dataset references and the named-graph IRIs  *)
(* derived from them.                                                       *)
(*                                                                          *)
(* A DID is the text "/beamline=id3a/btr=v/...".  Every derivation in the   *)
(* code first trims one leading "/" and then cuts at "/", so a DID is here  *)
(* the non-empty sequence of its parts.  A part "k=v" is [key, val]; a part *)
(* without a key ("junk", "=v" or the empty text) has key "", and "" for a  *)
(* value too when it holds no "=".                                          *)
(*                                                                          *)
(* A graph IRI <base>/graph/<bl>/<path> is the record [bl, path]; the base  *)
(* is the same for every IRI of a node and is left out.                     *)
(***************************************************************************)
EXTENDS Naturals, Sequences

CONSTANTS
    Names,       \* the texts that stand for beamlines or segment values
    Keys,        \* the segment keys, "" and "beamline" among them
    ValidNames,  \* the names that match beamlinePattern
    Lower        \* Lower[n]: n in lower case

ASSUME NamesAssumption ==
    /\ {"", "unknown"} \subseteq Names
    /\ {"", "beamline"} \subseteq Keys
    /\ ValidNames \subseteq Names \ {""}
    /\ Lower \in [Names -> Names]
    /\ \A b \in ValidNames : Lower[b] = b

Part == [key : Keys, val : Names]
Did == Seq(Part) \ {<<>>}
GraphName == [bl : Names, path : Seq(Part)]

(* The parts Segments() keeps are those with a key; the others are skipped. *)
IsFirstSegment(did, i) ==
    /\ did[i].key # ""
    /\ \A j \in 1..(i - 1) : did[j].key = ""

(* BeamlineSegment(): the value of the first kept part if its key is        *)
(* "beamline"; the error case is "", which is no valid beamline either.     *)
BeamlineSegment(did) ==
    IF \E i \in DOMAIN did : IsFirstSegment(did, i) /\ did[i].key = "beamline"
    THEN did[CHOOSE i \in DOMAIN did : IsFirstSegment(did, i)].val
    ELSE ""

(* DatasetRef.Validate().                                                   *)
ValidRef(beamline, did) ==
    /\ beamline \in ValidNames
    /\ BeamlineSegment(did) = beamline

(* DatasetDID.GraphIRIWithBase(): what follows the first "/" of the trimmed *)
(* text, or all of it when it holds no "/".                                 *)
GraphIRI(did) ==
    [bl   |-> Lower[BeamlineSegment(did)],
     path |-> IF Len(did) > 1 THEN Tail(did) ELSE did]

(* Mutation: the beamline keeps its case.                                   *)
GraphIRIFromDIDKeepsCase(did, uuid) ==
    IF Len(did) < 2
    THEN [bl |-> "unknown", path |-> <<uuid>>]
    ELSE [bl |-> did[1].val, path |-> Tail(did)]

(* foxden.GraphIRIFromDID(): the second derivation, used by the ingest; a   *)
(* DID of a single part gets a graph keyed by a fresh UUID.                 *)
GraphIRIFromDID(did, uuid) ==
    IF Len(did) < 2
    THEN [bl |-> "unknown", path |-> <<uuid>>]
    ELSE [bl |-> Lower[did[1].val], path |-> Tail(did)]

(* Which dataset a DID names, wherever its beamline is written in capitals. *)
Canonical(did) == [did EXCEPT ![1].val = Lower[@]]
=============================================================================
