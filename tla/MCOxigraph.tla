----------------------------- MODULE MCOxigraph -----------------------------
(***************************************************************************)
(* A small node over Oxigraph for TLC: one dataset of id3 that clients      *)
(* write to, and one of id3a that is ingested from FOXDEN, whose DID has    *)
(* the beamline in upper case.                                              *)
(***************************************************************************)
EXTENDS OxigraphService

MCNames == {"", "unknown", "id3", "id3a", "ID3A", "v"}
MCKeys == {"", "beamline", "btr"}
MCValidNames == {"id3", "id3a"}
MCLower == [n \in MCNames |-> IF n = "ID3A" THEN "id3a" ELSE n]

DidOf(beamline) ==
    <<[key |-> "beamline", val |-> beamline], [key |-> "btr", val |-> "v"]>>

MCSubject == {"obs", "dataset"}
MCPredicate == {"type", "resultTime", "madeBySensor", "observedProperty", "title"}
MCObject == {"Observation", "Dataset", "2026T", "det", "peak", "v1"}
MCLiterals == {"2026T", "v1"}
MCDateTimes == {"2026T"}
MCSensorNames == [o \in MCObject |-> IF o = "det" THEN {"id3"} ELSE {}]
MCContaining == [w \in {"T"} |-> {"2026T"}]

T(s, p, o) == [s |-> s, p |-> p, o |-> o]
Title == T("obs", "title", "v1")
Observation ==
    {T("obs", "type", "Observation"), T("obs", "resultTime", "2026T"),
     T("obs", "madeBySensor", "det"), T("obs", "observedProperty", "peak")}
Record == {T("dataset", "type", "Dataset"), T("dataset", "title", "v1")}

Call(op, beamline, did) ==
    [op |-> op, beamline |-> beamline, did |-> DidOf(did), body |-> {},
     pattern |-> [s |-> Wildcard, p |-> Wildcard, o |-> Wildcard],
     filter |-> {}, describe |-> Wildcard, search |-> Wildcard]
Post(beamline, did, body) == [Call("triples", beamline, did) EXCEPT !.body = body]

MCCalls ==
    {Post("id3", "id3", Observation),
     Post("id3", "id3", {T("obs", "type", "Observation")}),   \* incomplete: 422
     Post("id3", "id3a", Observation),                        \* no such pair: 400
     Post("id3", "id3", {}),                                  \* nothing to send
     [Call("ingest", "id3a", "ID3A") EXCEPT !.body = Record],
     Call("dataset", "id3", "id3"),
     [Call("dataset", "id3", "id3") EXCEPT !.pattern.p = "type"],
     Call("beamline", "id3a", "id3a"),
     Call("graphs", "id3", "id3"),
     Call("allGraphs", "", "id3"),
     Call("global", "", "id3"),
     [Call("global", "", "id3") EXCEPT !.search = "T"],
     [Call("global", "", "id3") EXCEPT !.describe = "obs"]}
=============================================================================
