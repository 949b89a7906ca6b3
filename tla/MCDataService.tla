--------------------------- MODULE MCDataService ----------------------------
(***************************************************************************)
(* A small node for TLC: beamlines id3 and id3a, whose names are prefixes   *)
(* of one another as those of the seed data are; one dataset of each, the   *)
(* second also known to FOXDEN, with its beamline in upper case.            *)
(***************************************************************************)
EXTENDS DataService, TLC

MCNames == {"", "unknown", "id3", "id3a", "ID3A", "v"} \cup Requests
MCKeys == {"", "beamline", "btr"}
MCValidNames == {"id3", "id3a"}
MCLower == [n \in MCNames |-> IF n = "ID3A" THEN "id3a" ELSE n]

DidOf(beamline) ==
    <<[key |-> "beamline", val |-> beamline], [key |-> "btr", val |-> "v"]>>

MCSubject == {"obs", "seedObs", "dataset"}
MCPredicate == {"type", "resultTime", "madeBySensor", "observedProperty", "title"}
MCObject == {"Observation", "Dataset", "2026T", "today", "id3-det", "id3a-det", "peak", "v1", "v2"}
MCDateTimes == {"2026T"}
MCSensorNames ==
    [o \in MCObject |-> CASE o = "id3-det" -> {"id3"}
                          [] o = "id3a-det" -> {"id3", "id3a"}
                          [] OTHER -> {}]
MCContaining == [w \in {"T"} |-> {"2026T"}]

T(s, p, o) == [s |-> s, p |-> p, o |-> o]

Observation(s, sensor) ==
    <<T(s, "type", "Observation"), T(s, "resultTime", "2026T"),
      T(s, "madeBySensor", sensor), T(s, "observedProperty", "peak")>>

MCSeedGraphs ==
    [g \in {GraphIRI(DidOf("id3a"))} |-> Observation("seedObs", "id3a-det")]

MCFoxdenDids == {DidOf("id3"), DidOf("ID3A")}
MCRecordToTriples ==
    [d \in MCFoxdenDids |-> [v \in Versions |->
        IF d = DidOf("id3") /\ v = "v2" THEN {}                 \* a record without a did
        ELSE {T("dataset", "type", "Dataset"), T("dataset", "title", v)}]]

Wild == [s |-> Wildcard, p |-> Wildcard, o |-> Wildcard]
Call(op, beamline, did) ==
    [op |-> op, beamline |-> beamline, did |-> DidOf(did), body |-> <<>>,
     pattern |-> Wild, filter |-> {}, describe |-> Wildcard, search |-> Wildcard]
Post(beamline, did, body) == [Call("triples", beamline, did) EXCEPT !.body = body]
MCCalls ==
    LET good == Observation("obs", "id3-det") IN
    {Post("id3", "id3", good),
     Post("id3a", "id3a", Observation("obs", "id3a-det")),
     Post("id3", "id3", Observation("obs", "id3a-det")),     \* conforms too
     Post("id3", "id3", Tail(good)),                         \* untyped: conforms
     Post("id3", "id3", SubSeq(good, 1, 3)),                 \* incomplete: 422
     Post("id3", "id3a", good),                              \* no such pair: 400
     [Post("id3", "id3", good) EXCEPT !.op = "validate"],
     Call("ingest", "id3", "id3"),
     Call("ingest", "id3a", "ID3A"),
     Call("dataset", "id3", "id3"),
     [Call("beamline", "id3a", "id3a") EXCEPT !.pattern.p = "type"],
     Call("beamline", "ID3A", "ID3A"),                       \* no such name: 400
     Call("graphs", "id3", "id3"),
     Call("allGraphs", "", "id3"),
     Call("global", "", "id3"),
     [Call("global", "", "id3") EXCEPT !.search = "T"],
     [Call("global", "", "id3") EXCEPT !.describe = "obs", !.search = "T"]}

Symmetry == Permutations(Requests)

(* validator.go, ValidateForDataset: "every sosa:madeBySensor value is      *)
(* hosted by the declared beamline".  The seed's isHostedBy triples say     *)
(* which beamline hosts a sensor.                                           *)
HostedBy(sensor) == IF sensor = "id3-det" THEN "id3" ELSE "id3a"

SensorsHosted ==
    \A g \in DOMAIN graphs :
        \A s \in Observations(Stored(g)) :
            \A sensor \in Values(Stored(g), s, "madeBySensor") :
                HostedBy(sensor) = g.bl
=============================================================================
