------------------------------- MODULE Shacl --------------------------------
(***************************************************************************)
(* Triples and the SHACL-style validation a write request goes through.    *)
(***************************************************************************)
EXTENDS DatasetDid

CONSTANTS
    Subject, Predicate, Object,
    DateTimes,    \* the objects that contain a "T", as ValidateObservation asks
    SensorNames   \* SensorNames[o]: the names n such that the text of o starts
                  \* with <iriBase>/sensor/<n>

ASSUME ShaclAssumption ==
    /\ {"type", "resultTime", "madeBySensor", "observedProperty"} \subseteq Predicate
    /\ "Observation" \in Object
    /\ SensorNames \in [Object -> SUBSET Names]

Triple == [s : Subject, p : Predicate, o : Object]

(* getValues() over indexBySubject()[s].                                    *)
Values(ts, s, p) == {t.o : t \in {u \in ts : u.s = s /\ u.p = p}}

(* The subjects the validator looks at: those typed in these triples.       *)
Observations(ts) ==
    {t.s : t \in {u \in ts : u.p = "type" /\ u.o = "Observation"}}

HasRequiredProperties(ts, s) ==
    /\ Values(ts, s, "resultTime") # {}
    /\ Values(ts, s, "madeBySensor") # {}
    /\ Values(ts, s, "observedProperty") # {}

(* Mutation: the check of sosa:observedProperty is missing.                 *)
ValidateWithoutProperty(ts) ==
    \A s \in Observations(ts) :
        /\ Values(ts, s, "resultTime") # {}
        /\ Values(ts, s, "madeBySensor") # {}

ValidateObservation(ts) ==
    \A s \in Observations(ts) :
        /\ HasRequiredProperties(ts, s)
        /\ Values(ts, s, "resultTime") \subseteq DateTimes

(* The prefix <iriBase>/sensor/<beamline> ends in no delimiter, so it is    *)
(* also a prefix of the IRIs of every beamline with a longer name.          *)
ValidateForDataset(beamline, ts) ==
    /\ ValidateObservation(ts)
    /\ \A s \in Observations(ts) :
           \A sensor \in Values(ts, s, "madeBySensor") :
               Lower[beamline] \in SensorNames[sensor]
=============================================================================
