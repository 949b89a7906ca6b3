------------------------- MODULE MCIdentityService --------------------------
(***************************************************************************)
(* Two datasets, one with its beamline in upper case; a request of each     *)
(* kind; two key pairs.                                                     *)
(***************************************************************************)
EXTENDS IdentityService

MCNames == {"", "unknown", "id3", "ID3A", "id3a", "v"}
MCKeys == {"", "beamline", "btr"}
MCValidNames == {"id3", "id3a"}
MCLower == [n \in MCNames |-> IF n = "ID3A" THEN "id3a" ELSE n]

DidOf(beamline) ==
    <<[key |-> "beamline", val |-> beamline], [key |-> "btr", val |-> "v"]>>

Publish(did, doi) ==
    [did |-> did, doi |-> doi, graph |-> Missing, endpoint |-> Missing]
MCPublications ==
    {Publish(DidOf("id3"), "doi1"),
     [Publish(DidOf("ID3A"), "doi2") EXCEPT !.graph = graphIRIFromDID(DidOf("id3")),
                                            !.endpoint = sparqlEndpointFromDID(DidOf("id3"))],
     Publish(<<[key |-> "", val |-> "v"]>>, "doi1"),
     Publish(DidOf("id3"), Missing),
     Publish(Missing, "doi1")}
=============================================================================
