---------------------------- MODULE Publication -----------------------------
(***************************************************************************)
(* The publication flow across the node: FOXDEN ingests a dataset into the  *)
(* data-service, mints a DOI, and has the identity-service sign a           *)
(* credential that names the dataset's graph and the URL to query it at; a  *)
(* reader follows the credential back to the data-service.  The two         *)
(* services share no state and derive graph and URL each on its own; each   *)
(* may be restarted without the other.                                      *)
(***************************************************************************)
EXTENDS DataService

CONSTANTS Publications, Missing, Dois, NoProof, MaxKeys

VARIABLES key, conformVC, signed, verdict

Identity == INSTANCE IdentityService

(* The query that dcat:accessURL of a credential stands for.                *)
AccessCall(endpoint) ==
    [op |-> "dataset", beamline |-> endpoint.beamline, did |-> endpoint.did,
     body |-> <<>>,
     pattern |-> [s |-> Wildcard, p |-> Wildcard, o |-> Wildcard],
     filter |-> {}, describe |-> Wildcard, search |-> Wildcard]

(* The DOI service leaves graph and URL to the identity-service, or names   *)
(* those that the data-service gives the dataset; readers may send any query*)
(* a credential leads to.                                                   *)
ASSUME PublicationAssumption ==
    \A p \in Publications : Identity!Valid(p) =>
        /\ p.graph \in {Missing, GraphIRI(p.did)}
        /\ p.endpoint \in {Missing, Identity!sparqlEndpointFromDID(p.did)}
        /\ AccessCall(Identity!Claims(p).endpoint) \in Calls

credentialVars == <<key, conformVC, signed, verdict>>
publicationVars == <<vars, credentialVars>>

PublicationInit == Init /\ Identity!IdentityInit

(* The DOI service publishes datasets that FOXDEN holds, whether they have  *)
(* been ingested yet or not.                                                *)
Publish(p) ==
    /\ p.did \in FoxdenDids /\ foxden[p.did] # NoRecord
    /\ Identity!IssueDatasetCredential(p)
    /\ UNCHANGED vars

(* A reader follows dcat:accessURL of a credential.                         *)
Follow(r, proof) ==
    /\ req[r].pc = "idle"
    /\ proof.payload.type = "dataset"
    /\ req' = [req EXCEPT ![r].pc = "received", ![r].before = promised,
                          ![r].call = AccessCall(proof.payload.endpoint)]
    /\ UNCHANGED <<graphs, foxden, promised, restarts, credentialVars>>

PublicationNext ==
    \/ Next /\ UNCHANGED credentialVars
    \/ \E p \in Publications : Publish(p)
    \/ \E r \in Requests, proof \in signed : Follow(r, proof)
    \/ Identity!RestartIdentity /\ UNCHANGED vars

PublicationSpec == PublicationInit /\ [][PublicationNext]_publicationVars

(* A reader has the identity-service check the credential it was given.     *)
Check(proof) ==
    /\ Identity!VerifyCredential(proof.payload, proof)
    /\ UNCHANGED vars

ReadersNext == PublicationNext \/ \E proof \in signed : Check(proof)

ReadersSpec == PublicationInit /\ [][ReadersNext]_publicationVars

-----------------------------------------------------------------------------
DatasetProofs == {s \in signed : s.payload.type = "dataset"}
Ingests(did) ==
    {w \in promised : req[w].call.op = "ingest" /\ req[w].call.did = did}

(* A credential is right about where the dataset is: whatever FOXDEN had    *)
(* told the node to ingest, and the node had answered 201, is in the graph  *)
(* that the other service signed, however often either is restarted (while  *)
(* the data-service runs: its restart empties the store).                   *)
SignedGraphHolds ==
    \A s \in DatasetProofs :
        \A w \in Ingests(s.payload.did) :
            /\ s.payload.graph \in DOMAIN graphs
            /\ req[w].payload \subseteq Stored(s.payload.graph)

FollowedBy(r) == {s \in DatasetProofs : req[r].call = AccessCall(s.payload.endpoint)}

(* Its two claims agree: the query it leads a reader to, when it succeeds,  *)
(* answers from the signed graph alone, and with all that had been ingested *)
(* of the dataset when the reader set out.                                  *)
SignedClaimsAgree ==
    \A r \in {q \in Requests : FoundBy(q, "dataset")} :
        \A s \in FollowedBy(r) :
            /\ \A h \in req[r].hits : h.graph = s.payload.graph
            /\ \A w \in req[r].before \cap Ingests(s.payload.did) :
                  req[w].payload \subseteq {h.triple : h \in req[r].hits}

(* FOXDEN_FabricNode_Integration.md, of a credential's probe:               *)
(* "dcat:accessURL from credential responds HTTP 200".                      *)
AccessURLAnswers(s) ==
    \A r \in Requests :
        s \in FollowedBy(r) /\ req[r].pc = "answered" => req[r].code = 200

(* Two promises are made of a credential: that it verifies, and that its    *)
(* access URL answers.  Of each credential at least one is kept: weaker than*)
(* either promise, so that a credential for which it fails breaks both.     *)
DocumentedCredentials ==
    \A s \in DatasetProofs : Identity!SignedVerifies(s) \/ AccessURLAnswers(s)
=============================================================================
