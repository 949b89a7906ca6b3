-------------------------- MODULE IdentityService ---------------------------
(***************************************************************************)
(* The identity-service: the node's key pair, its DID document, and the     *)
(* credentials it signs.  The key pair lives in the process.  A proof, once *)
(* handed out, is in the hands of anybody, who may present it again, under  *)
(* the content it was made for or under another.                            *)
(*                                                                          *)
(* A signature is ideal: it is the pair of the key and what was signed, and *)
(* nobody but the process can make one.  IDs and dates are left out, so     *)
(* that two issues of one content are one credential.                       *)
(***************************************************************************)
EXTENDS DatasetDid

CONSTANTS
    Publications,   \* the requests the DOI service may make
    Missing,        \* the empty text of an absent field
    Dois,
    NoProof,        \* a credential without a proof
    MaxKeys         \* bound of the model: how many key pairs the node gets

Endpoint == [beamline : Names, did : Did]
PublicationType ==
    [did : Did \cup {Missing}, doi : Dois \cup {Missing},
     graph : GraphName \cup {Missing}, endpoint : Endpoint \cup {Missing}]

ASSUME IdentityAssumption ==
    /\ Publications \subseteq PublicationType
    /\ Missing \notin Did \cup Dois \cup GraphName \cup Endpoint
    /\ MaxKeys \in Nat \ {0}

VARIABLES
    key,            \* NodeState.KeyPair: the number of the process's key pair
    conformVC,      \* NodeState.ConformVC, signed by main()
    signed,         \* history: every signature made, in the hands of anybody
    verdict         \* the last answer of a verify route: what was presented,
                    \* to which key, and whether it was found to verify

identityVars == <<key, conformVC, signed, verdict>>

-----------------------------------------------------------------------------
(* Derivations from the DID, which is cut once, at its first "/".  A part   *)
(* without a key has no beamline in the code unless it is "=v".             *)

(* Mutation: the beamline keeps its case.                                   *)
graphIRIFromDIDKeepsCase(did) ==
    IF Len(did) < 2 THEN [bl |-> "unknown", path |-> did]
    ELSE [bl |-> did[1].val, path |-> Tail(did)]

graphIRIFromDID(did) ==
    IF Len(did) < 2 THEN [bl |-> "unknown", path |-> did]
    ELSE [bl |-> Lower[did[1].val], path |-> Tail(did)]

beamlineFromDID(did) == Lower[did[1].val]

(* The beamline of the path is in lower case, the DID in it is as it came.  *)
sparqlEndpointFromDID(did) == [beamline |-> beamlineFromDID(did), did |-> did]

-----------------------------------------------------------------------------
Credential(content, proof) == [content |-> content, proof |-> proof]
Sign(k, content) == [key |-> k, payload |-> content]

Conformance == [type |-> "conformance"]

Claims(p) ==
    [type |-> "dataset", did |-> p.did, doi |-> p.doi,
     graph |-> IF p.graph = Missing THEN graphIRIFromDID(p.did) ELSE p.graph,
     endpoint |-> IF p.endpoint = Missing THEN sparqlEndpointFromDID(p.did) ELSE p.endpoint,
     beamline |-> beamlineFromDID(p.did)]

(* The DOI stands for itself and its URL, which is required too.            *)
Valid(p) == p.did # Missing /\ p.doi # Missing

Contents == {Conformance} \cup {Claims(p) : p \in {q \in Publications : Valid(q)}}
Signature == [key : 1..MaxKeys, payload : Contents]

ASSUME NoProofAssumption == NoProof \notin Signature

(* Mutation: the signature is checked, but not against the credential.      *)
VerifyAnyContent(cred, publicKey) ==
    /\ cred.proof # NoProof
    /\ cred.proof.key = publicKey

(* vc.Verify() and vc.VerifyDatasetCredential(): the credential without its *)
(* proof is what was signed.                                                *)
Verify(cred, publicKey) ==
    /\ cred.proof # NoProof
    /\ cred.proof.key = publicKey
    /\ cred.proof.payload = cred.content

-----------------------------------------------------------------------------
NoVerdict == [cred |-> Credential(Conformance, NoProof), key |-> 0, verified |-> FALSE]

(* main(): the node signs its own conformance credential.                   *)
ConformVC(k) == Credential(Conformance, Sign(k, Conformance))

IdentityInit ==
    /\ key = 1
    /\ conformVC = ConformVC(1)
    /\ signed = {conformVC.proof}
    /\ verdict = NoVerdict

(* POST /credentials/dataset.                                               *)
IssueDatasetCredential(p) ==
    /\ Valid(p)
    /\ signed' = signed \cup {Sign(key, Claims(p))}
    /\ UNCHANGED <<key, conformVC, verdict>>

(* Mutation: the request is not checked, and an empty DOI is attested.      *)
RejectNothing(p) ==
    /\ ~Valid(p) /\ p.did # Missing
    /\ signed' = signed \cup {Sign(key, Claims(p))}
    /\ UNCHANGED <<key, conformVC, verdict>>

(* 400: a required field is missing.                                        *)
RejectPublication(p) ==
    /\ ~Valid(p)
    /\ UNCHANGED identityVars

(* POST /credentials/verify and /credentials/dataset/verify: somebody       *)
(* presents a content of their choice over a proof they have, or none.  The *)
(* content is what decoding keeps of the body: fields that the credential's *)
(* type does not have are dropped, and the verdict says nothing of them.    *)
VerifyCredential(content, proof) ==
    LET cred == Credential(content, proof) IN
    /\ verdict' = [cred |-> cred, key |-> key, verified |-> Verify(cred, key)]
    /\ UNCHANGED <<key, conformVC, signed>>

(* main() again: another key pair under the same key ID, and the node signs *)
(* its conformance credential anew.                                         *)
RestartIdentity ==
    /\ key < MaxKeys
    /\ key' = key + 1
    /\ conformVC' = ConformVC(key')
    /\ signed' = signed \cup {conformVC'.proof}
    /\ UNCHANGED verdict

IdentityNext ==
    \/ \E p \in Publications : IssueDatasetCredential(p) \/ RejectPublication(p)
    \/ \E content \in Contents, proof \in signed \cup {NoProof} :
          VerifyCredential(content, proof)
    \/ RestartIdentity

IdentitySpec == IdentityInit /\ [][IdentityNext]_identityVars

-----------------------------------------------------------------------------
Attests(content) ==
    content.type = "dataset" =>
        /\ content.did \in Did
        /\ content.doi \in Dois
        /\ content.graph \in GraphName
        /\ content.endpoint \in Endpoint

(* Every dataset credential ever signed names a DID, a DOI, a graph and an  *)
(* endpoint, and the service's own credential verifies under its own key,   *)
(* after every restart.                                                     *)
IdentityTypeOK ==
    /\ key \in 1..MaxKeys
    /\ Verify(conformVC, key)
    /\ \A s \in signed : s.key \in 1..key /\ Attests(s.payload)
    /\ verdict.key \in 0..key /\ verdict.verified \in BOOLEAN

(* Tamper evidence: of all that can be presented, however it was put        *)
(* together, what verifies is what the process had signed, as it signed it. *)
VerifiedWasSigned ==
    verdict.verified => Sign(verdict.key, verdict.cred.content) \in signed

(* dataset_credential.go: "any party who can resolve the node's DID         *)
(* document can independently verify" the credential of a signature.        *)
SignedVerifies(s) ==
    verdict.cred = Credential(s.payload, s) => verdict.verified
=============================================================================
