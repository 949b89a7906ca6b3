----------------------- MODULE IdentityServiceProofs ------------------------
(***************************************************************************)
(* What holds of the credentials of the identity-service for every set of   *)
(* requests and every number of restarts.                                   *)
(***************************************************************************)
EXTENDS IdentityService, TLAPS

-----------------------------------------------------------------------------
(* What the derivations from a DID yield.                                   *)

LEMMA EndpointType ==
    ASSUME NEW did \in Did
    PROVE  sparqlEndpointFromDID(did) \in Endpoint
<1>1. did \in Seq(Part) /\ Len(did) >= 1
  BY DEF Did
<1>2. did[1] \in Part
  BY <1>1
<1>3. did[1].val \in Names
  BY <1>2 DEF Part
<1>4. Lower[did[1].val] \in Names
  BY <1>3, NamesAssumption
<1>5. QED
  BY <1>4 DEF sparqlEndpointFromDID, beamlineFromDID, Endpoint

LEMMA GraphFromDIDType ==
    ASSUME NEW did \in Did
    PROVE  graphIRIFromDID(did) \in GraphName
<1>1. did \in Seq(Part) /\ Len(did) >= 1
  BY DEF Did
<1>2. did[1] \in Part /\ Tail(did) \in Seq(Part)
  BY <1>1
<1>3. did[1].val \in Names
  BY <1>2 DEF Part
<1>4. Lower[did[1].val] \in Names /\ "unknown" \in Names
  BY <1>3, NamesAssumption
<1>5. QED
  BY <1>1, <1>2, <1>4 DEF graphIRIFromDID, GraphName

(* Every content the node signs attests to something.                       *)
LEMMA ContentsAttest ==
    ASSUME NEW content \in Contents
    PROVE  Attests(content)
<1>1. CASE content = Conformance
  BY <1>1 DEF Attests, Conformance
<1>2. ASSUME NEW p \in Publications, Valid(p), content = Claims(p)
      PROVE  Attests(content)
  <2>1. /\ p.did \in Did /\ p.doi \in Dois
        /\ p.graph \in GraphName \cup {Missing}
        /\ p.endpoint \in Endpoint \cup {Missing}
    BY <1>2, IdentityAssumption DEF Valid, PublicationType
  <2>2. graphIRIFromDID(p.did) \in GraphName /\ sparqlEndpointFromDID(p.did) \in Endpoint
    BY <2>1, GraphFromDIDType, EndpointType
  <2>3. QED
    BY <1>2, <2>1, <2>2 DEF Attests, Claims
<1>3. QED
  BY <1>1, <1>2 DEF Contents

-----------------------------------------------------------------------------
(* The inductive invariant.  A verdict is right because a proof that was    *)
(* ever handed out is the pair of a key of this node and a content of it,   *)
(* and because no such pair is ever forgotten.                              *)

Signed ==
    /\ key \in 1..MaxKeys
    /\ signed \subseteq [key : 1..key, payload : Contents]
    /\ conformVC = ConformVC(key)
    /\ verdict.key \in 0..key
    /\ verdict.verified \in BOOLEAN

IInv == Signed /\ VerifiedWasSigned

LEMMA ConformVCVerifies ==
    ASSUME NEW k \in 1..MaxKeys
    PROVE  Verify(ConformVC(k), k) /\ ConformVC(k).proof = Sign(k, Conformance)
<1>1. ConformVC(k).proof = Sign(k, Conformance) /\ ConformVC(k).content = Conformance
  BY DEF ConformVC, Credential
<1>2. Sign(k, Conformance) \in Signature
  BY DEF Sign, Signature, Contents
<1>3. Sign(k, Conformance) # NoProof
  BY <1>2, NoProofAssumption
<1>4. QED
  BY <1>1, <1>3 DEF Verify, Sign

LEMMA SignType ==
    ASSUME NEW k \in Nat \ {0}, NEW content \in Contents
    PROVE  Sign(k, content) \in [key : 1..k, payload : Contents]
BY DEF Sign

LEMMA InvInit == IdentityInit => IInv
<1> SUFFICES ASSUME IdentityInit
             PROVE  IInv
  OBVIOUS
<1>1. key \in 1..MaxKeys /\ key = 1
  BY IdentityAssumption DEF IdentityInit
<1>2. signed = {Sign(1, Conformance)}
  BY <1>1, ConformVCVerifies DEF IdentityInit
<1>3. Sign(1, Conformance) \in [key : 1..1, payload : Contents]
  BY SignType DEF Contents
<1>4. verdict.key = 0 /\ verdict.verified = FALSE
  BY DEF IdentityInit, NoVerdict
<1>5. signed \subseteq [key : 1..key, payload : Contents]
  BY <1>1, <1>2, <1>3
<1>6. conformVC = ConformVC(key)
  BY <1>1 DEF IdentityInit
<1>7. Signed
  <2>1. verdict.key \in 0..key
    BY <1>1, <1>4
  <2>2. verdict.verified \in BOOLEAN
    BY <1>4
  <2>3. QED
    BY <1>1, <1>5, <1>6, <2>1, <2>2, Zenon DEF Signed
<1>8. VerifiedWasSigned
  BY <1>4 DEF VerifiedWasSigned
<1>9. QED
  BY <1>7, <1>8 DEF IInv

LEMMA IssueKeeps ==
    ASSUME IInv, NEW p \in Publications, IssueDatasetCredential(p)
    PROVE  IInv'
<1>1. key \in Nat \ {0} /\ Claims(p) \in Contents
  BY DEF IInv, Signed, IssueDatasetCredential, Contents
<1>2. Sign(key, Claims(p)) \in [key : 1..key, payload : Contents]
  BY <1>1, SignType
<1>3. /\ signed' = signed \cup {Sign(key, Claims(p))}
      /\ key' = key /\ conformVC' = conformVC /\ verdict' = verdict
  BY DEF IssueDatasetCredential
<1>4. Signed'
  BY <1>2, <1>3 DEF IInv, Signed
<1>5. VerifiedWasSigned'
  BY <1>3 DEF IInv, VerifiedWasSigned
<1>6. QED
  BY <1>4, <1>5 DEF IInv

LEMMA VerifyKeeps ==
    ASSUME IInv, NEW content \in Contents, NEW proof \in signed \cup {NoProof},
           VerifyCredential(content, proof)
    PROVE  IInv'
<1> DEFINE cred == Credential(content, proof)
<1>1. /\ key' = key /\ signed' = signed /\ conformVC' = conformVC
      /\ verdict'.cred = cred
      /\ verdict'.key = key
      /\ verdict'.verified = Verify(cred, key)
  BY DEF VerifyCredential
<1>2. Verify(cred, key) \in BOOLEAN
  BY DEF Verify
<1>3. Signed'
  BY <1>1, <1>2 DEF IInv, Signed
<1>4. ASSUME Verify(cred, key)
      PROVE  Sign(key, content) \in signed
  <2>1. proof # NoProof /\ proof.key = key /\ proof.payload = content
    BY <1>4 DEF Verify, Credential
  <2>2. proof \in signed /\ proof \in [key : 1..key, payload : Contents]
    BY <2>1 DEF IInv, Signed
  <2>3. proof = Sign(key, content)
    BY <2>1, <2>2 DEF Sign
  <2>4. QED
    BY <2>2, <2>3
<1>5. cred.content = content
  BY DEF Credential
<1>6. VerifiedWasSigned'
  BY <1>1, <1>4, <1>5 DEF VerifiedWasSigned
<1>7. QED
  BY <1>3, <1>6 DEF IInv

LEMMA RestartKeeps ==
    ASSUME IInv, RestartIdentity
    PROVE  IInv'
<1>1. key' = key + 1 /\ key' \in 1..MaxKeys /\ verdict' = verdict
  BY IdentityAssumption DEF RestartIdentity, IInv, Signed
<1>2. conformVC' = ConformVC(key')
  BY DEF RestartIdentity
<1>3. signed' = signed \cup {Sign(key', Conformance)}
  BY <1>1, <1>2, ConformVCVerifies DEF RestartIdentity
<1>4. Sign(key', Conformance) \in [key : 1..key', payload : Contents]
  BY <1>1, SignType DEF Contents
<1>5. signed \subseteq [key : 1..key', payload : Contents]
  BY <1>1 DEF IInv, Signed
<1>6. Signed'
  BY <1>1, <1>2, <1>3, <1>4, <1>5 DEF IInv, Signed
<1>7. VerifiedWasSigned'
  BY <1>1, <1>3 DEF IInv, VerifiedWasSigned
<1>8. QED
  BY <1>6, <1>7 DEF IInv

LEMMA InvStep == IInv /\ [IdentityNext]_identityVars => IInv'
<1> SUFFICES ASSUME IInv, [IdentityNext]_identityVars
             PROVE  IInv'
  OBVIOUS
<1>1. ASSUME UNCHANGED identityVars
      PROVE  IInv'
  BY <1>1 DEF identityVars, IInv, Signed, VerifiedWasSigned
<1>2. ASSUME NEW p \in Publications, RejectPublication(p)
      PROVE  IInv'
  BY <1>1, <1>2 DEF RejectPublication
<1>3. QED
  BY <1>1, <1>2, IssueKeeps, VerifyKeeps, RestartKeeps DEF IdentityNext

LEMMA Invariance == IdentitySpec => []IInv
BY InvInit, InvStep, PTL DEF IdentitySpec

(* Every dataset credential the node ever signs attests to a DID, a DOI, a  *)
(* graph and an endpoint, whatever the request leaves out, and its own      *)
(* credential verifies under its own key after every restart.               *)
THEOREM CredentialsAttest == IdentitySpec => []IdentityTypeOK
<1>1. IInv => IdentityTypeOK
  <2> SUFFICES ASSUME IInv
               PROVE  IdentityTypeOK
    OBVIOUS
  <2>1. Verify(conformVC, key)
    BY ConformVCVerifies DEF IInv, Signed
  <2>2. \A s \in signed : s.key \in 1..key /\ Attests(s.payload)
    BY ContentsAttest DEF IInv, Signed
  <2>3. QED
    BY <2>1, <2>2 DEF IInv, Signed, IdentityTypeOK
<1>2. QED
  BY <1>1, Invariance, PTL

(* Tamper evidence: whatever content is presented over whatever proof, what *)
(* verifies is what the process had signed, as it signed it.                *)
THEOREM TamperEvident == IdentitySpec => []VerifiedWasSigned
<1>1. IInv => VerifiedWasSigned
  BY DEF IInv
<1>2. QED
  BY <1>1, Invariance, PTL
=============================================================================
