------------------------- MODULE PublicationProofs --------------------------
(***************************************************************************)
(* What holds across the data-service and the identity-service: a signed    *)
(* credential tells where its dataset is, for every set of datasets,        *)
(* publications and requests, and any number of restarts of either service. *)
(***************************************************************************)
EXTENDS Publication, DataServiceProofs

-----------------------------------------------------------------------------
(* Of each service by itself the composition is what that service is.       *)

(* Every dataset credential in circulation was made for a valid request.    *)
Published(s, p) == Identity!Valid(p) /\ s.payload = Identity!Claims(p)

CredentialsInv == \A s \in DatasetProofs : \E p \in Publications : Published(s, p)

LEMMA ConformanceIsNone ==
    ASSUME NEW k
    PROVE  LET proof == Identity!ConformVC(k).proof IN proof.payload.type # "dataset"
BY DEF Identity!ConformVC, Identity!Credential, Identity!Sign, Identity!Conformance

LEMMA CredentialsInit == PublicationInit => CredentialsInv
BY ConformanceIsNone
DEF PublicationInit, Identity!IdentityInit, CredentialsInv, DatasetProofs, Identity!ConformVC,
    Identity!Credential, Identity!Sign, Identity!Conformance

LEMMA SignedBy ==
    ASSUME NEW p \in Publications, Publish(p)
    PROVE  /\ Identity!Valid(p) /\ UNCHANGED vars
           /\ \A s \in signed' : s \in signed \/ s.payload = Identity!Claims(p)
BY DEF Publish, Identity!IssueDatasetCredential, Identity!Sign

LEMMA SignedAtRestart ==
    ASSUME Identity!RestartIdentity
    PROVE  \A s \in signed' : s.payload.type = "dataset" => s \in signed
BY ConformanceIsNone
DEF Identity!RestartIdentity, Identity!ConformVC, Identity!Credential, Identity!Sign,
    Identity!Conformance

LEMMA CredentialsStep ==
    CredentialsInv /\ [PublicationNext]_publicationVars => CredentialsInv'
<1> SUFFICES ASSUME CredentialsInv, [PublicationNext]_publicationVars
             PROVE  CredentialsInv'
  OBVIOUS
<1>1. ASSUME signed' = signed
      PROVE  CredentialsInv'
  BY <1>1 DEF CredentialsInv, DatasetProofs, Published
<1>2. ASSUME NEW p \in Publications, Publish(p)
      PROVE  CredentialsInv'
  BY <1>2, SignedBy DEF CredentialsInv, DatasetProofs, Published
<1>3. ASSUME Identity!RestartIdentity
      PROVE  CredentialsInv'
  BY <1>3, SignedAtRestart DEF CredentialsInv, DatasetProofs, Published
<1>4. QED
  BY <1>1, <1>2, <1>3 DEF PublicationNext, Follow, publicationVars, credentialVars

LEMMA FollowSends ==
    ASSUME CredentialsInv, NEW r \in Requests, NEW proof \in signed, Follow(r, proof)
    PROVE  Send(r)
<1>1. proof \in DatasetProofs
  BY DEF Follow, DatasetProofs
<1>2. PICK p \in Publications : Published(proof, p)
  BY <1>1 DEF CredentialsInv
<1>3. AccessCall(proof.payload.endpoint) \in Calls
  BY <1>2, PublicationAssumption DEF Published
<1>4. QED
  BY <1>3 DEF Follow, Send

LEMMA ServicesStep ==
    CredentialsInv /\ [PublicationNext]_publicationVars
        => [Next]_vars /\ [Identity!IdentityNext]_credentialVars
<1> SUFFICES ASSUME CredentialsInv, [PublicationNext]_publicationVars
             PROVE  [Next]_vars /\ [Identity!IdentityNext]_credentialVars
  OBVIOUS
<1>1. ASSUME NEW p \in Publications, Publish(p)
      PROVE  UNCHANGED vars /\ Identity!IdentityNext
  BY <1>1 DEF Publish, Identity!IdentityNext
<1>2. ASSUME NEW r \in Requests, NEW proof \in signed, Follow(r, proof)
      PROVE  Next /\ UNCHANGED credentialVars
  BY <1>2, FollowSends DEF Next, Follow
<1>3. ASSUME Identity!RestartIdentity, UNCHANGED vars
      PROVE  UNCHANGED vars /\ Identity!IdentityNext
  BY <1>3 DEF Identity!IdentityNext
<1>4. QED
  BY <1>1, <1>2, <1>3 DEF PublicationNext, publicationVars

(* The composition adds nothing to what each service may do: a reader who   *)
(* follows a credential is a client of the data-service, a publication a    *)
(* client of the identity-service, and a restart of one is no step of the   *)
(* other.                                                                   *)
THEOREM ServicesCompose == PublicationSpec => Spec /\ Identity!IdentitySpec
<1>1. PublicationInit => Init /\ Identity!IdentityInit
  BY DEF PublicationInit
<1>2. QED
  BY <1>1, CredentialsInit, CredentialsStep, ServicesStep, PTL
  DEF PublicationSpec, Spec, Identity!IdentitySpec, Identity!identityVars, credentialVars

-----------------------------------------------------------------------------
(* What a credential says of its dataset: its DID is one of FOXDEN's, for   *)
(* which all three derivations of the graph agree.                          *)

Says(s) ==
    /\ s.payload.did \in FoxdenDids
    /\ s.payload.graph = GraphIRI(s.payload.did)
    /\ s.payload.endpoint.did = s.payload.did

CredentialsTrue == \A s \in DatasetProofs : Says(s)

LEMMA ThirdDerivation ==
    ASSUME NEW did \in FoxdenDids
    PROVE  Identity!graphIRIFromDID(did) = GraphIRI(did)
<1>1. did \in Did /\ Len(did) > 1 /\ did[1].key = "beamline"
  BY DataServiceAssumption
<1>2. GraphIRIFromDID(did, [key |-> "", val |-> ""]) = GraphIRI(did)
  BY <1>1, DerivationsAgree
<1>3. ~ (Len(did) < 2)
  BY <1>1 DEF Did
<1>4. QED
  BY <1>2, <1>3 DEF GraphIRIFromDID, Identity!graphIRIFromDID

LEMMA ClaimsTrue ==
    ASSUME NEW p \in Publications, Identity!Valid(p), p.did \in FoxdenDids, NEW s,
           s.payload = Identity!Claims(p)
    PROVE  Says(s)
<1>1. /\ s.payload.did = p.did
      /\ s.payload.graph =
            IF p.graph = Missing THEN Identity!graphIRIFromDID(p.did) ELSE p.graph
      /\ s.payload.endpoint =
            IF p.endpoint = Missing THEN Identity!sparqlEndpointFromDID(p.did) ELSE p.endpoint
  BY DEF Identity!Claims
<1>2. /\ p.graph \in {Missing, GraphIRI(p.did)}
      /\ p.endpoint \in {Missing, Identity!sparqlEndpointFromDID(p.did)}
  BY PublicationAssumption
<1>3. s.payload.endpoint = Identity!sparqlEndpointFromDID(p.did)
  BY <1>1, <1>2
<1>4. s.payload.endpoint.did = p.did
  BY <1>3 DEF Identity!sparqlEndpointFromDID
<1>5. QED
  BY <1>1, <1>2, <1>4, ThirdDerivation DEF Says

PInv == SInv /\ TraceInv /\ CredentialsTrue

LEMMA CredentialsTrueStep ==
    CredentialsTrue /\ [PublicationNext]_publicationVars => CredentialsTrue'
<1> SUFFICES ASSUME CredentialsTrue, [PublicationNext]_publicationVars
             PROVE  CredentialsTrue'
  OBVIOUS
<1>1. ASSUME signed' = signed
      PROVE  CredentialsTrue'
  BY <1>1 DEF CredentialsTrue, DatasetProofs, Says
<1>2. ASSUME NEW p \in Publications, Publish(p)
      PROVE  CredentialsTrue'
  <2>1. p.did \in FoxdenDids
    BY <1>2 DEF Publish
  <2>2. ASSUME NEW s \in signed', s.payload = Identity!Claims(p)
        PROVE  Says(s)
    BY <1>2, <2>1, <2>2, SignedBy, ClaimsTrue
  <2>3. \A s \in signed' : s.payload.type = "dataset" => Says(s)
    BY <1>2, <2>2, SignedBy DEF CredentialsTrue, DatasetProofs
  <2>4. QED
    BY <2>3 DEF CredentialsTrue, DatasetProofs, Says
<1>3. ASSUME Identity!RestartIdentity
      PROVE  CredentialsTrue'
  BY <1>3, SignedAtRestart DEF CredentialsTrue, DatasetProofs, Says
<1>4. QED
  BY <1>1, <1>2, <1>3 DEF PublicationNext, Follow, publicationVars, credentialVars

LEMMA PublicationInvariance == PublicationSpec => []PInv
<1>1. PublicationInit => PInv /\ CredentialsInv
  <2> SUFFICES ASSUME PublicationInit
               PROVE  PInv /\ CredentialsInv
    OBVIOUS
  <2>1. SInv /\ TraceInv
    BY InvInit, ReadsInit, TraceInit DEF SInv, PublicationInit
  <2>2. CredentialsTrue
    BY ConformanceIsNone
    DEF PublicationInit, Identity!IdentityInit, CredentialsTrue, DatasetProofs
  <2>3. QED
    BY <2>1, <2>2, CredentialsInit DEF PInv
<1>2. PInv /\ CredentialsInv /\ [PublicationNext]_publicationVars => PInv' /\ CredentialsInv'
  BY CredentialsStep, ServicesStep, ReadsStep, TraceStep, CredentialsTrueStep
  DEF PInv
<1>3. QED
  BY <1>1, <1>2, PTL DEF PublicationSpec

-----------------------------------------------------------------------------
(* The graph that the identity-service signs, by a derivation of its own,   *)
(* holds what the data-service has acknowledged of the dataset, through any *)
(* number of restarts of either service.                                    *)
THEOREM SignedGraphIsRight == PublicationSpec => []SignedGraphHolds
<1>1. PInv => SignedGraphHolds
  <2> SUFFICES ASSUME PInv, NEW s \in DatasetProofs, NEW w \in Ingests(s.payload.did)
               PROVE  /\ s.payload.graph \in DOMAIN graphs
                      /\ req[w].payload \subseteq Stored(s.payload.graph)
    BY DEF SignedGraphHolds
  <2>1. w \in promised /\ w \in Requests /\ req[w].call.did = s.payload.did
    BY DEF Ingests, PInv, SInv, IInv, TypeInv, TypeOK
  <2>2. /\ req[w].todo = {}
        /\ \A t \in req[w].payload \ req[w].todo : t \in Stored(req[w].graph)
    BY <2>1 DEF PInv, SInv, IInv, WritesInv, WriteInv
  <2>3. req[w].graph = GraphIRI(req[w].call.did) /\ req[w].graph \in DOMAIN graphs
    BY <2>1, <2>2 DEF PInv, SInv, ReadsInv, TargetInv, AimsAt
  <2>4. s.payload.graph = req[w].graph
    BY <2>1, <2>3 DEF PInv, CredentialsTrue, Says
  <2>5. QED
    BY <2>2, <2>3, <2>4
<1>2. QED
  BY <1>1, PublicationInvariance, PTL

(* The two claims of a credential agree: a query at its URL that succeeds   *)
(* answers from the graph it names and from no other, with all that had     *)
(* been acknowledged of the dataset when the reader set out.                *)
THEOREM ClaimsAgree == PublicationSpec => []SignedClaimsAgree
<1>1. PInv => SignedClaimsAgree
  <2> SUFFICES ASSUME PInv, NEW r \in Requests, FoundBy(r, "dataset"), NEW s \in FollowedBy(r)
               PROVE  /\ \A h \in req[r].hits : h.graph = s.payload.graph
                      /\ \A w \in req[r].before \cap Ingests(s.payload.did) :
                            req[w].payload \subseteq {h.triple : h \in req[r].hits}
    BY DEF SignedClaimsAgree
  <2> DEFINE call == req[r].call
  <2>1. Says(s) /\ call = AccessCall(s.payload.endpoint)
    BY DEF PInv, CredentialsTrue, FollowedBy
  <2>2. /\ call.did = s.payload.did /\ call.op = "dataset"
        /\ \A f \in {"s", "p", "o"} : call.pattern[f] = Wildcard
    BY <2>1 DEF AccessCall, Says
  <2>3. ASSUME NEW h \in req[r].hits
        PROVE  h.graph = s.payload.graph
    <3>1. Covers(call, h.graph)
      BY DEF PInv, TraceInv, ReadTraced, HitTraced
    <3>2. QED
      BY <2>1, <2>2, <3>1 DEF Covers, Says
  <2>4. ASSUME NEW w \in req[r].before \cap Ingests(s.payload.did), NEW t \in req[w].payload
        PROVE  \E h \in req[r].hits : h.triple = t
    <3>1. req[w].call.did = call.did
      BY <2>2 DEF Ingests
    <3>2. InScope(call, req[w].call.did)
      BY <2>2, <3>1 DEF InScope
    <3>3. Uncut(r) /\ Matches(t, call.pattern)
      BY <2>2 DEF Uncut, Matches
    <3>4. SeesWrite(r, w, "dataset")
      BY <3>2, <3>3 DEF PInv, SInv, ReadsInv, Sees, Reads
    <3>5. QED
      BY <3>3, <3>4 DEF SeesWrite
  <2>5. QED
    BY <2>3, <2>4
<1>2. QED
  BY <1>1, PublicationInvariance, PTL
=============================================================================
