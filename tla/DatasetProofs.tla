--------------------------- MODULE DatasetProofs ----------------------------
(***************************************************************************)
(* What holds of DIDs and the graph IRIs derived from them: which DIDs      *)
(* share a graph, and that the two derivations agree; and what the          *)
(* validator of observations preserves: sets of triples whose observations  *)
(* are complete can be united.                                              *)
(***************************************************************************)
EXTENDS Shacl, TLAPS

LEMMA BeamlineSegmentType ==
    ASSUME NEW did \in Did
    PROVE  BeamlineSegment(did) \in Names
<1>1. CASE \E i \in DOMAIN did : IsFirstSegment(did, i) /\ did[i].key = "beamline"
  <2>1. (CHOOSE i \in DOMAIN did : IsFirstSegment(did, i)) \in DOMAIN did
    BY <1>1
  <2>2. \A i \in DOMAIN did : did[i].val \in Names
    <3>1. ASSUME NEW i \in DOMAIN did
          PROVE  did[i] \in Part
      BY DEF Did
    <3>2. QED
      BY <3>1 DEF Part
  <2>3. QED
    BY <1>1, <2>1, <2>2 DEF BeamlineSegment
<1>2. CASE ~ \E i \in DOMAIN did : IsFirstSegment(did, i) /\ did[i].key = "beamline"
  BY <1>2, NamesAssumption DEF BeamlineSegment
<1>3. QED
  BY <1>1, <1>2

LEMMA GraphIRIType ==
    ASSUME NEW did \in Did
    PROVE  GraphIRI(did) \in GraphName
<1>1. Lower[BeamlineSegment(did)] \in Names
  BY BeamlineSegmentType, NamesAssumption
<1>2. did \in Seq(Part) /\ Len(did) > 1 => Tail(did) \in Seq(Part)
  BY DEF Did
<1>3. QED
  BY <1>1, <1>2 DEF GraphIRI, GraphName, Did

LEMMA GraphIRIFromDIDType ==
    ASSUME NEW did \in Did, NEW uuid \in Part
    PROVE  GraphIRIFromDID(did, uuid) \in GraphName
<1>1. CASE Len(did) < 2
  <2>1. <<uuid>> \in Seq(Part)
    OBVIOUS
  <2>2. "unknown" \in Names
    BY NamesAssumption
  <2>3. QED
    BY <1>1, <2>1, <2>2 DEF GraphIRIFromDID, GraphName
<1>2. CASE ~ (Len(did) < 2)
  <2>1. did \in Seq(Part) /\ Len(did) \in Nat /\ did # <<>>
    BY DEF Did
  <2>2. did[1] \in Part /\ Tail(did) \in Seq(Part)
    BY <1>2, <2>1
  <2>3. did[1].val \in Names
    BY <2>2 DEF Part
  <2>4. Lower[did[1].val] \in Names
    BY <2>3, NamesAssumption
  <2>5. QED
    BY <1>2, <2>2, <2>4 DEF GraphIRIFromDID, GraphName
<1>3. QED
  BY <1>1, <1>2

(* The ingest and the dataset routes derive the same graph for every DID of *)
(* more than one part that starts with its beamline: GraphIRIFromDID and    *)
(* GraphIRIWithBase agree wherever a reference to the DID is valid, and in  *)
(* letter case beyond.                                                      *)
THEOREM DerivationsAgree ==
    ASSUME NEW did \in Did, NEW uuid, Len(did) > 1, did[1].key = "beamline"
    PROVE  GraphIRIFromDID(did, uuid) = GraphIRI(did)
<1>1. 1 \in DOMAIN did /\ IsFirstSegment(did, 1)
  BY DEF Did, IsFirstSegment
<1>2. ASSUME NEW i \in DOMAIN did, IsFirstSegment(did, i)
      PROVE  i = 1
  <2>1. i \in Nat /\ i >= 1
    BY DEF Did
  <2>2. ~ (1 \in 1..(i - 1))
    BY <1>2 DEF IsFirstSegment
  <2>3. QED
    BY <2>1, <2>2
<1>3. (CHOOSE i \in DOMAIN did : IsFirstSegment(did, i)) = 1
  BY <1>1, <1>2
<1>4. BeamlineSegment(did) = did[1].val
  BY <1>1, <1>3 DEF BeamlineSegment
<1>5. QED
  BY <1>4 DEF GraphIRI, GraphIRIFromDID, Did

-----------------------------------------------------------------------------
(* Two DIDs of one dataset have one graph.                                  *)

LEMMA CanonicalParts ==
    ASSUME NEW d \in Did, NEW e \in Did, Canonical(d) = Canonical(e)
    PROVE  /\ d \in Seq(Part) /\ e \in Seq(Part)
           /\ Len(d) = Len(e) /\ Len(d) \in Nat /\ Len(d) >= 1
           /\ DOMAIN d = 1..Len(d) /\ DOMAIN e = 1..Len(d)
           /\ d[1].key = e[1].key /\ Lower[d[1].val] = Lower[e[1].val]
           /\ \A i \in 2..Len(d) : d[i] = e[i]
<1>1. d \in Seq(Part) /\ e \in Seq(Part) /\ Len(d) >= 1 /\ Len(e) >= 1
  BY DEF Did
<1>2. d[1] \in Part /\ e[1] \in Part
  BY <1>1
<1> DEFINE c == [d EXCEPT ![1].val = Lower[@]]
           f == [e EXCEPT ![1].val = Lower[@]]
<1>3. c = f
  BY DEF Canonical
<1>4. DOMAIN c = DOMAIN d /\ DOMAIN f = DOMAIN e
  OBVIOUS
<1>5. 1 \in DOMAIN d /\ 1 \in DOMAIN e
  BY <1>1
<1>6. c[1] = [d[1] EXCEPT !.val = Lower[d[1].val]] /\ f[1] = [e[1] EXCEPT !.val = Lower[e[1].val]]
  BY <1>5
<1>7. \A i \in DOMAIN d \ {1} : c[i] = d[i]
  OBVIOUS
<1>8. \A i \in DOMAIN e \ {1} : f[i] = e[i]
  OBVIOUS
<1>9. /\ c[1].key = d[1].key /\ c[1].val = Lower[d[1].val]
      /\ f[1].key = e[1].key /\ f[1].val = Lower[e[1].val]
  BY <1>2, <1>6 DEF Part
<1> HIDE DEF c, f
<1>10. DOMAIN d = DOMAIN e
  BY <1>3, <1>4
<1>11. Len(d) = Len(e)
  BY <1>1, <1>10
<1>12. \A i \in 2..Len(d) : d[i] = e[i]
  BY <1>1, <1>3, <1>7, <1>8, <1>10
<1>13. QED
  BY <1>1, <1>3, <1>9, <1>11, <1>12

LEMMA CanonicalSegments ==
    ASSUME NEW d \in Did, NEW e \in Did, Canonical(d) = Canonical(e)
    PROVE  /\ \A i \in DOMAIN d : IsFirstSegment(d, i) <=> IsFirstSegment(e, i)
           /\ Lower[BeamlineSegment(d)] = Lower[BeamlineSegment(e)]
<1>1. /\ DOMAIN d = 1..Len(d) /\ DOMAIN e = 1..Len(d) /\ Len(d) \in Nat /\ Len(d) >= 1
      /\ d[1].key = e[1].key /\ Lower[d[1].val] = Lower[e[1].val]
      /\ \A i \in 2..Len(d) : d[i] = e[i]
  BY CanonicalParts
<1>2. \A i \in DOMAIN d : d[i].key = e[i].key /\ Lower[d[i].val] = Lower[e[i].val]
  <2>1. ASSUME NEW i \in DOMAIN d
        PROVE  d[i].key = e[i].key /\ Lower[d[i].val] = Lower[e[i].val]
    <3>1. i = 1 \/ i \in 2..Len(d)
      BY <1>1
    <3>2. QED
      BY <1>1, <3>1
  <2>2. QED
    BY <2>1
<1>3. \A i \in DOMAIN d : IsFirstSegment(d, i) <=> IsFirstSegment(e, i)
  <2>1. \A i \in DOMAIN d : \A j \in 1..(i - 1) : j \in DOMAIN d
    BY <1>1
  <2>2. QED
    BY <1>2, <2>1 DEF IsFirstSegment
<1>4. (CHOOSE i \in DOMAIN d : IsFirstSegment(d, i)) = (CHOOSE i \in DOMAIN e : IsFirstSegment(e, i))
  BY <1>1, <1>3
<1>5. CASE \E i \in DOMAIN d : IsFirstSegment(d, i) /\ d[i].key = "beamline"
  <2> DEFINE k == CHOOSE i \in DOMAIN d : IsFirstSegment(d, i)
  <2>1. k \in DOMAIN d
    BY <1>5
  <2>2. \E i \in DOMAIN e : IsFirstSegment(e, i) /\ e[i].key = "beamline"
    BY <1>1, <1>2, <1>3, <1>5
  <2>3. BeamlineSegment(d) = d[k].val
    BY <1>5 DEF BeamlineSegment
  <2>4. BeamlineSegment(e) = e[k].val
    BY <1>4, <2>2 DEF BeamlineSegment
  <2>5. QED
    BY <1>2, <1>3, <2>1, <2>3, <2>4
<1>6. CASE ~ \E i \in DOMAIN d : IsFirstSegment(d, i) /\ d[i].key = "beamline"
  <2>1. ~ \E i \in DOMAIN e : IsFirstSegment(e, i) /\ e[i].key = "beamline"
    BY <1>1, <1>2, <1>3, <1>6
  <2>2. QED
    BY <1>3, <1>6, <2>1 DEF BeamlineSegment
<1>7. QED
  BY <1>3, <1>5, <1>6

(* A DID of one part is in lower case where a dataset route accepts it.     *)
LEMMA OneGraph ==
    ASSUME NEW d \in Did, NEW e \in Did, Canonical(d) = Canonical(e),
           \/ Len(d) > 1
           \/ BeamlineSegment(d) \in ValidNames /\ BeamlineSegment(e) \in ValidNames
    PROVE  GraphIRI(d) = GraphIRI(e)
<1>1. /\ d \in Seq(Part) /\ e \in Seq(Part) /\ Len(d) = Len(e)
      /\ Len(d) \in Nat /\ Len(d) >= 1
      /\ DOMAIN d = 1..Len(d) /\ DOMAIN e = 1..Len(d)
      /\ d[1].key = e[1].key /\ \A i \in 2..Len(d) : d[i] = e[i]
  BY CanonicalParts
<1>2. Lower[BeamlineSegment(d)] = Lower[BeamlineSegment(e)]
  BY CanonicalSegments
<1>3. CASE Len(d) > 1
  <2>1. Tail(d) = Tail(e)
    <3>1. Tail(d) \in Seq(Part) /\ Tail(e) \in Seq(Part)
      BY <1>1, <1>3
    <3>2. Len(Tail(d)) = Len(d) - 1 /\ Len(Tail(e)) = Len(d) - 1
      BY <1>1, <1>3
    <3>3. \A i \in 1..(Len(d) - 1) : Tail(d)[i] = d[i + 1] /\ Tail(e)[i] = e[i + 1]
      BY <1>1, <1>3
    <3>4. \A i \in 1..(Len(d) - 1) : Tail(d)[i] = Tail(e)[i]
      BY <1>1, <3>3
    <3>5. QED
      BY <3>1, <3>2, <3>4
  <2>2. QED
    BY <1>1, <1>2, <1>3, <2>1 DEF GraphIRI
<1>4. CASE ~ (Len(d) > 1)
  <2>1. Len(d) = 1 /\ DOMAIN d = {1} /\ DOMAIN e = {1}
    BY <1>1, <1>4
  <2>2. BeamlineSegment(d) = d[1].val /\ BeamlineSegment(e) = e[1].val
    <3>1. ASSUME NEW c \in {d, e}
          PROVE  BeamlineSegment(c) = c[1].val
      <4>1. BeamlineSegment(c) # "" /\ DOMAIN c = {1}
        BY <1>4, <2>1, NamesAssumption
      <4>2. QED
        BY <4>1 DEF BeamlineSegment
    <3>2. QED
      BY <3>1
  <2>3. d[1].val = e[1].val
    BY <1>2, <1>4, <2>2, NamesAssumption
  <2>4. d[1] \in Part /\ e[1] \in Part
    BY <1>1
  <2>5. d[1] = e[1]
    BY <1>1, <2>3, <2>4 DEF Part
  <2>6. d = e
    BY <1>1, <2>1, <2>5
  <2>7. QED
    BY <2>6
<1>5. QED
  BY <1>3, <1>4

(* The canonical form of a DID: more than a beamline, and that first        *)
(* (model.go).  DIDs of other forms may share a graph: Segments() skips     *)
(* what has no key, GraphIRIWithBase() cuts at the first "/" all the same.  *)
CanonicalForm(did) == Len(did) > 1 /\ did[1].key = "beamline"

LEMMA OneDataset ==
    ASSUME NEW d \in Did, NEW e \in Did, CanonicalForm(d), CanonicalForm(e),
           GraphIRI(d) = GraphIRI(e)
    PROVE  Canonical(d) = Canonical(e)
<1>1. /\ d \in Seq(Part) /\ e \in Seq(Part) /\ Len(d) \in Nat /\ Len(e) \in Nat
      /\ Len(d) > 1 /\ Len(e) > 1
  BY DEF Did, CanonicalForm
<1>2. /\ Lower[d[1].val] = Lower[e[1].val] /\ Tail(d) = Tail(e)
  <2>1. /\ GraphIRI(d) = [bl |-> Lower[d[1].val], path |-> Tail(d)]
        /\ GraphIRI(e) = [bl |-> Lower[e[1].val], path |-> Tail(e)]
    BY <1>1, DerivationsAgree DEF CanonicalForm, GraphIRIFromDID
  <2>2. /\ GraphIRI(d).bl = Lower[d[1].val] /\ GraphIRI(d).path = Tail(d)
        /\ GraphIRI(e).bl = Lower[e[1].val] /\ GraphIRI(e).path = Tail(e)
    <3>1. \A a, b, c : c = [bl |-> a, path |-> b] => c.bl = a /\ c.path = b
      OBVIOUS
    <3>2. QED
      BY ONLY <2>1, <3>1
  <2>3. QED
    BY <2>2
<1>3. Len(d) = Len(e)
  <2>1. Len(Tail(d)) = Len(d) - 1 /\ Len(Tail(e)) = Len(e) - 1
    BY <1>1
  <2>2. QED
    BY <1>1, <1>2, <2>1
<1>4. ASSUME NEW i \in 2..Len(d)
      PROVE  d[i] = e[i]
  <2>1. Tail(d)[i - 1] = d[i] /\ Tail(e)[i - 1] = e[i]
    BY <1>1, <1>3
  <2>2. QED
    BY <1>2, <2>1
<1>5. d[1] \in Part /\ e[1] \in Part
  BY <1>1
<1>6. [d[1] EXCEPT !.val = Lower[d[1].val]] = [e[1] EXCEPT !.val = Lower[e[1].val]]
  BY <1>2, <1>5 DEF Part, CanonicalForm
<1>7. DOMAIN d = 1..Len(d) /\ DOMAIN e = 1..Len(d)
  BY <1>1, <1>3
<1>8. /\ Canonical(d) = [i \in 1..Len(d) |->
            IF i = 1 THEN [d[1] EXCEPT !.val = Lower[d[1].val]] ELSE d[i]]
      /\ Canonical(e) = [i \in 1..Len(d) |->
            IF i = 1 THEN [e[1] EXCEPT !.val = Lower[e[1].val]] ELSE e[i]]
  BY <1>1, <1>7 DEF Canonical
<1>9. \A i \in 1..Len(d) : i # 1 => d[i] = e[i]
  BY <1>1, <1>4
<1>10. QED
  BY <1>6, <1>8, <1>9

-----------------------------------------------------------------------------
Complete(ts) == \A s \in Observations(ts) : HasRequiredProperties(ts, s)

LEMMA CompleteUnion ==
    ASSUME NEW ts, NEW us, Complete(ts), Complete(us)
    PROVE  Complete(ts \cup us)
<1>1. ASSUME NEW s, NEW p
      PROVE  /\ Values(ts, s, p) \subseteq Values(ts \cup us, s, p)
             /\ Values(us, s, p) \subseteq Values(ts \cup us, s, p)
  BY DEF Values
<1>2. Observations(ts \cup us) = Observations(ts) \cup Observations(us)
  BY DEF Observations
<1>3. ASSUME NEW s \in Observations(ts)
      PROVE  HasRequiredProperties(ts \cup us, s)
  <2>1. HasRequiredProperties(ts, s)
    BY DEF Complete
  <2>2. QED
    BY <1>1, <2>1 DEF HasRequiredProperties
<1>4. ASSUME NEW s \in Observations(us)
      PROVE  HasRequiredProperties(ts \cup us, s)
  <2>1. HasRequiredProperties(us, s)
    BY DEF Complete
  <2>2. QED
    BY <1>1, <2>1 DEF HasRequiredProperties
<1>5. QED
  BY <1>2, <1>3, <1>4 DEF Complete
=============================================================================
