--------------------------- MODULE RdfMappingProofs ---------------------------
(***************************************************************************)
(* What holds of the mapping for every list of schema files, every record   *)
(* and every table of predicates, in whatever order the maps are visited.   *)
(***************************************************************************)
EXTENDS RdfMapping, TLAPS

-----------------------------------------------------------------------------
(* The inductive invariant.  While the files are loaded, the tables hold    *)
(* the first declarations of the entries passed so far; while a record is   *)
(* mapped, the triples are those it begins with and what the fields visited *)
(* so far yield, an object once for every predicate.                        *)

Passed(e) == Earlier(e, at)
IsFirst(e) ==
    /\ Entry(e).key \notin StaticSkip
    /\ \A d \in Entries : Entry(d).key = Entry(e).key => ~Earlier(d, e)
Declared(e) == [kind |-> TableOf(Entry(e)), type |-> Entry(e).type]

LoadInv ==
    /\ files \in FileLists
    /\ at \in (Nat \ {0}) \X (Nat \ {0})
    /\ \A k \in DOMAIN fm :
          \E e \in Entries : Passed(e) /\ IsFirst(e) /\ Entry(e).key = k /\ fm[k] = Declared(e)
    /\ \A e \in Entries : Passed(e) /\ Entry(e).key \notin StaticSkip => Entry(e).key \in DOMAIN fm
    /\ stage # 0 => at[1] \notin DOMAIN files

YieldOf(s, k) == About(Table(Kinds[s])[k], Objects(Kinds[s], k))
Begun == About("rdf:type", {[o |-> "Dataset", type |-> "uri"]})
         \cup About("identifier", {[o |-> "did", type |-> "literal"]})
Visited(s) ==
    IF s < stage THEN FieldsOf(s) ELSE IF s = stage THEN FieldsOf(s) \ left ELSE {}
Links == About("crystallographicPhase", {[o |-> PhaseIRI[i], type |-> "uri"] : i \in Phases})
PhasesSaid == UNION {PhaseTriples(i) : i \in Phases}

SaidIn(t, ts) == \E u \in ts \cap (Begun \cup Yield) : u.p = t.p /\ u.o = t.o

MapInv ==
    /\ stage \in {0, Failed} => triples = {} /\ left = {}
    /\ stage \in 1..Mapped =>
          /\ Begun \subseteq triples
          /\ \A s \in DOMAIN Kinds : \A k \in Visited(s) : \A t \in YieldOf(s, k) : SaidIn(t, triples)
    /\ stage \in 1..5 => triples \subseteq Begun \cup Yield
    /\ stage = Mapped =>
          /\ triples \subseteq Begun \cup Yield \cup Links \cup NestedLiterals \cup PhasesSaid
          /\ PhasesSaid \subseteq triples

IInv ==
    /\ record \in Records
    /\ stage \in 0..Failed
    /\ left \subseteq FieldsOf(stage)
    /\ LoadInv
    /\ MapInv

-----------------------------------------------------------------------------
(* The operators.                                                           *)

LEMMA KindsAre ==
    /\ DOMAIN Kinds = 1..4
    /\ Kinds[1] = "Scalar" /\ Kinds[2] = "Bool" /\ Kinds[3] = "Array" /\ Kinds[4] = "NumericArray"
BY DEF Kinds

LEMMA TableIsAKind ==
    ASSUME NEW f
    PROVE  \E s \in DOMAIN Kinds : TableOf(f) = Kinds[s]
<1>1. TableOf(f) \in {"Scalar", "Bool", "Array", "NumericArray"}
  BY DEF TableOf
<1>2. QED
  BY <1>1, KindsAre

LEMMA ElementOf ==
    ASSUME NEW S, NEW list \in Seq(S)
    PROVE  /\ Len(list) \in Nat /\ DOMAIN list = 1..Len(list)
           /\ \A i \in DOMAIN list : list[i] \in S
OBVIOUS

LEMMA AboutFields ==
    ASSUME NEW p, NEW objects, NEW t \in About(p, objects)
    PROVE  /\ t.s = "dataset" /\ t.p = p
           /\ \E x \in objects : t.o = x.o /\ t.type = x.type
BY DEF About

LEMMA AboutHas ==
    ASSUME NEW p, NEW objects, NEW x \in objects
    PROVE  \E t \in About(p, objects) : t.p = p /\ t.o = x.o
<1> DEFINE t == [s |-> "dataset", p |-> p, o |-> x.o, type |-> x.type]
<1>1. t \in About(p, objects)
  BY DEF About
<1>2. t.p = p /\ t.o = x.o
  OBVIOUS
<1>3. QED
  BY <1>1, <1>2

(* What add() keeps: nothing is lost, and what it leaves out is there.      *)
LEMMA AddFacts ==
    ASSUME NEW ts, NEW new
    PROVE  /\ ts \subseteq Add(ts, new) /\ Add(ts, new) \subseteq ts \cup new
           /\ \A t \in new : \E u \in Add(ts, new) : u.s = t.s /\ u.p = t.p /\ u.o = t.o
BY DEF Add

DataTypes == {"literal", "integer", "decimal", "boolean", "dateTime"}

LEMMA NumberType ==
    ASSUME NEW k, NEW a
    PROVE  Number(k, a).type \in DataTypes /\ Number(k, a).o \in {a.int, a.text}
BY DEF Number, DataTypes

LEMMA ScalarObjectsAre ==
    ASSUME NEW k, NEW a
    PROVE  ScalarObjects(k, a) =
             IF k = "date" /\ a.kind \in {"string", "number"} /\ a.text \in DOMAIN Iso
             THEN {[o |-> Iso[a.text], type |-> "dateTime"]}
             ELSE IF a.kind = "string"
             THEN {[o |-> a.text, type |-> "literal"]} \ {[o |-> "", type |-> "literal"]}
             ELSE IF a.kind = "number" THEN {Number(k, a)}
             ELSE IF a.kind = "bool" THEN {[o |-> a.text, type |-> "boolean"]}
             ELSE {}
BY DEF ScalarObjects

LEMMA ScalarTypes ==
    ASSUME NEW k, NEW a, NEW x \in ScalarObjects(k, a)
    PROVE  x.type \in DataTypes
<1>1. \/ x = [o |-> Iso[a.text], type |-> "dateTime"]
      \/ x = [o |-> a.text, type |-> "literal"]
      \/ x = Number(k, a)
      \/ x = [o |-> a.text, type |-> "boolean"]
  BY ScalarObjectsAre
<1>2. QED
  BY <1>1, NumberType DEF DataTypes

LEMMA ObjectsAre ==
    ASSUME NEW kind, NEW k
    PROVE  LET v == record.fields[k] IN
           Objects(kind, k) =
             IF kind = "Scalar" /\ ~v.list THEN ScalarObjects(k, v.elems[1])
             ELSE IF kind = "Bool" /\ ~v.list
             THEN {[o |-> a.text, type |-> "boolean"] : a \in Elements(v, "bool")}
             ELSE IF kind = "Array" /\ v.list
             THEN {[o |-> a.text, type |-> "literal"] :
                      a \in {e \in Elements(v, "string") : e.text # ""}}
             ELSE IF kind = "NumericArray" /\ v.list
             THEN {Number(k, a) : a \in Elements(v, "number")}
             ELSE {}
BY DEF Objects

LEMMA ObjectTypes ==
    ASSUME NEW kind, NEW k, NEW x \in Objects(kind, k)
    PROVE  x.type \in DataTypes
<1> DEFINE v == record.fields[k]
<1> HIDE DEF v
<1>1. \/ x \in ScalarObjects(k, v.elems[1])
      \/ \E a \in Elements(v, "bool") : x = [o |-> a.text, type |-> "boolean"]
      \/ \E a \in Elements(v, "string") : x = [o |-> a.text, type |-> "literal"]
      \/ \E a \in Elements(v, "number") : x = Number(k, a)
  BY ObjectsAre DEF v
<1>2. QED
  BY <1>1, NumberType, ScalarTypes DEF DataTypes

LEMMA TablePredicates ==
    ASSUME DOMAIN fm \subseteq Field, NEW kind, NEW k \in DOMAIN Table(kind)
    PROVE  /\ Table(kind)[k] \notin {"rdf:type", "identifier"}
           /\ Table(kind)[k] = IF k \in DOMAIN Static(kind) THEN Static(kind)[k] ELSE CamelCase[k]
<1>1. Table(kind)[k] = IF k \in DOMAIN Static(kind) THEN Static(kind)[k] ELSE CamelCase[k]
  BY DEF Table
<1>2. CASE k \in DOMAIN Static(kind)
  <2>1. Static(kind) \in {StaticScalar, StaticBool, StaticArray, [x \in {} |-> ""]}
    BY DEF Static
  <2>2. Static(kind) # [x \in {} |-> ""]
    BY <1>2
  <2>3. QED
    BY <1>1, <1>2, <2>1, <2>2, RdfMappingAssumption
<1>3. CASE k \notin DOMAIN Static(kind)
  <2>1. k \in DOMAIN fm
    BY <1>3 DEF Table
  <2>2. QED
    BY <1>1, <1>3, <2>1, RdfMappingAssumption
<1>4. QED
  BY <1>2, <1>3

-----------------------------------------------------------------------------
(* Loading the files.                                                       *)

LEMMA FileFacts ==
    ASSUME files \in FileLists
    PROVE  /\ \E n \in Nat : DOMAIN files = 1..n
           /\ \A i \in DOMAIN files : files[i] # Unreadable =>
                 /\ files[i] \in Seq(Declaration)
                 /\ Len(files[i]) \in Nat /\ Len(files[i]) <= MaxEntries
                 /\ DOMAIN files[i] = 1..Len(files[i])
<1> DEFINE S == {Unreadable} \cup Seq(Declaration)
<1>1. /\ files \in Seq(S)
      /\ \A i \in DOMAIN files : files[i] # Unreadable => Len(files[i]) <= MaxEntries
  BY RdfMappingAssumption
<1> HIDE DEF S
<1>2. /\ Len(files) \in Nat /\ DOMAIN files = 1..Len(files)
      /\ \A i \in DOMAIN files : files[i] \in S
  BY <1>1, ElementOf
<1>3. \A i \in DOMAIN files : files[i] # Unreadable => files[i] \in Seq(Declaration)
  BY <1>2 DEF S
<1>4. QED
  BY <1>1, <1>2, <1>3, ElementOf

LEMMA EntryFacts ==
    ASSUME files \in FileLists, NEW e \in Entries
    PROVE  /\ e[1] \in Nat \ {0} /\ e[2] \in Nat \ {0}
           /\ e = <<e[1], e[2]>>
           /\ e[1] \in DOMAIN files /\ files[e[1]] # Unreadable /\ e[2] \in DOMAIN files[e[1]]
           /\ e[2] <= Len(files[e[1]])
           /\ Entry(e) \in Declaration
<1>1. /\ e \in (DOMAIN files) \X (1..MaxEntries)
      /\ files[e[1]] # Unreadable /\ e[2] \in DOMAIN files[e[1]]
  BY DEF Entries
<1>2. e = <<e[1], e[2]>> /\ e[1] \in DOMAIN files
  BY <1>1
<1>3. PICK n \in Nat : DOMAIN files = 1..n
  BY FileFacts
<1>4. /\ files[e[1]] \in Seq(Declaration) /\ Len(files[e[1]]) \in Nat
      /\ DOMAIN files[e[1]] = 1..Len(files[e[1]])
  BY <1>1, <1>2, FileFacts
<1>5. Entry(e) \in Declaration
  BY <1>1, <1>4, ElementOf DEF Entry
<1>6. e[1] \in Nat \ {0} /\ e[2] \in Nat \ {0} /\ e[2] <= Len(files[e[1]])
  BY <1>1, <1>2, <1>3, <1>4
<1>7. QED
  BY <1>1, <1>2, <1>5, <1>6

LEMMA AnEntry ==
    ASSUME files \in FileLists, NEW i \in DOMAIN files, files[i] # Unreadable,
           NEW j \in DOMAIN files[i]
    PROVE  <<i, j>> \in Entries
<1>1. Len(files[i]) \in Nat /\ Len(files[i]) <= MaxEntries /\ DOMAIN files[i] = 1..Len(files[i])
  BY FileFacts
<1>2. j \in 1..MaxEntries
  BY <1>1, RdfMappingAssumption
<1>3. QED
  BY <1>2 DEF Entries

(* The entries are in one order.                                            *)
LEMMA EntriesOrdered ==
    ASSUME files \in FileLists, NEW d \in Entries, NEW e \in Entries
    PROVE  d = e \/ Earlier(d, e) \/ Earlier(e, d)
<1>1. /\ d[1] \in Nat /\ d[2] \in Nat /\ e[1] \in Nat /\ e[2] \in Nat
      /\ d = <<d[1], d[2]>> /\ e = <<e[1], e[2]>>
  BY EntryFacts
<1>2. CASE d[1] = e[1] /\ d[2] = e[2]
  BY <1>1, <1>2
<1>3. CASE ~(d[1] = e[1] /\ d[2] = e[2])
  BY <1>1, <1>3 DEF Earlier
<1>4. QED
  BY <1>2, <1>3

LEMMA FirstUnique ==
    ASSUME files \in FileLists, NEW d \in Entries, NEW e \in Entries,
           IsFirst(d), IsFirst(e), Entry(d).key = Entry(e).key
    PROVE  d = e
BY EntriesOrdered DEF IsFirst

LEMMA EarlierTransitive ==
    ASSUME files \in FileLists, NEW d \in Entries, NEW e \in Entries,
           NEW p \in Nat \X Nat, Earlier(d, e), Earlier(e, p)
    PROVE  Earlier(d, p)
<1>1. d[1] \in Nat /\ d[2] \in Nat /\ e[1] \in Nat /\ e[2] \in Nat /\ p[1] \in Nat /\ p[2] \in Nat
  BY EntryFacts
<1>2. QED
  BY <1>1 DEF Earlier

LEMMA KeysTyped ==
    ASSUME LoadInv
    PROVE  /\ DOMAIN fm \subseteq Field \ StaticSkip
           /\ \A k \in DOMAIN fm : fm[k].type \in Types /\ \E s \in DOMAIN Kinds : fm[k].kind = Kinds[s]
<1> SUFFICES ASSUME NEW k \in DOMAIN fm
             PROVE  /\ k \in Field \ StaticSkip
                    /\ fm[k].type \in Types /\ \E s \in DOMAIN Kinds : fm[k].kind = Kinds[s]
  OBVIOUS
<1>1. PICK e \in Entries : IsFirst(e) /\ Entry(e).key = k /\ fm[k] = Declared(e)
  BY DEF LoadInv
<1>2. Entry(e) \in Declaration
  BY EntryFacts DEF LoadInv
<1>3. QED
  BY <1>1, <1>2, TableIsAKind DEF IsFirst, Declared, Declaration

LEMMA FilesKept ==
    ASSUME UNCHANGED files
    PROVE  /\ Entries' = Entries
           /\ \A e : Entry(e)' = Entry(e) /\ IsFirst(e)' = IsFirst(e) /\ Declared(e)' = Declared(e)
<1>1. Entries' = Entries
  BY DEF Entries
<1>2. \A e : Entry(e)' = Entry(e)
  BY DEF Entry
<1>3. \A e : IsFirst(e)' = IsFirst(e)
  BY <1>1, <1>2 DEF IsFirst
<1>4. \A e : Declared(e)' = Declared(e)
  BY <1>2 DEF Declared
<1>5. QED
  BY <1>1, <1>2, <1>3, <1>4

LEMMA LoadKept ==
    ASSUME LoadInv, UNCHANGED <<files, at, fm>>, stage' # 0 => at[1] \notin DOMAIN files
    PROVE  LoadInv'
<1>1. /\ Entries' = Entries
      /\ \A e : Entry(e)' = Entry(e) /\ IsFirst(e)' = IsFirst(e) /\ Declared(e)' = Declared(e)
  BY FilesKept
<1>2. \A e : Passed(e)' = Passed(e)
  BY DEF Passed, Earlier
<1>3. QED
  BY <1>1, <1>2 DEF LoadInv

(* Registering an entry makes it one of those passed.                       *)
LEMMA LoadFieldLoads ==
    ASSUME LoadInv, LoadField
    PROVE  LoadInv'
<1>1. /\ files \in FileLists /\ at[1] \in Nat \ {0} /\ at[2] \in Nat \ {0}
      /\ at = <<at[1], at[2]>>
  BY DEF LoadInv
<1>2. /\ stage = 0 /\ stage' = stage /\ UNCHANGED files
      /\ at[1] \in DOMAIN files /\ files[at[1]] # Unreadable /\ at[2] \in DOMAIN files[at[1]]
      /\ fm' = Register(fm, Entry(at))
      /\ at' = [at EXCEPT ![2] = @ + 1]
  BY DEF LoadField, Loading, Entry
<1>3. PICK x \in Entries : x = at
  <2>1. at \in Entries
    BY <1>1, <1>2, AnEntry
  <2>2. QED
    BY <2>1
<1>4. at' = <<at[1], at[2] + 1>>
  BY <1>1, <1>2
<1>5. /\ Entries' = Entries
      /\ \A e : Entry(e)' = Entry(e) /\ IsFirst(e)' = IsFirst(e) /\ Declared(e)' = Declared(e)
  BY <1>2, FilesKept
<1>6. ASSUME NEW e \in Entries PROVE Passed(e)' <=> Passed(e) \/ e = x
  <2>1. e[1] \in Nat /\ e[2] \in Nat /\ e = <<e[1], e[2]>>
    BY <1>1, EntryFacts
  <2>2. Passed(e)' <=> e[1] < at[1] \/ (e[1] = at[1] /\ e[2] < at[2] + 1)
    BY <1>4 DEF Passed, Earlier
  <2>3. e = x <=> e[1] = at[1] /\ e[2] = at[2]
    BY <1>1, <1>3, <2>1
  <2>4. QED
    BY <1>1, <2>1, <2>2, <2>3 DEF Passed, Earlier
<1>7. /\ \A k \in DOMAIN fm :
            \E e \in Entries : Passed(e) /\ IsFirst(e) /\ Entry(e).key = k /\ fm[k] = Declared(e)
      /\ \A e \in Entries : Passed(e) /\ Entry(e).key \notin StaticSkip => Entry(e).key \in DOMAIN fm
  BY DEF LoadInv
<1> DEFINE f == Entry(x)
<1>8. /\ \A k \in DOMAIN fm' :
            \E e \in Entries : Passed(e)' /\ IsFirst(e) /\ Entry(e).key = k /\ fm'[k] = Declared(e)
      /\ \A e \in Entries : Passed(e)' /\ Entry(e).key \notin StaticSkip => Entry(e).key \in DOMAIN fm'
  <2>1. CASE f.key \in StaticSkip \/ f.key \in DOMAIN fm
    <3>1. fm' = fm
      BY <1>2, <1>3, <2>1 DEF Register
    <3>2. QED
      BY <1>6, <1>7, <2>1, <3>1
  <2>2. CASE ~(f.key \in StaticSkip \/ f.key \in DOMAIN fm)
    <3>1. fm' = [k \in DOMAIN fm \cup {f.key} |->
                    IF k = f.key THEN Declared(x) ELSE fm[k]]
      BY <1>2, <1>3, <2>2 DEF Register, Declared
    <3>2. IsFirst(x)
      <4>1. ASSUME NEW d \in Entries, Entry(d).key = f.key, Earlier(d, x)
            PROVE  FALSE
        BY <1>3, <1>7, <2>2, <4>1 DEF Passed
      <4>2. QED
        BY <2>2, <4>1 DEF IsFirst
    <3> HIDE DEF f
    <3>3. DOMAIN fm' = DOMAIN fm \cup {f.key} /\ fm'[f.key] = Declared(x)
      BY <3>1
    <3>4. \A k \in DOMAIN fm : fm'[k] = fm[k]
      BY <2>2, <3>1
    <3>5. Passed(x)' /\ Entry(x).key = f.key
      BY <1>3, <1>6 DEF f
    <3>6. \A k \in DOMAIN fm :
            \E e \in Entries : Passed(e)' /\ IsFirst(e) /\ Entry(e).key = k /\ fm'[k] = Declared(e)
      BY <1>6, <1>7, <3>4
    <3>7. \A k \in DOMAIN fm' :
            \E e \in Entries : Passed(e)' /\ IsFirst(e) /\ Entry(e).key = k /\ fm'[k] = Declared(e)
      BY <3>2, <3>3, <3>5, <3>6
    <3>8. \A e \in Entries : Passed(e)' /\ Entry(e).key \notin StaticSkip => Entry(e).key \in DOMAIN fm'
      BY <1>6, <1>7, <3>3, <3>5
    <3>9. QED
      BY <3>7, <3>8
  <2>3. QED
    BY <2>1, <2>2
<1>9. at' \in (Nat \ {0}) \X (Nat \ {0})
  BY <1>1, <1>4
<1>10. files' \in FileLists /\ stage' = 0
  BY <1>1, <1>2
<1>11. QED
  BY <1>5, <1>8, <1>9, <1>10 DEF LoadInv

(* At the end of a file all its entries are passed.                         *)
LEMMA NextFileLoads ==
    ASSUME LoadInv, NextFile
    PROVE  LoadInv'
<1>1. /\ files \in FileLists /\ at[1] \in Nat \ {0} /\ at[2] \in Nat \ {0}
  BY DEF LoadInv
<1>2. /\ stage = 0 /\ stage' = stage /\ UNCHANGED <<files, fm>>
      /\ at[1] \in DOMAIN files
      /\ files[at[1]] # Unreadable => at[2] \notin DOMAIN files[at[1]]
      /\ at' = <<at[1] + 1, 1>>
  BY DEF NextFile, Loading
<1>3. /\ Entries' = Entries
      /\ \A e : Entry(e)' = Entry(e) /\ IsFirst(e)' = IsFirst(e) /\ Declared(e)' = Declared(e)
  BY <1>2, FilesKept
<1>4. ASSUME NEW e \in Entries PROVE Passed(e)' = Passed(e)
  <2>1. /\ e[1] \in Nat /\ e[2] \in Nat \ {0} /\ e[1] \in DOMAIN files
        /\ files[e[1]] # Unreadable /\ e[2] \in DOMAIN files[e[1]]
    BY <1>1, EntryFacts
  <2>2. Passed(e)' <=> e[1] < at[1] + 1 \/ (e[1] = at[1] + 1 /\ e[2] < 1)
    BY <1>2 DEF Passed, Earlier
  <2>3. e[1] = at[1] => e[2] < at[2]
    <3>1. SUFFICES ASSUME e[1] = at[1] PROVE e[2] < at[2]
      OBVIOUS
    <3>2. Len(files[at[1]]) \in Nat /\ DOMAIN files[at[1]] = 1..Len(files[at[1]])
      BY <1>1, <1>2, <2>1, <3>1, FileFacts
    <3>3. QED
      BY <1>1, <1>2, <2>1, <3>1, <3>2
  <2>4. QED
    BY <1>1, <2>1, <2>2, <2>3 DEF Passed, Earlier
<1>5. at' \in (Nat \ {0}) \X (Nat \ {0})
  BY <1>1, <1>2
<1>6. QED
  BY <1>1, <1>2, <1>3, <1>4, <1>5 DEF LoadInv

(* When the files are loaded, every entry is passed.                        *)
LEMMA AllPassed ==
    ASSUME LoadInv, at[1] \notin DOMAIN files, NEW e \in Entries
    PROVE  Passed(e)
<1>1. /\ files \in FileLists /\ at[1] \in Nat \ {0}
  BY DEF LoadInv
<1>2. PICK n \in Nat : DOMAIN files = 1..n
  BY <1>1, FileFacts
<1>3. e[1] \in Nat /\ e[1] \in DOMAIN files
  BY <1>1, EntryFacts
<1>4. e[1] < at[1]
  BY <1>1, <1>2, <1>3
<1>5. QED
  BY <1>4 DEF Passed, Earlier

-----------------------------------------------------------------------------
(* Mapping the record.                                                      *)

(* What a record yields depends on the tables and the record alone.         *)
LEMMA FieldsKept ==
    ASSUME UNCHANGED <<fm, record>>
    PROVE  /\ \A s : FieldsOf(s)' = FieldsOf(s)
           /\ \A s, k : YieldOf(s, k)' = YieldOf(s, k)
           /\ Yield' = Yield
           /\ NestedLiterals' = NestedLiterals
           /\ Links' = Links /\ PhasesSaid' = PhasesSaid
<1>1. \A kind : Table(kind)' = Table(kind)
  BY DEF Table, Static
<1>2. \A kind, k : Objects(kind, k)' = Objects(kind, k)
  BY DEF Objects, ScalarObjects, Number, IsInteger
<1>3. \A s : FieldsOf(s)' = FieldsOf(s)
  BY <1>1 DEF FieldsOf
<1>4. \A s, k : YieldOf(s, k)' = YieldOf(s, k)
  BY <1>1, <1>2 DEF YieldOf
<1>5. Yield' = Yield
  BY <1>3, <1>4 DEF Yield, YieldOf
<1>6. Phases' = Phases
  BY DEF Phases
<1>7. NestedLiterals' = NestedLiterals
  BY DEF NestedLiterals
<1>8. Links' = Links
  BY <1>6 DEF Links
<1>9. \A i : PhaseTriples(i)' = PhaseTriples(i)
  BY DEF PhaseTriples
<1>10. PhasesSaid' = PhasesSaid
  BY <1>6, <1>9 DEF PhasesSaid
<1>11. QED
  BY <1>3, <1>4, <1>5, <1>7, <1>8, <1>10

LEMMA YieldHas ==
    /\ \A t \in Yield : \E s \in DOMAIN Kinds : \E k \in FieldsOf(s) : t \in YieldOf(s, k)
    /\ \A s \in DOMAIN Kinds : \A k \in FieldsOf(s) : YieldOf(s, k) \subseteq Yield
BY DEF Yield, YieldOf

LEMMA FieldIn ==
    ASSUME NEW s \in DOMAIN Kinds, NEW k
    PROVE  k \in FieldsOf(s) <=> k \in DOMAIN Table(Kinds[s]) /\ k \in DOMAIN record.fields
BY DEF FieldsOf

LEMMA YieldFacts ==
    ASSUME LoadInv, NEW t \in Yield
    PROVE  /\ t.s = "dataset" /\ t.p \notin {"rdf:type", "identifier"}
           /\ t.type \in DataTypes
<1>1. PICK s \in DOMAIN Kinds : \E k \in FieldsOf(s) : t \in YieldOf(s, k)
  BY YieldHas
<1> PICK k \in FieldsOf(s) : t \in YieldOf(s, k)
  BY <1>1
<1> DEFINE p == Table(Kinds[s])[k]
           objects == Objects(Kinds[s], k)
<1>2. p \notin {"rdf:type", "identifier"}
  BY FieldIn, KeysTyped, TablePredicates
<1>3. t \in About(p, objects)
  BY DEF YieldOf
<1>4. \A x \in objects : x.type \in DataTypes
  BY ObjectTypes
<1> HIDE DEF p, objects
<1>5. QED
  BY <1>2, <1>3, <1>4, AboutFields

LEMMA BegunFacts ==
    /\ \A t \in Begun : /\ t.s = "dataset" /\ t.p \in {"rdf:type", "identifier"}
                        /\ t.type \in {"uri", "literal"}
                        /\ t.p = "rdf:type" => t.o = "Dataset"
    /\ \E t \in Begun : t.s = "dataset" /\ t.p = "rdf:type" /\ t.o = "Dataset"
<1> DEFINE typed == [s |-> "dataset", p |-> "rdf:type", o |-> "Dataset", type |-> "uri"]
           named == [s |-> "dataset", p |-> "identifier", o |-> "did", type |-> "literal"]
<1>1. Begun = {typed, named}
  BY DEF Begun, About
<1>2. /\ typed.s = "dataset" /\ typed.p = "rdf:type" /\ typed.o = "Dataset" /\ typed.type = "uri"
      /\ named.s = "dataset" /\ named.p = "identifier" /\ named.type = "literal"
  OBVIOUS
<1> HIDE DEF typed, named
<1>3. QED
  BY <1>1, <1>2

LEMMA LinksFacts ==
    ASSUME NEW t \in Links
    PROVE  t.s = "dataset" /\ t.p = "crystallographicPhase" /\ t.type = "uri"
BY DEF Links, About

LEMMA NestedFacts ==
    ASSUME record \in Records, NEW t \in NestedLiterals
    PROVE  t.s = "dataset" /\ t.p # "rdf:type" /\ t.type \in {"decimal", "integer"}
<1>1. CASE \E i \in DOMAIN record.cell : \E text :
              t \in About(CellPredicates[i], {[o |-> text, type |-> "decimal"]})
  <2>1. PICK i \in DOMAIN record.cell :
            \E text : t \in About(CellPredicates[i], {[o |-> text, type |-> "decimal"]})
    BY <1>1
  <2>2. CellPredicates[i] # "rdf:type"
    BY RdfMappingAssumption
  <2>3. QED
    BY <2>1, <2>2 DEF About
<1>2. CASE \E texts : t \in About("sampleSpaceGroup", {[o |-> x, type |-> "integer"] : x \in texts})
  BY <1>2 DEF About
<1>3. \/ \E i \in DOMAIN record.cell : \E text :
            t \in About(CellPredicates[i], {[o |-> text, type |-> "decimal"]})
      \/ \E texts : t \in About("sampleSpaceGroup", {[o |-> x, type |-> "integer"] : x \in texts})
  <2> DEFINE cell == {i \in DOMAIN record.cell : record.cell[i].kind = "number"}
             groups == {i \in DOMAIN record.groups : record.groups[i].kind = "number"}
             texts == {record.groups[i].int : i \in groups}
  <2>1. {[o |-> record.groups[i].int, type |-> "integer"] : i \in groups}
        = {[o |-> x, type |-> "integer"] : x \in texts}
    OBVIOUS
  <2>2. \/ \E i \in cell : t \in About(CellPredicates[i], {[o |-> record.cell[i].text, type |-> "decimal"]})
        \/ t \in About("sampleSpaceGroup", {[o |-> record.groups[i].int, type |-> "integer"] : i \in groups})
    BY DEF NestedLiterals
  <2>3. QED
    BY <2>1, <2>2
<1>4. QED
  BY <1>1, <1>2, <1>3

LEMMA PhaseFacts ==
    ASSUME record \in Records, NEW i \in Phases
    PROVE  /\ PhaseIRI[i] # "dataset"
           /\ \A t \in PhaseTriples(i) :
                 /\ t.s = PhaseIRI[i] /\ t.type \in {"uri", "literal", "integer"}
                 /\ t.p = "rdf:type" => t.o = "CrystallographicPhase"
           /\ \E t \in PhaseTriples(i) :
                 t.s = PhaseIRI[i] /\ t.p = "rdf:type" /\ t.o = "CrystallographicPhase"
<1>1. i \in DOMAIN PhaseIRI
  BY RdfMappingAssumption DEF Phases
<1>2. PhaseIRI[i] # "dataset"
  BY <1>1, RdfMappingAssumption
<1>3. ASSUME NEW t \in PhaseTriples(i)
      PROVE  /\ t.s = PhaseIRI[i] /\ t.type \in {"uri", "literal", "integer"}
             /\ t.p = "rdf:type" => t.o = "CrystallographicPhase"
  BY <1>3 DEF PhaseTriples, AboutPhase
<1> DEFINE typed == [s |-> PhaseIRI[i], p |-> "rdf:type", o |-> "CrystallographicPhase", type |-> "uri"]
<1>4. typed \in PhaseTriples(i)
  BY DEF PhaseTriples, AboutPhase
<1>5. typed.s = PhaseIRI[i] /\ typed.p = "rdf:type" /\ typed.o = "CrystallographicPhase"
  OBVIOUS
<1> HIDE DEF typed
<1>6. QED
  BY <1>2, <1>3, <1>4, <1>5

-----------------------------------------------------------------------------
(* The invariant is inductive.                                              *)

LEMMA InvInit == Init => IInv
<1> SUFFICES ASSUME Init PROVE IInv
  OBVIOUS
<1>1. /\ files \in FileLists /\ at = <<1, 1>> /\ DOMAIN fm = {} /\ record \in Records
      /\ stage = 0 /\ left = {} /\ triples = {}
  BY DEF Init
<1>2. \A e \in Entries : ~Passed(e)
  <2> SUFFICES ASSUME NEW e \in Entries PROVE ~Passed(e)
    OBVIOUS
  <2>1. e[1] \in Nat \ {0} /\ e[2] \in Nat \ {0}
    BY <1>1, EntryFacts
  <2>2. QED
    BY <1>1, <2>1 DEF Passed, Earlier
<1>3. LoadInv
  BY <1>1, <1>2 DEF LoadInv
<1>4. MapInv
  BY <1>1 DEF MapInv, Mapped
<1>5. QED
  BY <1>1, <1>3, <1>4 DEF IInv, Failed

LEMMA LoadStep ==
    ASSUME IInv, LoadField \/ NextFile
    PROVE  IInv'
<1>1. LoadInv'
  BY LoadFieldLoads, NextFileLoads DEF IInv
<1>2. stage = 0 /\ UNCHANGED <<record, stage, left, triples>>
  BY DEF LoadField, NextFile, Loading
<1>3. triples = {} /\ left = {}
  BY <1>2 DEF IInv, MapInv
<1>4. MapInv'
  BY <1>2, <1>3 DEF MapInv, Mapped, Failed
<1>5. QED
  BY <1>1, <1>2, <1>3, <1>4 DEF IInv

LEMMA FailStep ==
    ASSUME IInv, MappingFails
    PROVE  IInv'
<1>1. /\ stage = 0 /\ at[1] \notin DOMAIN files /\ stage' = Failed
      /\ UNCHANGED <<files, at, fm, record, left, triples>>
  BY DEF MappingFails, Loaded
<1>2. LoadInv'
  BY <1>1, LoadKept DEF IInv
<1>3. triples = {} /\ left = {}
  BY <1>1 DEF IInv, MapInv
<1>4. MapInv'
  BY <1>1, <1>3 DEF MapInv, Mapped, Failed
<1>5. QED
  BY <1>1, <1>2, <1>3, <1>4 DEF IInv, Failed

LEMMA BeginStep ==
    ASSUME IInv, MappingBegins
    PROVE  IInv'
<1>1. /\ stage = 0 /\ at[1] \notin DOMAIN files /\ stage' = 1
      /\ left' = FieldsOf(1) /\ triples' = Begun
      /\ UNCHANGED <<files, at, fm, record>>
  BY DEF MappingBegins, Loaded, Begun
<1>2. LoadInv'
  BY <1>1, LoadKept DEF IInv
<1>3. Begun' = Begun /\ FieldsOf(1)' = FieldsOf(1)
  BY <1>1, FieldsKept DEF Begun
<1>4. \A s \in DOMAIN Kinds : Visited(s)' = {}
  BY <1>1, <1>3, KindsAre DEF Visited
<1>5. MapInv'
  BY <1>1, <1>3, <1>4 DEF MapInv, Mapped, Failed
<1>6. QED
  BY <1>1, <1>2, <1>3, <1>5 DEF IInv, Failed

LEMMA SaidGrows ==
    ASSUME NEW t, NEW ts, NEW more, ts \subseteq more, SaidIn(t, ts)
    PROVE  SaidIn(t, more)
BY DEF SaidIn

LEMMA VisitStep ==
    ASSUME IInv, NEW k \in left, Visit(k)
    PROVE  IInv'
<1> DEFINE new == YieldOf(stage, k)
<1>1. /\ stage \in DOMAIN Kinds /\ stage' = stage
      /\ triples' = Add(triples, new) /\ left' = left \ {k}
      /\ UNCHANGED <<files, at, fm, record>>
  BY DEF Visit, YieldOf
<1>2. LoadInv' /\ LoadInv
  <2>1. LoadInv /\ (stage # 0 => at[1] \notin DOMAIN files)
    BY DEF IInv, LoadInv
  <2>2. QED
    BY <1>1, <2>1, LoadKept
<1>3. stage \in 1..4
  BY <1>1, KindsAre
<1>4. /\ \A s : FieldsOf(s)' = FieldsOf(s)
      /\ \A s, x : YieldOf(s, x)' = YieldOf(s, x)
      /\ Yield' = Yield /\ Begun' = Begun
  BY <1>1, FieldsKept DEF Begun
<1>5. /\ left \subseteq FieldsOf(stage) /\ Begun \subseteq triples /\ triples \subseteq Begun \cup Yield
      /\ \A s \in DOMAIN Kinds : \A x \in Visited(s) : \A t \in YieldOf(s, x) : SaidIn(t, triples)
  BY <1>3 DEF IInv, MapInv, Mapped
<1>6. new \subseteq Yield
  BY <1>1, <1>5, YieldHas
<1> HIDE DEF new
<1>7. /\ triples \subseteq triples' /\ triples' \subseteq triples \cup new
      /\ \A t \in new : \E u \in triples' : u.s = t.s /\ u.p = t.p /\ u.o = t.o
  BY <1>1, AddFacts
<1>8. triples' \subseteq Begun \cup Yield
  BY <1>5, <1>6, <1>7
<1>9. \A t \in new : SaidIn(t, triples')
  BY <1>7, <1>8 DEF SaidIn
<1>10. \A s \in DOMAIN Kinds : Visited(s)' \subseteq Visited(s) \cup (IF s = stage THEN {k} ELSE {})
  BY <1>1, <1>4 DEF Visited
<1>11. ASSUME NEW s \in DOMAIN Kinds, NEW x \in Visited(s)', NEW t \in YieldOf(s, x)
       PROVE  SaidIn(t, triples')
  <2>1. CASE x \in Visited(s)
    BY <1>5, <1>7, <2>1, SaidGrows
  <2>2. CASE x \notin Visited(s)
    <3>1. s = stage /\ x = k
      BY <1>10, <2>2
    <3>2. QED
      BY <1>9, <3>1 DEF new
  <2>3. QED
    BY <2>1, <2>2
<1>12. \A t, ts : SaidIn(t, ts)' <=> SaidIn(t, ts')
  BY <1>4 DEF SaidIn
<1>13. MapInv'
  <2>1. \A s \in DOMAIN Kinds : \A x \in Visited(s)' : \A t \in YieldOf(s, x)' : SaidIn(t, triples)'
    BY <1>4, <1>11 DEF SaidIn
  <2>2. stage' \in 1..4
    BY <1>1, <1>3
  <2>3. QED
    BY <1>4, <1>5, <1>7, <1>8, <2>1, <2>2 DEF MapInv, Mapped, Failed
<1>14. left' \subseteq FieldsOf(stage)'
  BY <1>1, <1>4, <1>5
<1>15. QED
  BY <1>1, <1>2, <1>13, <1>14 DEF IInv

LEMMA NextLoopStep ==
    ASSUME IInv, NextLoop
    PROVE  IInv'
<1>1. /\ stage \in DOMAIN Kinds /\ stage' = stage + 1
      /\ left = {} /\ left' = FieldsOf(stage + 1)
      /\ UNCHANGED <<files, at, fm, record, triples>>
  BY DEF NextLoop
<1>2. LoadInv'
  <2>1. LoadInv /\ (stage # 0 => at[1] \notin DOMAIN files) /\ stage # 0
    BY <1>1, KindsAre DEF IInv, LoadInv
  <2>2. QED
    BY <1>1, <2>1, LoadKept
<1>3. stage \in 1..4 /\ stage' \in 2..5
  BY <1>1, KindsAre
<1>4. /\ \A s : FieldsOf(s)' = FieldsOf(s)
      /\ \A s, x : YieldOf(s, x)' = YieldOf(s, x)
      /\ Yield' = Yield /\ Begun' = Begun
  BY <1>1, FieldsKept DEF Begun
<1>5. /\ Begun \subseteq triples /\ triples \subseteq Begun \cup Yield
      /\ \A s \in DOMAIN Kinds : \A x \in Visited(s) : \A t \in YieldOf(s, x) : SaidIn(t, triples)
  BY <1>3 DEF IInv, MapInv, Mapped
<1>6. left' = FieldsOf(stage)'
  <2>1. FieldsOf(stage)' = FieldsOf(stage + 1)
    BY <1>1, <1>4
  <2>2. QED
    BY <1>1, <2>1
<1>7. ASSUME NEW s \in DOMAIN Kinds PROVE Visited(s)' = Visited(s)
  <2>1. s \in 1..4
    BY KindsAre
  <2>2. CASE s < stage
    BY <1>1, <1>3, <1>4, <2>1, <2>2 DEF Visited
  <2>3. CASE s = stage
    BY <1>1, <1>3, <1>4, <2>1, <2>3 DEF Visited
  <2>4. CASE s = stage + 1
    BY <1>1, <1>3, <1>4, <2>1, <2>4 DEF Visited
  <2>5. CASE s > stage + 1
    BY <1>1, <1>3, <1>4, <2>1, <2>5 DEF Visited
  <2>6. QED
    BY <1>3, <2>1, <2>2, <2>3, <2>4, <2>5
<1>8. \A s \in DOMAIN Kinds : \A x \in Visited(s)' : \A t \in YieldOf(s, x)' : SaidIn(t, triples)'
  BY <1>1, <1>4, <1>5, <1>7 DEF SaidIn
<1>9. MapInv'
  BY <1>1, <1>3, <1>4, <1>5, <1>8 DEF MapInv, Mapped, Failed
<1>10. stage' \in 0..Failed
  BY <1>3 DEF Failed
<1>11. QED
  BY <1>1, <1>2, <1>6, <1>9, <1>10 DEF IInv

LEMMA NestedStep ==
    ASSUME IInv, NestedFields
    PROVE  IInv'
<1> DEFINE new == Links \cup NestedLiterals
<1>1. /\ stage = 5 /\ stage' = 6
      /\ triples' = Add(triples, new) \cup PhasesSaid
      /\ UNCHANGED <<files, at, fm, record, left>>
  BY DEF NestedFields, Links, PhasesSaid, Mapped
<1>2. LoadInv'
  <2>1. LoadInv /\ (stage # 0 => at[1] \notin DOMAIN files)
    BY DEF IInv, LoadInv
  <2>2. QED
    BY <1>1, <2>1, LoadKept
<1>3. /\ \A s : FieldsOf(s)' = FieldsOf(s)
      /\ \A s, x : YieldOf(s, x)' = YieldOf(s, x)
      /\ Yield' = Yield /\ Begun' = Begun /\ Links' = Links
      /\ NestedLiterals' = NestedLiterals /\ PhasesSaid' = PhasesSaid
  BY <1>1, FieldsKept DEF Begun
<1>4. /\ Begun \subseteq triples /\ triples \subseteq Begun \cup Yield
      /\ \A s \in DOMAIN Kinds : \A x \in Visited(s) : \A t \in YieldOf(s, x) : SaidIn(t, triples)
  BY <1>1 DEF IInv, MapInv, Mapped
<1>5. /\ triples \subseteq triples' /\ PhasesSaid \subseteq triples'
      /\ triples' \subseteq triples \cup new \cup PhasesSaid
  BY <1>1, AddFacts
<1>6. \A s \in DOMAIN Kinds : Visited(s)' = Visited(s)
  BY <1>1, <1>3, KindsAre DEF Visited
<1> HIDE DEF new
<1>7. \A s \in DOMAIN Kinds : \A x \in Visited(s)' : \A t \in YieldOf(s, x)' : SaidIn(t, triples)'
  BY <1>3, <1>4, <1>5, <1>6 DEF SaidIn
<1>8. MapInv'
  <2>1. triples' \subseteq Begun \cup Yield \cup Links \cup NestedLiterals \cup PhasesSaid
    BY <1>4, <1>5 DEF new
  <2>2. Begun \subseteq triples'
    BY <1>4, <1>5
  <2>3. stage' = 6
    BY <1>1
  <2>4. QED
    BY <1>3, <1>5, <1>7, <2>1, <2>2, <2>3 DEF MapInv, Mapped, Failed
<1>9. FieldsOf(stage) = {} /\ left \subseteq FieldsOf(stage)
  BY <1>1, KindsAre DEF FieldsOf, IInv
<1>10. QED
  BY <1>1, <1>2, <1>8, <1>9 DEF IInv, Failed

LEMMA InvNext ==
    ASSUME IInv, [Next]_vars
    PROVE  IInv'
<1>1. CASE UNCHANGED vars
  <2>1. UNCHANGED <<files, at, fm, record, stage, left, triples>>
    BY <1>1 DEF vars
  <2>2. LoadInv'
    <3>1. LoadInv /\ (stage # 0 => at[1] \notin DOMAIN files)
      BY DEF IInv, LoadInv
    <3>2. QED
      BY <2>1, <3>1, LoadKept
  <2>3. /\ \A s : FieldsOf(s)' = FieldsOf(s)
        /\ \A s, x : YieldOf(s, x)' = YieldOf(s, x)
        /\ Yield' = Yield /\ Begun' = Begun /\ Links' = Links
        /\ NestedLiterals' = NestedLiterals /\ PhasesSaid' = PhasesSaid
    BY <2>1, FieldsKept DEF Begun
  <2>4. \A s : Visited(s)' = Visited(s)
    BY <2>1, <2>3 DEF Visited
  <2>5. \A t : SaidIn(t, triples)' = SaidIn(t, triples)
    BY <2>1, <2>3 DEF SaidIn
  <2>6. MapInv'
    BY <2>1, <2>3, <2>4, <2>5 DEF IInv, MapInv
  <2>7. QED
    BY <2>1, <2>2, <2>3, <2>6 DEF IInv
<1>2. QED
  BY <1>1, LoadStep, FailStep, BeginStep, VisitStep, NextLoopStep, NestedStep DEF Next

LEMMA Invariance == Spec => []IInv
<1>1. Init => IInv
  BY InvInit
<1>2. IInv /\ [Next]_vars => IInv'
  BY InvNext
<1>3. QED
  BY <1>1, <1>2, PTL DEF Spec

-----------------------------------------------------------------------------
(* What the invariant says of a mapping that is under way or finished.      *)

LEMMA TriplesFrom ==
    ASSUME IInv, NEW t \in triples
    PROVE  \/ t \in Begun \/ t \in Yield \/ t \in Links \/ t \in NestedLiterals
           \/ stage = Mapped /\ \E i \in Phases : t \in PhaseTriples(i)
<1>1. stage \in 0..7 /\ stage # 0 /\ stage # 7
  BY DEF IInv, MapInv, Failed
<1>2. CASE stage = Mapped
  <2>1. t \in Begun \cup Yield \cup Links \cup NestedLiterals \cup PhasesSaid
    BY <1>2 DEF IInv, MapInv
  <2>2. QED
    BY <1>2, <2>1 DEF PhasesSaid
<1>3. CASE stage # Mapped
  <2>1. stage \in 1..5
    BY <1>1, <1>3 DEF Mapped
  <2>2. QED
    BY <2>1 DEF IInv, MapInv
<1>4. QED
  BY <1>2, <1>3

LEMMA BegunIn ==
    ASSUME IInv, triples # {}
    PROVE  Begun \subseteq triples
<1>1. stage \in 0..7 /\ stage # 0 /\ stage # 7
  BY DEF IInv, MapInv, Failed
<1>2. stage \in 1..6
  BY <1>1
<1>3. QED
  BY <1>2 DEF IInv, MapInv, Mapped

LEMMA FinishedSays ==
    ASSUME IInv, stage = Mapped, NEW t \in Yield
    PROVE  SaidIn(t, triples)
<1>1. PICK s \in DOMAIN Kinds : \E k \in FieldsOf(s) : t \in YieldOf(s, k)
  BY YieldHas
<1> PICK k \in FieldsOf(s) : t \in YieldOf(s, k)
  BY <1>1
<1>2. Visited(s) = FieldsOf(s)
  BY KindsAre DEF Visited, Mapped
<1>3. QED
  BY <1>2 DEF IInv, MapInv, Mapped

LEMMA FirstDeclarationsAre ==
    /\ \A f \in FirstDeclarations : \E e \in Entries : IsFirst(e) /\ f = Entry(e)
    /\ \A e \in Entries : IsFirst(e) => Entry(e) \in FirstDeclarations
BY DEF FirstDeclarations, IsFirst

(* The tables hold the first declaration of every key, and no other.        *)
LEMMA TablesHold ==
    ASSUME IInv, stage # 0
    PROVE  /\ \A k \in DOMAIN fm : \E f \in FirstDeclarations : f.key = k
           /\ \A f \in FirstDeclarations :
                 f.key \in DOMAIN fm /\ fm[f.key].kind = TableOf(f) /\ fm[f.key].type = f.type
<1>1. LoadInv /\ at[1] \notin DOMAIN files /\ files \in FileLists
  BY DEF IInv, LoadInv
<1>2. ASSUME NEW k \in DOMAIN fm PROVE \E f \in FirstDeclarations : f.key = k
  BY <1>1, FirstDeclarationsAre DEF LoadInv
<1>3. ASSUME NEW f \in FirstDeclarations
      PROVE  f.key \in DOMAIN fm /\ fm[f.key].kind = TableOf(f) /\ fm[f.key].type = f.type
  <2>1. PICK e \in Entries : IsFirst(e) /\ f = Entry(e)
    BY FirstDeclarationsAre
  <2>2. f.key \in DOMAIN fm
    BY <1>1, <2>1, AllPassed DEF LoadInv, IsFirst
  <2>3. PICK d \in Entries : IsFirst(d) /\ Entry(d).key = f.key /\ fm[f.key] = Declared(d)
    BY <1>1, <2>2 DEF LoadInv
  <2>4. d = e
    BY <1>1, <2>1, <2>3, FirstUnique
  <2>5. fm[f.key] = [kind |-> TableOf(f), type |-> f.type]
    BY <2>1, <2>3, <2>4 DEF Declared
  <2>6. QED
    BY <2>2, <2>5
<1>4. QED
  BY <1>2, <1>3

-----------------------------------------------------------------------------
(* The theorems.                                                            *)

(* Every state is of its type: the tables are of known keys, kinds and      *)
(* types, a loop has only its own fields left, and every triple has an      *)
(* object of a known datatype.                                              *)
THEOREM TypeCorrect == Spec => []TypeOK
<1>1. ASSUME IInv PROVE TypeOK
  <2>1. /\ DOMAIN fm \subseteq Field \ StaticSkip
        /\ \A k \in DOMAIN fm : fm[k].type \in Types /\ \E s \in DOMAIN Kinds : fm[k].kind = Kinds[s]
    BY <1>1, KeysTyped DEF IInv
  <2>2. record \in Records /\ stage \in 0..Failed /\ left \subseteq FieldsOf(stage)
    BY <1>1 DEF IInv
  <2>3. ASSUME NEW t \in triples
        PROVE  t.type \in {"uri", "literal", "integer", "decimal", "boolean", "dateTime"}
    BY <1>1, TriplesFrom, BegunFacts, YieldFacts, LinksFacts, NestedFacts, PhaseFacts
       DEF IInv, DataTypes
  <2>4. QED
    BY <2>1, <2>2, <2>3 DEF TypeOK
<1>2. QED
  BY <1>1, Invariance, PTL

(* The first declaration of a key counts, in the order of the files and of  *)
(* their entries, and a file that cannot be loaded costs no other file's.   *)
THEOREM FirstDeclarationsWin == Spec => []FirstDeclarationWins
<1>1. ASSUME IInv, stage # 0
      PROVE  /\ DOMAIN fm = {f.key : f \in FirstDeclarations}
             /\ \A f \in FirstDeclarations : fm[f.key].type = f.type
  <2>1. /\ \A k \in DOMAIN fm : \E f \in FirstDeclarations : f.key = k
        /\ \A f \in FirstDeclarations :
              f.key \in DOMAIN fm /\ fm[f.key].kind = TableOf(f) /\ fm[f.key].type = f.type
    BY <1>1, TablesHold
  <2>2. DOMAIN fm = {f.key : f \in FirstDeclarations}
    BY <2>1
  <2>3. \A f \in FirstDeclarations : fm[f.key].type = f.type
    BY <2>1
  <2>4. QED
    BY <2>2, <2>3
<1>2. IInv => FirstDeclarationWins
  BY <1>1 DEF FirstDeclarationWins
<1>3. QED
  BY <1>2, Invariance, PTL

(* A finished mapping says what the fields yield one by one, and nothing    *)
(* else of them, in whatever order Go visits the maps; only the datatype of *)
(* an object that two fields give one predicate is left to the order.       *)
THEOREM OrderIsIrrelevant == Spec => []VisitOrderIrrelevant
<1>1. ASSUME IInv, stage = Mapped
      PROVE  /\ {Statement(t) : t \in Yield} \subseteq {Statement(t) : t \in triples}
             /\ AboutRecord \subseteq Yield
             /\ \A t \in Yield :
                   (\A u \in Yield : Statement(u) = Statement(t) => u = t) => t \in triples
  <2>1. ASSUME NEW t \in Yield
        PROVE  \E u \in triples \cap (Begun \cup Yield) : Statement(u) = Statement(t)
    BY <1>1, <2>1, FinishedSays DEF SaidIn, Statement
  <2>2. {Statement(t) : t \in Yield} \subseteq {Statement(t) : t \in triples}
    BY <2>1
  <2>3. ASSUME NEW t \in AboutRecord PROVE t \in Yield
    <3>1. /\ t \in triples /\ t.s = "dataset" /\ t \notin NestedLiterals
          /\ t.p \notin {"rdf:type", "identifier", "crystallographicPhase"}
      BY DEF AboutRecord
    <3>2. t \notin Begun /\ t \notin Links
      BY <3>1, BegunFacts, LinksFacts
    <3>3. \A i \in Phases : t \notin PhaseTriples(i)
      BY <1>1, <3>1, PhaseFacts DEF IInv
    <3>4. QED
      BY <1>1, <3>1, <3>2, <3>3, TriplesFrom
  <2>4. ASSUME NEW t \in Yield, \A u \in Yield : Statement(u) = Statement(t) => u = t
        PROVE  t \in triples
    <3>1. PICK u \in triples \cap (Begun \cup Yield) : Statement(u) = Statement(t)
      BY <2>1
    <3>2. u.p = t.p
      BY <3>1 DEF Statement
    <3>3. u \notin Begun
      BY <1>1, <3>2, BegunFacts, YieldFacts DEF IInv
    <3>4. QED
      BY <2>4, <3>1, <3>3
  <2>5. QED
    BY <2>2, <2>3, <2>4
<1>2. IInv => VisitOrderIrrelevant
  BY <1>1 DEF VisitOrderIrrelevant
<1>3. QED
  BY <1>2, Invariance, PTL

(* An ingest gives every subject it describes one type: the dataset is a    *)
(* Dataset and a phase is a CrystallographicPhase, and nothing is an        *)
(* observation.                                                             *)
THEOREM SubjectsAreTyped == Spec => []EverySubjectTyped
<1>1. ASSUME IInv, NEW t \in triples
      PROVE  TypesOf(t.s) = {IF t.s = "dataset" THEN "Dataset" ELSE "CrystallographicPhase"}
  <2>1. ASSUME NEW u \in triples, u.p = "rdf:type"
        PROVE  \/ u.s = "dataset" /\ u.o = "Dataset"
               \/ u.s # "dataset" /\ u.o = "CrystallographicPhase"
    BY <1>1, <2>1, TriplesFrom, BegunFacts, YieldFacts, LinksFacts, NestedFacts, PhaseFacts DEF IInv
  <2>2. \E u \in triples :
          /\ u.s = t.s /\ u.p = "rdf:type"
          /\ u.o = IF t.s = "dataset" THEN "Dataset" ELSE "CrystallographicPhase"
    <3>1. CASE t.s = "dataset"
      BY <1>1, <3>1, BegunIn, BegunFacts
    <3>2. CASE t.s # "dataset"
      <4>1. stage = Mapped /\ \E i \in Phases : t \in PhaseTriples(i)
        BY <1>1, <3>2, TriplesFrom, BegunFacts, YieldFacts, LinksFacts, NestedFacts DEF IInv
      <4>2. PICK i \in Phases : t \in PhaseTriples(i)
        BY <4>1
      <4>3. PhaseTriples(i) \subseteq triples
        BY <1>1, <4>1 DEF IInv, MapInv, PhasesSaid
      <4>4. QED
        BY <1>1, <3>2, <4>2, <4>3, PhaseFacts DEF IInv
    <3>3. QED
      BY <3>1, <3>2
  <2>3. QED
    BY <2>1, <2>2 DEF TypesOf
<1>2. IInv => EverySubjectTyped
  BY <1>1 DEF EverySubjectTyped
<1>3. QED
  BY <1>2, Invariance, PTL

LEMMA FirstDeclarationTyped ==
    ASSUME IInv, NEW f \in FirstDeclarations
    PROVE  f \in Declaration /\ f.type \in Types /\ f.multiple \in BOOLEAN
<1>1. PICK e \in Entries : f = Entry(e)
  BY FirstDeclarationsAre
<1>2. Entry(e) \in Declaration
  BY EntryFacts DEF IInv, LoadInv
<1>3. QED
  BY <1>1, <1>2 DEF Declaration

LEMMA TableOfIs ==
    ASSUME NEW f
    PROVE  TableOf(f) =
             IF f.type = "bool" THEN "Bool"
             ELSE IF f.type \in Numeric /\ f.multiple THEN "NumericArray"
             ELSE IF f.type \in {"string", "list_str", "list_float"} /\ f.multiple THEN "Array"
             ELSE "Scalar"
BY DEF TableOf, Numeric

LEMMA FitsMeans ==
    ASSUME NEW v, NEW f, Fits(v, f), NEW i \in DOMAIN v.elems
    PROVE  /\ v.list = (f.multiple /\ f.type # "bool")
           /\ v.elems[i].text # ""
           /\ v.elems[i].kind = IF f.type = "bool" THEN "bool"
                                ELSE IF f.type \in Numeric \cup {"list_float"} THEN "number"
                                ELSE "string"
BY DEF Fits, Numeric

LEMMA PromisedTableIs ==
    ASSUME NEW f, f.type \in Types, f.multiple \in BOOLEAN, ~NumberList(f)
    PROVE  PromisedTable(f) = TableOf(f)
<1>1. CASE f.type = "bool"
  BY <1>1 DEF PromisedTable, TableOf
<1>2. CASE f.type # "bool" /\ f.multiple
  BY <1>2 DEF PromisedTable, TableOf, NumberList, Types, Numeric
<1>3. CASE f.type # "bool" /\ ~f.multiple
  BY <1>3 DEF PromisedTable, TableOf, Numeric
<1>4. QED
  BY <1>1, <1>2, <1>3

(* A number is formatted as its declaration asks for.                       *)
LEMMA NumberPromised ==
    ASSUME IInv, stage = Mapped, NEW f \in FirstDeclarations,
           f.type \in {"float64", "int64", "list_float"}, NEW a
    PROVE  Number(f.key, a) =
             IF f.type = "int64" THEN [o |-> a.int, type |-> "integer"]
             ELSE [o |-> a.text, type |-> "decimal"]
<1>1. f.key \in DOMAIN fm /\ fm[f.key].type = f.type
  BY TablesHold DEF Mapped
<1>2. QED
  BY <1>1 DEF Number, IsInteger

(* The loop that visits a declared field yields what is promised of its     *)
(* values.                                                                  *)
LEMMA ValuePromised ==
    ASSUME IInv, stage = Mapped, NEW f \in FirstDeclarations, f.key \in DOMAIN record.fields,
           Fits(record.fields[f.key], f), ~NumberList(f),
           NEW i \in DOMAIN record.fields[f.key].elems
    PROVE  PromisedObject(f, record.fields[f.key].elems[i]) \in Objects(TableOf(f), f.key)
<1> DEFINE k == f.key
           v == record.fields[k]
           a == v.elems[i]
           x == PromisedObject(f, a)
<1>1. f.type \in Types /\ f.multiple \in BOOLEAN
  BY FirstDeclarationTyped
<1>2. /\ v.list = (f.multiple /\ f.type # "bool")
      /\ a.text # ""
      /\ a.kind = IF f.type = "bool" THEN "bool"
                  ELSE IF f.type \in Numeric \cup {"list_float"} THEN "number" ELSE "string"
  BY FitsMeans
<1>3. v.list \in BOOLEAN /\ (~v.list => DOMAIN v.elems = {1})
  BY RdfMappingAssumption DEF IInv, IsValue
<1> DEFINE objects == Objects(TableOf(f), k)
<1>4. objects =
        IF TableOf(f) = "Scalar" /\ ~v.list THEN ScalarObjects(k, v.elems[1])
        ELSE IF TableOf(f) = "Bool" /\ ~v.list
        THEN {[o |-> y.text, type |-> "boolean"] : y \in Elements(v, "bool")}
        ELSE IF TableOf(f) = "Array" /\ v.list
        THEN {[o |-> y.text, type |-> "literal"] : y \in {e \in Elements(v, "string") : e.text # ""}}
        ELSE IF TableOf(f) = "NumericArray" /\ v.list
        THEN {Number(k, y) : y \in Elements(v, "number")}
        ELSE {}
  BY ObjectsAre
<1>5. a \in Elements(v, a.kind)
  BY DEF Elements
<1>6. ~v.list => a = v.elems[1]
  BY <1>3
<1>7. x = IF k = "date" /\ TableOf(f) = "Scalar" /\ a.text \in DOMAIN Iso
          THEN [o |-> Iso[a.text], type |-> "dateTime"]
          ELSE IF f.type = "bool" THEN [o |-> a.text, type |-> "boolean"]
          ELSE IF f.type \in {"float64", "int64", "list_float"} THEN Number(k, a)
          ELSE [o |-> a.text, type |-> "literal"]
  <2>1. PromisedTable(f) = TableOf(f)
    BY <1>1, PromisedTableIs
  <2>2. x = IF k = "date" /\ PromisedTable(f) = "Scalar" /\ a.text \in DOMAIN Iso
            THEN [o |-> Iso[a.text], type |-> "dateTime"]
            ELSE IF f.type = "bool" THEN [o |-> a.text, type |-> "boolean"]
            ELSE IF f.type = "int64" THEN [o |-> a.int, type |-> "integer"]
            ELSE IF f.type \in {"float64", "list_float"} THEN [o |-> a.text, type |-> "decimal"]
            ELSE [o |-> a.text, type |-> "literal"]
    BY DEF PromisedObject
  <2>3. QED
    BY <2>1, <2>2, NumberPromised
<1> HIDE DEF k, v, a, x, objects
<1>8. CASE f.type = "bool"
  <2>1. TableOf(f) = "Bool" /\ ~v.list /\ a.kind = "bool"
    BY <1>2, <1>8, TableOfIs
  <2>2. [o |-> a.text, type |-> "boolean"] \in objects
    BY <1>4, <1>5, <2>1
  <2>3. QED
    BY <1>7, <1>8, <2>1, <2>2 DEF x, k, v, a, objects
<1>9. CASE f.type # "bool" /\ f.multiple /\ f.type \in Numeric
  <2>1. TableOf(f) = "NumericArray" /\ v.list /\ a.kind = "number"
    BY <1>2, <1>9, TableOfIs
  <2>2. Number(k, a) \in objects
    BY <1>4, <1>5, <2>1
  <2>3. x = Number(k, a)
    BY <1>7, <1>9, <2>1 DEF Numeric
  <2>4. QED
    BY <2>2, <2>3 DEF x, k, v, a, objects
<1>10. CASE f.type # "bool" /\ f.multiple /\ f.type \notin Numeric
  <2>1. f.type \in {"string", "list_str"}
    BY <1>1, <1>10 DEF Types, Numeric, NumberList
  <2>2. TableOf(f) = "Array" /\ v.list /\ a.kind = "string"
    BY <1>2, <1>10, <2>1, TableOfIs DEF Numeric
  <2>3. [o |-> a.text, type |-> "literal"] \in objects
    BY <1>2, <1>4, <1>5, <2>2
  <2>4. x = [o |-> a.text, type |-> "literal"]
    BY <1>7, <2>1, <2>2
  <2>5. QED
    BY <2>3, <2>4 DEF x, k, v, a, objects
<1>11. CASE f.type # "bool" /\ ~f.multiple
  <2>1. TableOf(f) = "Scalar" /\ ~v.list
    BY <1>2, <1>11, TableOfIs
  <2>2. objects = ScalarObjects(k, a)
    BY <1>4, <1>6, <2>1
  <2>3. a.kind = IF f.type \in {"float64", "int64", "list_float"} THEN "number" ELSE "string"
    BY <1>2, <1>11 DEF Numeric
  <2>4. x = IF k = "date" /\ a.text \in DOMAIN Iso
            THEN [o |-> Iso[a.text], type |-> "dateTime"]
            ELSE IF a.kind = "number" THEN Number(k, a)
            ELSE [o |-> a.text, type |-> "literal"]
    BY <1>7, <1>11, <2>1, <2>3
  <2>5. [o |-> a.text, type |-> "literal"] # [o |-> "", type |-> "literal"]
    <3>1. [o |-> a.text, type |-> "literal"].o # [o |-> "", type |-> "literal"].o
      BY <1>2
    <3>2. QED
      BY <3>1
  <2>6. x \in ScalarObjects(k, a)
    BY <2>3, <2>4, <2>5, ScalarObjectsAre
  <2>7. QED
    BY <2>2, <2>6 DEF x, k, v, a, objects
<1>12. QED
  BY <1>1, <1>8, <1>9, <1>10, <1>11

(* What a schema promises of a value a finished mapping has kept: it is     *)
(* said under the predicate, as the text and in the datatype promised,      *)
(* whatever tables its key is in; only the lists declared as list_float are *)
(* lost, and only a field that says the same decides on another datatype.   *)
THEOREM ValuesAreSaid == Spec => []DeclaredValuesSaid
<1>1. ASSUME IInv, stage = Mapped, NEW f \in Fitting, ~NumberList(f),
             NEW i \in DOMAIN record.fields[f.key].elems,
             NEW t \in About(PromisedPredicate(f),
                             {PromisedObject(f, record.fields[f.key].elems[i])})
      PROVE  Said(t)
  <2> DEFINE k == f.key
             x == PromisedObject(f, record.fields[k].elems[i])
  <2>1. f \in FirstDeclarations /\ k \in DOMAIN record.fields /\ Fits(record.fields[k], f)
    BY <1>1 DEF Fitting
  <2>2. x \in Objects(TableOf(f), k)
    BY <1>1, <2>1, ValuePromised
  <2>3. k \in DOMAIN fm /\ fm[k].kind = TableOf(f)
    BY <1>1, <2>1, TablesHold DEF Mapped
  <2>4. PICK s \in DOMAIN Kinds : TableOf(f) = Kinds[s]
    BY TableIsAKind
  <2>5. k \in DOMAIN Table(Kinds[s])
    BY <2>3, <2>4 DEF Table
  <2>6. PromisedTable(f) = Kinds[s]
    BY <1>1, <2>1, <2>4, FirstDeclarationTyped, PromisedTableIs
  <2>7. Table(Kinds[s])[k] = PromisedPredicate(f)
    BY <2>5, <2>6 DEF Table, PromisedPredicate
  <2>8. t \in YieldOf(s, k)
    <3>1. t = [s |-> "dataset", p |-> PromisedPredicate(f), o |-> x.o, type |-> x.type]
      BY DEF About
    <3>2. QED
      BY <2>2, <2>4, <2>7, <3>1 DEF YieldOf, About
  <2>9. t \in Yield
    BY <2>1, <2>5, <2>8, FieldIn, YieldHas
  <2>10. PICK u \in triples \cap (Begun \cup Yield) : u.p = t.p /\ u.o = t.o
    BY <1>1, <2>9, FinishedSays DEF SaidIn
  <2>11. u.s = "dataset" /\ t.s = "dataset"
    BY <1>1, <2>9, <2>10, BegunFacts, YieldFacts DEF IInv
  <2>12. QED
    BY <2>9, <2>10, <2>11 DEF Said, Statement
<1>2. IInv => DeclaredValuesSaid
  BY <1>1 DEF DeclaredValuesSaid, ValuesSaid
<1>3. QED
  BY <1>2, Invariance, PTL
=============================================================================
