----------------------------- MODULE RdfMapping -----------------------------
(***************************************************************************)
(* How the data-service makes triples of a FOXDEN record.  At startup it    *)
(* reads the schema files of the beamlines, in the order of the             *)
(* configuration, into tables of fields; an ingest then goes through the    *)
(* built-in tables completed with those, four loops over Go maps, which     *)
(* visit their fields in any order, and at last through three nested        *)
(* fields.                                                                  *)
(*                                                                          *)
(* A field of a record holds one atom or a list of them.  An atom carries   *)
(* its text as formatDecimal() or "%t" would print it, and for a number     *)
(* also what formatInteger() makes of it; null, an object, and a list in a  *)
(* list are atoms of the kind "other".                                      *)
(***************************************************************************)
EXTENDS Naturals, Sequences, FiniteSets

CONSTANTS
    Field,         \* the keys of records and schemas
    FileLists,     \* the lists of schema files a configuration may name
    Unreadable,    \* a file that cannot be read or parsed
    Records,       \* the records FOXDEN may answer with
    StaticScalar, StaticBool, StaticArray,   \* the built-in tables: key |-> predicate
    StaticSkip,    \* the keys no schema may define
    CamelCase,     \* CamelCase[k]: the predicate of key k in the node's namespace
    Iso,           \* Iso[x]: the date that the text x stands for as Unix time
    CellPredicates, \* the predicates of the dimensions of a unit cell
    PhaseIRI,      \* PhaseIRI[i]: the IRI of the i-th phase of the sample
    MaxEntries     \* bound of the model: the entries of a schema file

Kinds == <<"Scalar", "Bool", "Array", "NumericArray">>
Types == {"bool", "float64", "int64", "string", "list_str", "list_float"}
Numeric == {"float64", "int64"}

Declaration == [key : Field, type : Types, multiple : BOOLEAN]

IsValue(v) ==
    /\ \A i \in DOMAIN v.elems : v.elems[i].kind \in {"string", "number", "bool", "other"}
    /\ v.list \in BOOLEAN
    /\ ~v.list => DOMAIN v.elems = {1}

(* The tables and the node's namespace name no predicate of the two triples *)
(* every record begins with, and no phase is the dataset.                   *)
ASSUME RdfMappingAssumption ==
    /\ MaxEntries \in Nat
    /\ \A list \in FileLists :
          /\ list \in Seq({Unreadable} \cup Seq(Declaration))
          /\ \A i \in DOMAIN list : list[i] # Unreadable => Len(list[i]) <= MaxEntries
    /\ \A k \in Field : CamelCase[k] \notin {"rdf:type", "identifier"}
    /\ \A table \in {StaticScalar, StaticBool, StaticArray} :
          /\ DOMAIN table \subseteq Field \ StaticSkip
          /\ \A k \in DOMAIN table : table[k] \notin {"rdf:type", "identifier"}
    /\ \A i \in DOMAIN CellPredicates : CellPredicates[i] # "rdf:type"
    /\ \A i \in DOMAIN PhaseIRI : PhaseIRI[i] # "dataset"
    /\ \A rec \in Records :
          /\ DOMAIN rec.cell \subseteq DOMAIN CellPredicates
          /\ DOMAIN rec.phases \subseteq DOMAIN PhaseIRI
          /\ \A k \in DOMAIN rec.fields : IsValue(rec.fields[k])

VARIABLES
    files,      \* the schema files of the configuration
    at,         \* the file and the entry of it that is loaded next
    fm,         \* FieldMaps: fm[k] is the table key k is in, and its type
    record,     \* the record that is mapped
    stage,      \* 0 while loading; then the loop, the nested fields being the 5th
    left,       \* the fields this loop has still to visit
    triples     \* the triples made, without their graph

vars == <<files, at, fm, record, stage, left, triples>>

Failed == 7
Mapped == 6

Init ==
    /\ files \in FileLists
    /\ at = <<1, 1>>
    /\ fm = [k \in {} |-> [kind |-> "Scalar", type |-> "string"]]
    /\ record \in Records
    /\ stage = 0
    /\ left = {}
    /\ triples = {}

-----------------------------------------------------------------------------
(* LoadFieldMaps().                                                         *)

(* Mutation: numbers in a list go where strings do.                         *)
TableOfStringsOnly(f) ==
    CASE f.type = "bool" -> "Bool"
      [] f.type # "bool" /\ f.multiple -> "Array"
      [] OTHER -> "Scalar"

(* The switch.  A list_float goes where the strings of a list go.           *)
TableOf(f) ==
    CASE f.type = "bool" -> "Bool"
      [] f.type \in Numeric /\ f.multiple -> "NumericArray"
      [] f.type \in {"string", "list_str", "list_float"} /\ f.multiple -> "Array"
      [] OTHER -> "Scalar"

(* Mutation: a later declaration of a key replaces an earlier one.          *)
RegisterLast(maps, f) ==
    IF f.key \in StaticSkip THEN maps
    ELSE [k \in DOMAIN maps \cup {f.key} |->
             IF k = f.key THEN [kind |-> TableOf(f), type |-> f.type] ELSE maps[k]]

(* Mutation: the fields mapped by hand are mapped from the schema too.      *)
RegisterSkipped(maps, f) ==
    IF f.key \in DOMAIN maps THEN maps
    ELSE [k \in DOMAIN maps \cup {f.key} |->
             IF k = f.key THEN [kind |-> TableOf(f), type |-> f.type] ELSE maps[k]]

Register(maps, f) ==
    IF f.key \in StaticSkip \/ f.key \in DOMAIN maps THEN maps
    ELSE [k \in DOMAIN maps \cup {f.key} |->
             IF k = f.key THEN [kind |-> TableOf(f), type |-> f.type] ELSE maps[k]]

Loading == stage = 0 /\ at[1] \in DOMAIN files
Loaded == stage = 0 /\ at[1] \notin DOMAIN files

LoadField ==
    LET file == files[at[1]] IN
    /\ Loading
    /\ file # Unreadable /\ at[2] \in DOMAIN file
    /\ fm' = Register(fm, file[at[2]])
    /\ at' = [at EXCEPT ![2] = @ + 1]
    /\ UNCHANGED <<files, record, stage, left, triples>>

(* The file is at its end, or it was skipped with a line in the log.        *)
NextFile ==
    LET file == files[at[1]] IN
    /\ Loading
    /\ file # Unreadable => at[2] \notin DOMAIN file
    /\ at' = <<at[1] + 1, 1>>
    /\ UNCHANGED <<files, fm, record, stage, left, triples>>

-----------------------------------------------------------------------------
(* RecordToTriples().                                                       *)

Static(kind) ==
    CASE kind = "Scalar" -> StaticScalar
      [] kind = "Bool" -> StaticBool
      [] kind = "Array" -> StaticArray
      [] OTHER -> [k \in {} |-> ""]

(* mergeFieldMaps(): the built-in entries of a table win over the schema's  *)
(* entries of the same table.                                               *)
Table(kind) ==
    LET derived == {k \in DOMAIN fm : fm[k].kind = kind} IN
    [k \in DOMAIN Static(kind) \cup derived |->
        IF k \in DOMAIN Static(kind) THEN Static(kind)[k] ELSE CamelCase[k]]

IsInteger(k) == k \in DOMAIN fm /\ fm[k].type = "int64"

Number(k, a) ==
    IF IsInteger(k) THEN [o |-> a.int, type |-> "integer"] ELSE [o |-> a.text, type |-> "decimal"]

(* The objects a single value yields.  Of a date it is the date that counts.*)
ScalarObjects(k, a) ==
    IF k = "date" /\ a.kind \in {"string", "number"} /\ a.text \in DOMAIN Iso
    THEN {[o |-> Iso[a.text], type |-> "dateTime"]}
    ELSE CASE a.kind = "string" -> {[o |-> a.text, type |-> "literal"]} \ {[o |-> "", type |-> "literal"]}
           [] a.kind = "number" -> {Number(k, a)}
           [] a.kind = "bool" -> {[o |-> a.text, type |-> "boolean"]}
           [] OTHER -> {}

Elements(v, kind) == {v.elems[i] : i \in {j \in DOMAIN v.elems : v.elems[j].kind = kind}}

(* What a loop makes of the value of one field: nothing, when the value is  *)
(* not of the shape the loop asks for.                                      *)
Objects(kind, k) ==
    LET v == record.fields[k] IN
    CASE kind = "Scalar" /\ ~v.list -> ScalarObjects(k, v.elems[1])
      [] kind = "Bool" /\ ~v.list -> {[o |-> a.text, type |-> "boolean"] : a \in Elements(v, "bool")}
      [] kind = "Array" /\ v.list ->
            {[o |-> a.text, type |-> "literal"] : a \in {e \in Elements(v, "string") : e.text # ""}}
      [] kind = "NumericArray" /\ v.list -> {Number(k, a) : a \in Elements(v, "number")}
      [] OTHER -> {}

About(p, objects) == {[s |-> "dataset", p |-> p, o |-> x.o, type |-> x.type] : x \in objects}

(* Mutation: a predicate is used once, as in an earlier version.            *)
AddByPredicate(ts, new) ==
    LET unused == {t \in new : ~\E u \in ts : u.s = t.s /\ u.p = t.p} IN
    ts \cup {CHOOSE t \in unused : t.p = p : p \in {t.p : t \in unused}}

(* The key of seen is predicate and object, without the datatype.           *)
Add(ts, new) ==
    ts \cup {t \in new : ~\E u \in ts : u.s = t.s /\ u.p = t.p /\ u.o = t.o}

FieldsOf(s) == IF s \in DOMAIN Kinds THEN DOMAIN Table(Kinds[s]) \cap DOMAIN record.fields ELSE {}

MappingFails ==
    /\ Loaded
    /\ ~record.did
    /\ stage' = Failed
    /\ UNCHANGED <<files, at, fm, record, left, triples>>

MappingBegins ==
    /\ Loaded
    /\ record.did
    /\ stage' = 1
    /\ left' = FieldsOf(1)
    /\ triples' = About("rdf:type", {[o |-> "Dataset", type |-> "uri"]})
                  \cup About("identifier", {[o |-> "did", type |-> "literal"]})
    /\ UNCHANGED <<files, at, fm, record>>

Visit(k) ==
    /\ stage \in DOMAIN Kinds
    /\ k \in left
    /\ triples' = Add(triples, About(Table(Kinds[stage])[k], Objects(Kinds[stage], k)))
    /\ left' = left \ {k}
    /\ UNCHANGED <<files, at, fm, record, stage>>

NextLoop ==
    /\ stage \in DOMAIN Kinds
    /\ left = {}
    /\ stage' = stage + 1
    /\ left' = FieldsOf(stage + 1)
    /\ UNCHANGED <<files, at, fm, record, triples>>

(* A phase that is no object is skipped, and keeps its number.  name and    *)
(* group are empty when the phase has none.                                 *)
Phases == {i \in DOMAIN record.phases : record.phases[i].object}
AboutPhase(i, p, objects, type) == {[s |-> PhaseIRI[i], p |-> p, o |-> x, type |-> type] : x \in objects}

(* Mutation: the phases are described but not typed, as in an earlier       *)
(* version.                                                                 *)
UntypedPhaseTriples(i) ==
    AboutPhase(i, "label", record.phases[i].name, "literal")
    \cup AboutPhase(i, "spaceGroup", record.phases[i].group, "integer")

PhaseTriples(i) ==
    AboutPhase(i, "rdf:type", {"CrystallographicPhase"}, "uri")
    \cup AboutPhase(i, "label", record.phases[i].name, "literal")
    \cup AboutPhase(i, "spaceGroup", record.phases[i].group, "integer")

NestedLiterals ==
    LET cell == {i \in DOMAIN record.cell : record.cell[i].kind = "number"}
        groups == {i \in DOMAIN record.groups : record.groups[i].kind = "number"}
    IN
    (UNION {About(CellPredicates[i], {[o |-> record.cell[i].text, type |-> "decimal"]}) : i \in cell})
    \cup About("sampleSpaceGroup", {[o |-> record.groups[i].int, type |-> "integer"] : i \in groups})

NestedFields ==
    /\ stage = 5
    /\ triples' =
           Add(triples, About("crystallographicPhase", {[o |-> PhaseIRI[i], type |-> "uri"] : i \in Phases})
                        \cup NestedLiterals)
           \cup UNION {PhaseTriples(i) : i \in Phases}
    /\ stage' = Mapped
    /\ UNCHANGED <<files, at, fm, record, left>>

Next ==
    \/ LoadField \/ NextFile
    \/ MappingFails \/ MappingBegins
    \/ \E k \in left : Visit(k)
    \/ NextLoop \/ NestedFields

Spec == Init /\ [][Next]_vars

-----------------------------------------------------------------------------
TypeOK ==
    /\ DOMAIN fm \subseteq Field \ StaticSkip
    /\ \A k \in DOMAIN fm : fm[k].type \in Types /\ \E s \in DOMAIN Kinds : fm[k].kind = Kinds[s]
    /\ record \in Records
    /\ stage \in 0..Failed
    /\ left \subseteq FieldsOf(stage)
    /\ \A t \in triples :
           t.type \in {"uri", "literal", "integer", "decimal", "boolean", "dateTime"}

(* The order in which Go visits the maps decides nothing about what is said *)
(* of a dataset: the finished mapping says exactly what the fields yield    *)
(* one by one, although an object is added once only.  (The datatype of an  *)
(* object that two fields give to one predicate is that of the first.)      *)
Yield == UNION {UNION {About(Table(Kinds[s])[k], Objects(Kinds[s], k)) : k \in FieldsOf(s)} : s \in DOMAIN Kinds}
Statement(t) == <<t.p, t.o>>
AboutRecord ==
    {t \in triples : t.s = "dataset"}
    \ (NestedLiterals \cup {t \in triples : t.p \in {"rdf:type", "identifier", "crystallographicPhase"}})

VisitOrderIrrelevant ==
    stage = Mapped =>
        /\ {Statement(t) : t \in Yield} \subseteq {Statement(t) : t \in triples}
        /\ AboutRecord \subseteq Yield
        /\ \A t \in Yield :
              (\A u \in Yield : Statement(u) = Statement(t) => u = t) => t \in triples

(* The first declaration of a key is the one that counts, in the order of   *)
(* the files and of their entries, and a file that cannot be loaded costs   *)
(* nothing but its own declarations.                                        *)
Entries ==
    {e \in (DOMAIN files) \X (1..MaxEntries) : files[e[1]] # Unreadable /\ e[2] \in DOMAIN files[e[1]]}
Entry(e) == files[e[1]][e[2]]
Earlier(d, e) == d[1] < e[1] \/ (d[1] = e[1] /\ d[2] < e[2])

FirstDeclarations ==
    {Entry(e) : e \in {x \in Entries :
        /\ Entry(x).key \notin StaticSkip
        /\ \A d \in Entries : Entry(d).key = Entry(x).key => ~Earlier(d, x)}}

FirstDeclarationWins ==
    stage # 0 =>
        /\ DOMAIN fm = {f.key : f \in FirstDeclarations}
        /\ \A f \in FirstDeclarations : fm[f.key].type = f.type

(* What the rules at the head of schema.go promise of a declared field: the *)
(* table it goes to, and what is made of its values there.  A built-in      *)
(* predicate of that table comes before the schema's.                       *)
PromisedTable(f) ==
    CASE f.type = "bool" -> "Bool"
      [] f.type \in Numeric \cup {"list_float"} /\ f.multiple -> "NumericArray"
      [] f.type \in {"string", "list_str"} /\ f.multiple -> "Array"
      [] OTHER -> "Scalar"

PromisedPredicate(f) ==
    LET builtIn == Static(PromisedTable(f)) IN
    IF f.key \in DOMAIN builtIn THEN builtIn[f.key] ELSE CamelCase[f.key]

PromisedObject(f, a) ==
    IF f.key = "date" /\ PromisedTable(f) = "Scalar" /\ a.text \in DOMAIN Iso
    THEN [o |-> Iso[a.text], type |-> "dateTime"]
    ELSE CASE f.type = "bool" -> [o |-> a.text, type |-> "boolean"]
           [] f.type = "int64" -> [o |-> a.int, type |-> "integer"]
           [] f.type \in {"float64", "list_float"} -> [o |-> a.text, type |-> "decimal"]
           [] OTHER -> [o |-> a.text, type |-> "literal"]

(* A value of the shape that its declaration asks for.                      *)
Fits(v, f) ==
    LET kind == CASE f.type = "bool" -> "bool"
                  [] f.type \in Numeric \cup {"list_float"} -> "number"
                  [] OTHER -> "string"
    IN
    /\ v.list = (f.multiple /\ f.type # "bool")
    /\ \A i \in DOMAIN v.elems : v.elems[i].kind = kind /\ v.elems[i].text # ""

(* A triple is among those made; or another field has said the same of the  *)
(* dataset before, in another datatype.                                     *)
Said(t) ==
    t \in triples \/ (t \in Yield /\ \E u \in triples : u.s = t.s /\ Statement(u) = Statement(t))

Fitting == {f \in FirstDeclarations : f.key \in DOMAIN record.fields /\ Fits(record.fields[f.key], f)}

ValuesSaid(f) ==
    \A i \in DOMAIN record.fields[f.key].elems :
        \A t \in About(PromisedPredicate(f), {PromisedObject(f, record.fields[f.key].elems[i])}) : Said(t)

NumberList(f) == f.type = "list_float" /\ f.multiple

(* The promise is kept: each value that fits the declaration of its key is  *)
(* said of the dataset under the predicate, as the text and in the datatype *)
(* that its declaration promises, whatever other tables the key is in and   *)
(* whatever other fields say.  The lists declared as list_float are left    *)
(* out: they are lost.                                                      *)
DeclaredValuesSaid ==
    stage = Mapped => \A f \in Fitting : ~NumberList(f) => ValuesSaid(f)

(* An ingest types what it describes, the dataset and each of its phases,   *)
(* and it types nothing as an observation: the assumption under which       *)
(* DataService leaves the ingest unvalidated.                               *)
TypesOf(s) == {t.o : t \in {u \in triples : u.s = s /\ u.p = "rdf:type"}}

EverySubjectTyped ==
    \A t \in triples :
        TypesOf(t.s) = {IF t.s = "dataset" THEN "Dataset" ELSE "CrystallographicPhase"}
=============================================================================
