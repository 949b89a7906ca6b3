---------------------------- MODULE MCRdfMapping ----------------------------
(***************************************************************************)
(* Up to three schema files and one record for TLC.  "heat_treatment" has  *)
(* the predicate of a built-in field; "pi" is a built-in scalar that a      *)
(* schema declares as a list; "energies" is declared in two ways.           *)
(***************************************************************************)
EXTENDS RdfMapping

MCField == {"did", "pi", "date", "beam_energy", "technique", "in_situ",
            "processing", "heat_treatment", "energies", "scan"}
MCStaticScalar ==
    [k \in {"pi", "date", "beam_energy", "processing"} |->
        CASE k = "pi" -> "dct:creator" [] k = "date" -> "dct:date"
          [] k = "beam_energy" -> "beamEnergy" [] OTHER -> "heatTreatment"]
MCStaticBool == [k \in {"in_situ"} |-> "inSitu"]
MCStaticArray == [k \in {"technique"} |-> "technique"]
MCStaticSkip == {"did"}
MCCamelCase ==
    [k \in MCField |->
        CASE k = "beam_energy" -> "beamEnergy" [] k = "in_situ" -> "inSitu"
          [] k = "heat_treatment" -> "heatTreatment" [] OTHER -> k]
MCIso == [x \in {"17"} |-> "1970T"]
MCPhaseIRI == <<"phase/0", "phase/1", "phase/2">>
MCCellPredicates == <<"unitCell_a", "unitCell_b">>

D(key, type, multiple) == [key |-> key, type |-> type, multiple |-> multiple]
Energies == D("energies", "float64", TRUE)
FileA == <<Energies, D("pi", "list_str", TRUE), D("did", "string", FALSE), D("heat_treatment", "int64", FALSE)>>
FileB == <<D("energies", "list_float", TRUE), D("scan", "bool", FALSE), D("beam_energy", "int64", FALSE)>>
FileC == <<D("technique", "list_str", FALSE), D("energies", "string", TRUE),
           D("energies", "int64", TRUE), D("date", "float64", FALSE)>>

MCFileLists ==
    {<<>>, <<FileA>>, <<FileA, FileB>>, <<FileB, FileA>>, <<Unreadable, FileA, FileC>>,
     <<FileC, Unreadable, FileB>>, <<FileB, FileC>>}

Atom(kind, text) == [kind |-> kind, text |-> text, int |-> IF text = "61.3" THEN "61" ELSE text]
One(a) == [list |-> FALSE, elems |-> <<a>>]
Many(as) == [list |-> TRUE, elems |-> as]

Fields1 ==
    [k \in {"pi", "date", "beam_energy", "technique", "processing", "heat_treatment", "energies"} |->
        CASE k = "pi" -> Many(<<Atom("string", "ann"), Atom("string", "bob")>>)
          [] k = "date" -> One(Atom("number", "17"))
          [] k = "beam_energy" -> One(Atom("number", "61.3"))
          [] k = "technique" -> Many(<<Atom("string", "hedm"), Atom("string", "")>>)
          [] k = "processing" -> One(Atom("string", "5"))
          [] k = "heat_treatment" -> One(Atom("number", "5"))
          [] OTHER -> Many(<<Atom("number", "5"), Atom("number", "61.3")>>)]
Fields2 ==
    [k \in {"pi", "date", "beam_energy", "technique", "in_situ", "energies", "scan"} |->
        CASE k = "pi" -> One(Atom("string", "ann"))
          [] k = "beam_energy" -> One(Atom("other", ""))
          [] k = "date" -> One(Atom("string", "today"))
          [] k = "technique" -> One(Atom("string", "hedm"))
          [] k \in {"in_situ", "scan"} -> One(Atom("bool", "true"))
          [] OTHER -> Many(<<Atom("string", "5"), Atom("number", "61.3"), Atom("other", "")>>)]

Phase(object, name, group) == [object |-> object, name |-> name, group |-> group]
MCRecords ==
    {[did |-> TRUE, fields |-> Fields1, cell |-> <<>>, groups |-> <<Atom("number", "5"), Atom("number", "5")>>,
      phases |-> <<Phase(TRUE, {"alpha"}, {"5"}), Phase(FALSE, {}, {}), Phase(TRUE, {""}, {})>>],
     [did |-> TRUE, fields |-> Fields2, cell |-> <<Atom("number", "5"), Atom("string", "5")>>,
      groups |-> <<>>, phases |-> <<>>],
     [did |-> FALSE, fields |-> Fields2, cell |-> <<>>, groups |-> <<>>, phases |-> <<>>]}

-----------------------------------------------------------------------------
(* A schema, and a record that fits it, for the promises below.             *)
FileD == <<D("energies", "list_float", TRUE), D("pi", "list_str", TRUE)>>
DocumentedFiles == {<<FileD>>}

FieldsD ==
    [k \in {"pi", "beam_energy", "energies"} |->
        CASE k = "pi" -> Many(<<Atom("string", "ann"), Atom("string", "bob")>>)
          [] k = "beam_energy" -> One(Atom("number", "61.3"))
          [] OTHER -> Many(<<Atom("number", "5"), Atom("number", "61.3")>>)]
DocumentedRecords ==
    {[did |-> TRUE, fields |-> FieldsD, cell |-> <<>>, groups |-> <<>>, phases |-> <<>>]}

(* schema.go: "list_float, multiple -> numericArrayMap", one literal triple *)
(* per element.                                                             *)
NumberListsSaid == \A f \in Fitting : NumberList(f) => ValuesSaid(f)

(* rdf.go: "dct:creator for pi, dct:date for date, etc. are preserved       *)
(* regardless of what the schema files say".                                *)
VocabularyPreserved ==
    \A f \in Fitting, kind \in {"Scalar", "Bool", "Array"} :
        f.key \in DOMAIN Static(kind) =>
            \A i \in DOMAIN record.fields[f.key].elems :
                \E t \in triples :
                    /\ t.p = Static(kind)[f.key]
                    /\ t.o = PromisedObject(f, record.fields[f.key].elems[i]).o

(* rdf_test.go: the object of beam_energy is "67.5^^xsd:decimal", that is,  *)
(* carries its datatype in its text.                                        *)
DatatypesInText ==
    \A k \in DOMAIN StaticScalar \cap DOMAIN record.fields :
        LET v == record.fields[k] IN
        ~v.list /\ v.elems[1].kind = "number" =>
            \E t \in triples :
                t.p = StaticScalar[k] /\ t.o = v.elems[1].text \o "^^xsd:decimal"

(* Of these three promises a finished mapping keeps at least one: weaker    *)
(* than each, so that a mapping for which it fails breaks all three.        *)
DocumentedMapping ==
    stage = Mapped => NumberListsSaid \/ VocabularyPreserved \/ DatatypesInText
=============================================================================
