--------------------------- MODULE MCFoxdenAccess ---------------------------
(***************************************************************************)
(* Small worlds for TLC: configurations in YAML and JSON, tokens from a     *)
(* file, a variable or the configuration itself, and the ways in which a    *)
(* service does not start.                                                  *)
(***************************************************************************)
EXTENDS FoxdenAccess

MCNames == {"", "unknown", "id3", "id3a", "ID3", "ID3A", "v"}
MCKeys == {"", "beamline", "first_beamline", "btr"}
MCBeamlineKeys == {"beamline", "first_beamline"}
MCValidNames == {"id3", "id3a"}
MCLower == [n \in MCNames |-> CASE n = "ID3" -> "id3" [] n = "ID3A" -> "id3a" [] OTHER -> n]
MCUpper == [n \in MCNames |-> CASE n = "id3" -> "ID3" [] n = "id3a" -> "ID3A" [] OTHER -> n]
MCPrefixes ==
    [n \in MCNames |-> {"", n} \cup CASE n = "id3a" -> {"id3"} [] n = "ID3A" -> {"ID3"} [] OTHER -> {}]

Line(id, label) == [id |-> id, label |-> label]
MCDefaults ==
    [k \in {"iri_base", "token", "metadata_url", "beamlines", "store"} |->
        CASE k = "beamlines" -> <<Line("id1", "ID1"), Line("id3a", "ID3A"), Line("fast", "FAST")>>
          [] k = "metadata_url" -> "default url"
          [] k = "store" -> "memory"
          [] OTHER -> ""]
MCCandidates == <<"fabric.yaml", "fabric.json">>

DidOf(name) == <<[key |-> "beamline", val |-> name], [key |-> "btr", val |-> "v"]>>
Rec(name, lines) == [did |-> DidOf(name), beamlines |-> lines]
Moved ==
    [did |-> DidOf("v") \o <<[key |-> "first_beamline", val |-> "id3a"]>>, beamlines |-> {"id3a"}]
UpperCase == {Rec("id3", {"ID3"}), Rec("ID3", {"id3"}), Rec("ID3A", {"ID3A", "id3"})}
LowerCase == {Rec("id3a", {"id3a"}), Rec("ID3", {"id3"}), Moved}
MCRecordSets == {UpperCase, LowerCase}

Token1 == "t1"
Both == <<Line("id3", "three"), Line("id3a", "")>>

(* A file that declares a token, the beamlines and, unless "", a base IRI.  *)
File(format, base, token, lines) ==
    [format |-> format,
     settings |-> [k \in {"token", "beamlines"} \cup (IF base = "" THEN {} ELSE {"iri_base"}) |->
         CASE k = "token" -> token [] k = "beamlines" -> lines [] OTHER -> base]]
OnlyAt(path, file) == [p \in {path} |-> file]
NoFiles == [p \in {} |-> Unusable]
NoEnv == [n \in {} |-> ""]
Env(name, value) == [n \in {name} |-> value]
Setup(fs, env) == [fs |-> fs, env |-> env]
WorldOf(setups, secured, text) ==
    [setups |-> setups, secured |-> secured, text |-> text, issued |-> {Token1},
     records |-> IF secured THEN UpperCase ELSE LowerCase]
World(fs, env, secured, text) == WorldOf({Setup(fs, env)}, secured, text)

StoreOnly(store) ==
    [format |-> "json",
     settings |-> [k \in {"iri_base", "store"} |-> IF k = "store" THEN store ELSE "http://n/"]]

FromFile == File("yaml", "http://n/", TokenFile, Both)
FromVariable == File("yaml", "http://n/", "", Both)
MCWorlds ==
    {WorldOf({Setup(OnlyAt("fabric.yaml", FromFile), NoEnv),
              Setup(OnlyAt("fabric.yaml", FromFile), Env("FABRIC_CONFIG", "elsewhere"))}, TRUE, Token1),
     World(OnlyAt("fabric.yaml", FromFile), NoEnv, TRUE, ""),
     World(OnlyAt("fabric.json", File("json", "", "overridden", <<Line("id3", "")>>)),
           [n \in {"VAR", "NODE_IRI_BASE", "FOXDEN_TOKEN", "FOXDEN_URL", "FOXDEN_METADATA_URL"} |->
               CASE n = "VAR" -> Token1 [] n = "NODE_IRI_BASE" -> "http://n/" [] n = "FOXDEN_TOKEN" -> "VAR"
                 [] n = "FOXDEN_URL" -> "old url" [] OTHER -> "url"], TRUE, Token1),
     World(OnlyAt("fabric.yaml", FromVariable), NoEnv, FALSE, ""),
     World(OnlyAt("fabric.yaml", File("yaml", "http://n", "", Both)), NoEnv, FALSE, ""),
     World(NoFiles, Env("NODE_IRI_BASE", "http://n/"), FALSE, ""),
     World(OnlyAt("fabric.json", Unusable), NoEnv, TRUE, Token1),
     World(OnlyAt("fabric.json", StoreOnly("unknown")), NoEnv, FALSE, "")}

Call(service, beamline, limit) == [service |-> service, beamline |-> beamline, limit |-> limit]
MCCalls ==
    {Call("catalog", "id3", 0), Call("catalog", "id3a", 0), Call("data", "id3", 0), Call("data", "id3", 1)}

(* The operator tries the documented ways to supply a token and a base IRI. *)
DocumentedWorlds ==
    {WorldOf({Setup(OnlyAt("fabric.yaml", FromFile), NoEnv),
              Setup(OnlyAt("fabric.yaml", FromVariable), Env("FOXDEN_TOKEN", Token1)),
              Setup(NoFiles, Env("NODE_IRI_BASE", "http://n/"))}, TRUE, Token1)}
=============================================================================
