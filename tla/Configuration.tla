--------------------------- MODULE Configuration ---------------------------
(***************************************************************************)
(* The configuration of a service: what config.Load() makes of the files    *)
(* and the environment that the process finds when it starts.               *)
(*                                                                          *)
(* A file is a record of its format and of the settings it declares, a      *)
(* function on some of the settings.  The environment is a function on the  *)
(* variables that are set to something.                                     *)
(***************************************************************************)
EXTENDS Naturals, Sequences, FiniteSetsExt

CONSTANTS
    Candidates,  \* the paths that are tried, in their order
    Defaults,    \* defaults(): a value for every setting, "" for iri_base
    Unusable,    \* a file that cannot be read or parsed
    NoConfig,    \* the nil configuration
    IRIBases     \* the texts that end in "/"

ASSUME ConfigurationAssumption ==
    /\ {"iri_base", "token", "metadata_url", "beamlines", "store"} \subseteq DOMAIN Defaults
    /\ Defaults["iri_base"] \notin IRIBases

NoPath == "no path"

(* resolvePath(): the path of the environment need not exist.               *)
ResolvePath(fs, env) ==
    LET found == {i \in DOMAIN Candidates : Candidates[i] \in DOMAIN fs} IN
    IF "FABRIC_CONFIG" \in DOMAIN env THEN env["FABRIC_CONFIG"]
    ELSE IF found # {} THEN Candidates[Min(found)]
    ELSE NoPath

(* Which variable overrides which setting, the later entry the earlier.     *)
Overrides ==
    <<[name |-> "NODE_IRI_BASE", key |-> "iri_base"],
      [name |-> "FOXDEN_URL", key |-> "metadata_url"],
      [name |-> "FOXDEN_METADATA_URL", key |-> "metadata_url"],
      [name |-> "FOXDEN_TOKEN", key |-> "token"]>>

ApplyEnv(settings, env) ==
    [k \in DOMAIN settings |->
        LET set == {i \in DOMAIN Overrides : Overrides[i].key = k /\ Overrides[i].name \in DOMAIN env}
        IN  IF set = {} THEN settings[k] ELSE env[Overrides[Max(set)].name]]

(* A list of a JSON file is decoded into the default list: an entry takes   *)
(* over what it does not declare itself ("") from the default entry at its  *)
(* place.  A list of a YAML file is a new list.                             *)
DecodeBeamlines(file) ==
    LET list == file.settings["beamlines"]
        default == Defaults["beamlines"]
    IN
    IF file.format = "yaml" THEN list
    ELSE [i \in DOMAIN list |->
             IF i \in DOMAIN default /\ list[i].label = ""
             THEN [list[i] EXCEPT !.label = default[i].label] ELSE list[i]]

(* Mutation: an entry of the default list stays when the file has fewer.    *)
UnmarshalKeepsTail(file) ==
    [k \in DOMAIN Defaults |->
        IF k \notin DOMAIN file.settings THEN Defaults[k]
        ELSE IF k = "beamlines"
        THEN [i \in DOMAIN Defaults[k] \cup DOMAIN file.settings[k] |->
                 IF i \in DOMAIN file.settings[k] THEN DecodeBeamlines(file)[i] ELSE Defaults[k][i]]
        ELSE file.settings[k]]

Unmarshal(file) ==
    [k \in DOMAIN Defaults |->
        IF k \notin DOMAIN file.settings THEN Defaults[k]
        ELSE IF k = "beamlines" THEN DecodeBeamlines(file)
        ELSE file.settings[k]]

(* Load(): without a file the environment is not looked at, and a file that *)
(* cannot be used leaves no configuration at all.                           *)
Load(fs, env) ==
    LET path == ResolvePath(fs, env) IN
    IF path = NoPath THEN Defaults
    ELSE IF path \notin DOMAIN fs \/ fs[path] = Unusable THEN NoConfig
    ELSE ApplyEnv(Unmarshal(fs[path]), env)

(* Validate(), which does not survive a nil configuration.                  *)
Valid(cfg) == cfg # NoConfig /\ cfg["iri_base"] \in IRIBases
=============================================================================
