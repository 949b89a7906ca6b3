---------------------------- MODULE FoxdenAccess ----------------------------
(***************************************************************************)
(* The two services that ask FOXDEN, from the start of their processes: the *)
(* catalog-service lists the datasets of a beamline and takes its token     *)
(* afresh for every request; the data-service takes one when it starts, and *)
(* hands on FOXDEN's records.  FOXDEN, its tokens, the files and the        *)
(* operator are the environment: records change, tokens expire and are      *)
(* renewed, FOXDEN fails or hangs, a process is stopped and started, then   *)
(* perhaps with other files and variables.                                  *)
(*                                                                          *)
(* A record of FOXDEN has a DID and the beamlines it is filed under.        *)
(***************************************************************************)
EXTENDS DatasetDid, Configuration, FiniteSets

CONSTANTS
    MaxRequests,   \* bound of the model: requests, numbered as they arrive
    Calls,         \* the services asked, the beamlines and limits they are asked for
    ListLimit,     \* the data-service's limit when it is asked for none: 100
    Upper,         \* Upper[n]: n in upper case
    Prefixes,      \* Prefixes[n]: the names that n begins with
    BeamlineKeys,  \* the segment keys that end in "beamline"
    Worlds,        \* the setups for a start, whether FOXDEN asks for tokens, its first state
    TokenFile,     \* the path of a file that holds a token
    Tokens,        \* the tokens FOXDEN may issue
    RecordSets,    \* the sets of records FOXDEN may have
    KnownStores,   \* the back-ends NewFromConfig() can make
    NoToken,
    MaxStarts,     \* bound of the model: starts of the services
    MaxChanges     \* bound of the model: changes of FOXDEN and its tokens

Requests == 1..MaxRequests
Services == {"catalog", "data"}
Modes == {"up", "failing", "hanging"}

(* What is known of a file: that the beamlines it lists have an id and a    *)
(* label, "" when it declares none.                                         *)
IsFile(file) ==
    "beamlines" \in DOMAIN file.settings =>
        \A i \in DOMAIN file.settings["beamlines"] :
            {"id", "label"} \subseteq DOMAIN file.settings["beamlines"][i]

(* A route with an empty beamline does not exist.  Of the beamlines asked   *)
(* for it is assumed that strings.ToUpper() and then ToLower() are          *)
(* ToLower(), as they are of every text in ASCII.                           *)
ASSUME FoxdenAccessAssumption ==
    /\ {MaxRequests, MaxStarts, MaxChanges} \subseteq Nat
    /\ Lower[""] = ""
    /\ \A n \in Names : Lower[Lower[n]] = Lower[n] /\ n \in Prefixes[n]
    /\ ListLimit \in Nat \ {0}
    /\ "beamline" \in BeamlineKeys
    /\ \A c \in Calls :
          /\ c.service \in Services /\ c.limit \in Nat
          /\ {c.beamline, Lower[c.beamline], Upper[c.beamline]} \subseteq Names \ {""}
          /\ Lower[Upper[c.beamline]] = Lower[c.beamline]
    /\ \A rs \in RecordSets : \A rec \in rs : rec.did \in Did
    /\ NoToken \notin Tokens \cup {""}
    /\ \A w \in Worlds :
          /\ \A u \in w.setups :
                /\ \A file \in {u.fs[p] : p \in DOMAIN u.fs} \ {Unusable} :
                      IsFile(file) /\ ApplyEnv(Unmarshal(file), u.env) # NoConfig
                /\ \A n \in DOMAIN u.env : u.env[n] # NoToken
          /\ w.text \in Tokens \cup {""} /\ w.issued \subseteq Tokens
          /\ w.records \in RecordSets

VARIABLES
    world,      \* what does not change: what the processes may find, and FOXDEN's rule
    tokenText,  \* the token in TokenFile, or ""
    proc,       \* proc[s]: "down", "fetching" its token, "serving" or "ended"
    setup,      \* setup[s]: the files and the environment s was started with
    cfg,        \* cfg[s]: the configuration s has loaded
    held,       \* the token the data-service holds
    foxden,     \* its mode, its records, the tokens it accepts, those it has issued
    changes,    \* the changes of FOXDEN and its tokens so far
    starts,     \* the starts of both services so far
    req,        \* the requests
    seen        \* history: what FOXDEN has been during an open request

environment == <<world, tokenText, foxden, changes>>
processes == <<proc, setup, cfg, held, starts>>
vars == <<environment, processes, req, seen>>

Idle ==
    [pc |-> "idle", service |-> "", beamline |-> "", limit |-> 0,
     token |-> "", code |-> 0, listed |-> {}]

Init ==
    /\ world \in Worlds
    /\ tokenText = world.text
    /\ proc = [s \in Services |-> "down"]
    /\ setup = [s \in Services |-> [fs |-> <<>>, env |-> <<>>]]
    /\ cfg = [s \in Services |-> NoConfig]
    /\ held = ""
    /\ foxden = [mode |-> "up", records |-> world.records,
                  valid |-> world.issued, issued |-> world.issued]
    /\ changes = 0
    /\ starts = 0
    /\ req = [r \in Requests |-> Idle]
    /\ seen = [r \in Requests |-> {}]

Open(r) == req[r].pc \in {"received", "asking"}

(* Mutation: the requests outlive the process.                              *)
CutNothing(s) == UNCHANGED req

(* A process that ends takes its requests with it.                          *)
Cut(s) ==
    req' = [r \in Requests |-> IF Open(r) /\ req[r].service = s
                               THEN [req[r] EXCEPT !.pc = "cut"] ELSE req[r]]

-----------------------------------------------------------------------------
(* The processes.                                                           *)

(* main() up to the first thing it waits for, with the files and variables  *)
(* it finds; a process that runs is stopped before.                         *)
StartWith(s, found) ==
    LET loaded == Load(found.fs, found.env) IN
    /\ starts < MaxStarts
    /\ setup' = [setup EXCEPT ![s] = found]
    /\ starts' = starts + 1
    /\ cfg' = [cfg EXCEPT ![s] = loaded]
    /\ proc' = [proc EXCEPT ![s] =
           IF ~Valid(loaded) \/ (s = "data" /\ loaded["store"] \notin KnownStores) THEN "ended"
           ELSE IF s = "data" THEN "fetching" ELSE "serving"]
    /\ Cut(s)
    /\ UNCHANGED <<environment, held>>

Start(s) == \E found \in world.setups : StartWith(s, found)

(* GetToken() of the data-service: a variable, else a file, else the text.  *)
GetToken(source) ==
    IF source \in DOMAIN setup["data"].env THEN setup["data"].env[source]
    ELSE IF source = TokenFile THEN tokenText
    ELSE source

(* GetTokenFromFoxden(), which waits as long as FOXDEN does.                *)
TokenIssued(t) ==
    /\ proc["data"] = "fetching" /\ foxden.mode = "up"
    /\ t \in Tokens \ foxden.issued
    /\ foxden' = [foxden EXCEPT !.valid = @ \cup {t}, !.issued = @ \cup {t}]
    /\ held' = t
    /\ proc' = [proc EXCEPT !["data"] = "serving"]
    /\ UNCHANGED <<world, tokenText, changes, setup, cfg, starts, req>>

TokenNotIssued ==
    /\ proc["data"] = "fetching" /\ foxden.mode # "hanging"
    /\ held' = GetToken(cfg["data"]["token"])
    /\ proc' = [proc EXCEPT !["data"] = "serving"]
    /\ UNCHANGED <<environment, setup, cfg, starts, req>>

-----------------------------------------------------------------------------
(* The requests.                                                            *)

Receive(r, call) ==
    /\ req[r].pc = "idle" /\ \A q \in 1..(r - 1) : req[q].pc # "idle"
    /\ proc[call.service] = "serving"
    /\ req' = [req EXCEPT ![r].pc = "received", ![r].service = call.service,
                          ![r].beamline = call.beamline, ![r].limit = call.limit]
    /\ UNCHANGED <<environment, processes>>

Answer(r, code, listed) ==
    /\ req' = [req EXCEPT ![r].pc = "answered", ![r].code = code, ![r].listed = listed]
    /\ UNCHANGED <<environment, processes>>

Received(r, s) == req[r].pc = "received" /\ req[r].service = s
Registered(b) == \E i \in DOMAIN cfg["catalog"]["beamlines"] : cfg["catalog"]["beamlines"][i].id = b

NotFound(r) ==
    /\ Received(r, "catalog")
    /\ ~Registered(req[r].beamline)
    /\ Answer(r, 404, {})

(* Mutation: a token taken at a start is used for all requests.             *)
CatalogTokenHeld(source) == held

(* getToken() of the catalog-service: a file, else a variable, else none.   *)
CatalogToken(source) ==
    LET text == IF source = TokenFile THEN tokenText
                ELSE IF source \in DOMAIN setup["catalog"].env THEN setup["catalog"].env[source] ELSE ""
    IN IF text = "" THEN NoToken ELSE text

Ask(r, token) ==
    /\ req' = [req EXCEPT ![r].pc = "asking", ![r].token = token]
    /\ UNCHANGED <<environment, processes>>

CatalogAsks(r) ==
    LET token == CatalogToken(cfg["catalog"]["token"]) IN
    /\ Received(r, "catalog")
    /\ Registered(req[r].beamline)
    /\ token # NoToken
    /\ Ask(r, token)

(* log.Fatal().                                                             *)
CatalogEnds(r) ==
    /\ Received(r, "catalog")
    /\ Registered(req[r].beamline)
    /\ CatalogToken(cfg["catalog"]["token"]) = NoToken
    /\ proc' = [proc EXCEPT !["catalog"] = "ended"]
    /\ Cut("catalog")
    /\ UNCHANGED <<environment, setup, cfg, held, starts>>

DataAsks(r) ==
    /\ Received(r, "data")
    /\ Ask(r, held)

Accepts(token) == world.secured => token \in foxden.valid
Filed(spellings) == {rec \in foxden.records : rec.beamlines \cap spellings # {}}

(* Mutation: the text of the DID is compared as it is.                      *)
NamesBeamlineExactly(did, b) ==
    \E i \in DOMAIN did : did[i].key \in BeamlineKeys /\ Lower[b] \in Prefixes[did[i].val]

(* strings.Contains(lower(did), "beamline=" + lower(b)): anywhere in the    *)
(* DID, and with a delimiter neither before nor after it.                   *)
NamesBeamline(did, b) ==
    \E i \in DOMAIN did : did[i].key \in BeamlineKeys /\ Lower[b] \in Prefixes[Lower[did[i].val]]

Limit(q) == IF q.limit = 0 THEN ListLimit ELSE q.limit

(* The catalog-service sends no limit and looks through the answer; the     *)
(* data-service hands on what it gets, of which FOXDEN cuts some beyond the *)
(* limit.                                                                   *)
ListsFor(q) ==
    IF q.service = "catalog"
    THEN {{rec \in Filed({Lower[q.beamline], Upper[q.beamline]}) : NamesBeamline(rec.did, q.beamline)}}
    ELSE IF Cardinality(Filed({q.beamline})) <= Limit(q) THEN {Filed({q.beamline})}
    ELSE {list \in SUBSET Filed({q.beamline}) : Cardinality(list) = Limit(q)}

FoxdenLists(r) ==
    /\ req[r].pc = "asking" /\ foxden.mode = "up"
    /\ Accepts(req[r].token)
    /\ \E list \in ListsFor(req[r]) : Answer(r, 200, list)

(* Mutation: an error from FOXDEN ends the catalog-service as the token does.*)
FailureEnds(r) ==
    /\ proc' = [proc EXCEPT ![req[r].service] = "ended"]
    /\ Cut(req[r].service)
    /\ UNCHANGED <<environment, setup, cfg, held, starts>>

(* An error: the catalog-service answers with an empty list.                *)
Failure(r) == Answer(r, IF req[r].service = "catalog" THEN 200 ELSE 502, {})

FoxdenRefuses(r) ==
    /\ req[r].pc = "asking" /\ foxden.mode = "up"
    /\ ~Accepts(req[r].token)
    /\ Failure(r)

FoxdenFails(r) ==
    /\ req[r].pc = "asking" /\ foxden.mode = "failing"
    /\ Failure(r)

(* Mutation: the HTTP client of the data-service has no timeout either.     *)
NeverTimesOut(r) == FALSE

(* The HTTP client of the data-service has a timeout, the catalog's has not.*)
TimesOut(r) ==
    /\ req[r].pc = "asking" /\ req[r].service = "data"
    /\ foxden.mode = "hanging"
    /\ Failure(r)

-----------------------------------------------------------------------------
(* The environment.                                                         *)

Change ==
    /\ changes < MaxChanges
    /\ changes' = changes + 1
    /\ UNCHANGED <<world, processes, req>>

ModeChanges ==
    /\ Change
    /\ \E m \in Modes \ {foxden.mode} : foxden' = [foxden EXCEPT !.mode = m]
    /\ UNCHANGED tokenText

RecordsChange ==
    /\ Change
    /\ \E rs \in RecordSets \ {foxden.records} : foxden' = [foxden EXCEPT !.records = rs]
    /\ UNCHANGED tokenText

TokenExpires ==
    /\ Change
    /\ \E t \in foxden.valid : foxden' = [foxden EXCEPT !.valid = @ \ {t}]
    /\ UNCHANGED tokenText

(* The operator has another token issued and writes it to the file.         *)
TokenFileRenewed ==
    /\ Change
    /\ \E t \in Tokens \ foxden.issued :
          /\ foxden' = [foxden EXCEPT !.valid = @ \cup {t}, !.issued = @ \cup {t}]
          /\ tokenText' = t

(* What FOXDEN is during a request, and the token that should go with it:   *)
(* the one the operator supplies to the catalog-service, or the one held.   *)
Supplied(s) ==
    IF s = "data" THEN held
    ELSE LET source == cfg[s]["token"] IN
         IF source = TokenFile THEN tokenText
         ELSE IF source \in DOMAIN setup[s].env THEN setup[s].env[source] ELSE ""

View(r) ==
    [records |-> foxden.records, up |-> foxden.mode = "up",
     token |-> Supplied(req[r].service), valid |-> foxden.valid]

Observe == seen' = [r \in Requests |-> IF Open(r)' THEN seen[r] \cup {View(r)'} ELSE {}]

Serve(r) ==
    \/ NotFound(r) \/ CatalogAsks(r) \/ CatalogEnds(r) \/ DataAsks(r)
    \/ FoxdenLists(r) \/ FoxdenRefuses(r) \/ FoxdenFails(r) \/ TimesOut(r)

FetchToken == TokenNotIssued \/ \E t \in Tokens : TokenIssued(t)

Next ==
    /\ \/ \E s \in Services : Start(s)
       \/ FetchToken
       \/ \E r \in Requests : Serve(r) \/ \E call \in Calls : Receive(r, call)
       \/ ModeChanges \/ RecordsChange \/ TokenExpires \/ TokenFileRenewed
    /\ Observe

Spec == Init /\ [][Next]_vars

(* The Go scheduler runs every handler that can run, and FOXDEN, unless it  *)
(* hangs, answers or fails.                                                 *)
FairSpec ==
    /\ Spec
    /\ \A r \in Requests : WF_vars(Serve(r) /\ Observe)
    /\ WF_vars(FetchToken /\ Observe)

-----------------------------------------------------------------------------
TypeOK ==
    /\ world \in Worlds
    /\ tokenText \in Tokens \cup {""}
    /\ proc \in [Services -> {"down", "fetching", "serving", "ended"}]
    /\ proc["catalog"] # "fetching"
    /\ \A s \in Services : proc[s] \in {"fetching", "serving"} => Valid(cfg[s])
    /\ foxden.mode \in Modes /\ foxden.valid \subseteq foxden.issued /\ foxden.issued \subseteq Tokens
    /\ \A r \in Requests :
          /\ req[r].pc \in {"idle", "received", "asking", "answered", "cut"}
          /\ req[r].code \in {0, 200, 404, 502}
          /\ Open(r) => req[r].service \in Services /\ proc[req[r].service] = "serving"
    /\ changes \in 0..MaxChanges
    /\ starts \in 0..MaxStarts

(* What the documentation promises of a setting: a variable that is set     *)
(* wins, FOXDEN_METADATA_URL over FOXDEN_URL; then what the file declares;  *)
(* then the default.                                                        *)
Promised(k, file, env) ==
    LET given(name) == name \in DOMAIN env IN
    IF k = "iri_base" /\ given("NODE_IRI_BASE") THEN env["NODE_IRI_BASE"]
    ELSE IF k = "token" /\ given("FOXDEN_TOKEN") THEN env["FOXDEN_TOKEN"]
    ELSE IF k = "metadata_url" /\ given("FOXDEN_METADATA_URL") THEN env["FOXDEN_METADATA_URL"]
    ELSE IF k = "metadata_url" /\ given("FOXDEN_URL") THEN env["FOXDEN_URL"]
    ELSE IF k \in DOMAIN file.settings THEN file.settings[k]
    ELSE Defaults[k]

(* A beamline of the file has the label given there; without one it has     *)
(* none, or, in a JSON file, that of the default beamline at its place.     *)
PromisedLabel(i, file) ==
    LET given == file.settings["beamlines"][i].label IN
    IF given = "" /\ file.format # "yaml" /\ i \in DOMAIN Defaults["beamlines"]
    THEN Defaults["beamlines"][i].label ELSE given

PromisedBeamlines(list, file) ==
    IF "beamlines" \notin DOMAIN file.settings THEN list = Defaults["beamlines"]
    ELSE /\ DOMAIN list = DOMAIN file.settings["beamlines"]
         /\ \A i \in DOMAIN list :
               /\ list[i].id = file.settings["beamlines"][i].id
               /\ list[i].label = PromisedLabel(i, file)

(* The settings in force in a service, whether it runs or has ended, are    *)
(* the promised ones of the file it was started with, and the defaults when *)
(* it found none.  It runs exactly when there is a file that can be used,   *)
(* with a promised base IRI that ends in "/" and, for the data-service, a   *)
(* store that is known; but the catalog-service may have ended since.       *)
SettingsInForce ==
    \A s \in {x \in Services : proc[x] # "down"} :
        LET env == setup[s].env
            path == ResolvePath(setup[s].fs, env)
            file == setup[s].fs[path]
            usable == path # NoPath /\ path \in DOMAIN setup[s].fs /\ file # Unusable
            runs ==
                /\ usable /\ Promised("iri_base", file, env) \in IRIBases
                /\ s = "data" => Promised("store", file, env) \in KnownStores
        IN
        /\ path = NoPath => cfg[s] = Defaults
        /\ usable =>
              /\ \A k \in DOMAIN Defaults \ {"beamlines"} : cfg[s][k] = Promised(k, file, env)
              /\ PromisedBeamlines(cfg[s]["beamlines"], file)
        /\ proc[s] \in {"fetching", "serving"} => runs
        /\ s = "data" /\ proc[s] = "ended" => ~runs

(* Of one moment.  The catalog-service lists of the records that FOXDEN had *)
(* filed under the beamline, in small or in capital letters, those whose    *)
(* DID names it or a beamline that begins as it does, every one that names  *)
(* the beamline itself among them.  The data-service lists of the records   *)
(* filed under the beamline as it was spelt as many as the limit allows.    *)
TrueOf(answer, records) ==
    LET b == answer.beamline
        filed(spellings) == {rec \in records : rec.beamlines \cap spellings # {}}
        asked == filed(IF answer.service = "catalog" THEN {Lower[b], Upper[b]} ELSE {b})
    IN
    /\ answer.listed \subseteq asked
    /\ answer.service = "catalog" =>
          /\ \A rec \in answer.listed :
                \E i \in DOMAIN rec.did :
                   rec.did[i].key \in BeamlineKeys /\ Lower[b] \in Prefixes[Lower[rec.did[i].val]]
          /\ \A rec \in asked : GraphIRI(rec.did).bl = Lower[b] => rec \in answer.listed
    /\ answer.service = "data" =>
          /\ Cardinality(answer.listed) <= Limit(answer)
          /\ Cardinality(answer.listed) < Limit(answer) => answer.listed = asked

(* The cause of a failure, outside the node and within the request: FOXDEN  *)
(* failed or hung, or did not accept, at one moment of it, the token that   *)
(* the operator supplied to the catalog-service at another, or that the     *)
(* data-service took when it started.                                       *)
HasCause(r) ==
    \/ \E view \in seen[r] : ~view.up
    \/ \E v, w \in seen[r] : world.secured /\ v.token \notin w.valid

Answers(r, codes) == Open(r) /\ req'[r].pc = "answered" /\ req'[r].code \in codes

(* A list is what FOXDEN had at one moment of the request; or it is the     *)
(* catalog's empty list, which then has a cause.                            *)
ListingsTrue ==
    [][\A r \in Requests :
        Answers(r, {200}) =>
            \/ \E view \in seen[r] : view.up /\ TrueOf(req'[r], view.records)
            \/ req'[r].service = "catalog" /\ req'[r].listed = {} /\ HasCause(r)]_vars

(* A 502, or an empty list that is not true, has a cause.                   *)
FailuresHaveCause ==
    [][\A r \in Requests :
        Answers(r, {200, 502}) =>
            \/ req'[r].code = 200 /\ \E view \in seen[r] : TrueOf(req'[r], view.records)
            \/ HasCause(r)]_vars

(* Nothing FOXDEN does ends a service that runs: unless it is started again,*)
(* only the catalog-service ends, and for want of a token; and no request   *)
(* is cut otherwise.                                                        *)
OutlivesFoxden ==
    [][ /\ \A s \in Services :
              proc[s] = "serving" /\ proc'[s] = "ended" =>
                  starts' # starts \/ (s = "catalog" /\ Supplied(s) = "")
        /\ \A r \in Requests :
              Open(r) /\ req'[r].pc = "cut" =>
                  proc'[req[r].service] = "ended" \/ starts' # starts ]_vars

(* Every request ends, and every fetching of a token, unless FOXDEN hangs,  *)
(* and always hangs again: with the data-service a request ends even then.  *)
EveryRequestEnds ==
    LET hanging == foxden.mode = "hanging" IN
    /\ \A r \in Requests : Open(r) ~> ~Open(r) \/ (req[r].service = "catalog" /\ hanging)
    /\ (proc["data"] = "fetching") ~> (proc["data"] # "fetching" \/ hanging)

(* config.go of foxden.token: "Leave empty if the FOXDEN instance does not  *)
(* require authentication.  In production, inject this via the FOXDEN_TOKEN *)
(* environment variable": neither ends the catalog-service.                 *)
TokenPromise ==
    proc["catalog"] = "ended" /\ Valid(cfg["catalog"]) =>
        cfg["catalog"]["token"] \notin Tokens \cup (IF world.secured THEN {} ELSE {""})

(* config.go of node.iri_base: "set it in fabric.yaml or via the            *)
(* NODE_IRI_BASE environment variable": a service that finds the variable   *)
(* and no file does not end.                                                *)
EnvironmentPromise ==
    \A s \in {x \in Services : proc[x] # "down"} :
        LET env == setup[s].env IN
        /\ ResolvePath(setup[s].fs, env) = NoPath
        /\ "NODE_IRI_BASE" \in DOMAIN env /\ env["NODE_IRI_BASE"] \in IRIBases
        => proc[s] # "ended"

(* datasets.go of a list: "DID contains /beamline=<id>/ in any case".       *)
ListingPromise ==
    \A r \in {q \in Requests : req[q].service = "catalog" /\ req[q].code = 200} :
        \A rec \in req[r].listed :
            \E i \in 1..(Len(rec.did) - 1) :
                /\ rec.did[i].key = "beamline"
                /\ Lower[rec.did[i].val] = Lower[req[r].beamline]

(* Weaker than each of the three, so that a state for which it fails breaks *)
(* all of them.                                                             *)
DocumentedAccess == TokenPromise \/ EnvironmentPromise \/ ListingPromise
=============================================================================
