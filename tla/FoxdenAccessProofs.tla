------------------------- MODULE FoxdenAccessProofs -------------------------
(***************************************************************************)
(* What holds of the two services that ask FOXDEN, for every set of files,  *)
(* environments, tokens, records, calls and back-ends, and however often    *)
(* FOXDEN changes and the services start.                                   *)
(***************************************************************************)
EXTENDS FoxdenAccess, TLAPS

-----------------------------------------------------------------------------
(* The configuration.                                                       *)

LEMMA MaxOfOverrides ==
    ASSUME NEW S, S \subseteq DOMAIN Overrides, NEW m \in S, \A i \in S : i <= m
    PROVE  Max(S) = m
<1>1. DOMAIN Overrides = 1..4
  BY DEF Overrides
<1>2. \A x \in S : (\A i \in S : x >= i) => x = m
  BY <1>1
<1>3. QED
  BY <1>1, <1>2 DEF Max

LEMMA OverridesAre ==
    /\ DOMAIN Overrides = 1..4
    /\ Overrides[1].name = "NODE_IRI_BASE" /\ Overrides[1].key = "iri_base"
    /\ Overrides[2].name = "FOXDEN_URL" /\ Overrides[2].key = "metadata_url"
    /\ Overrides[3].name = "FOXDEN_METADATA_URL" /\ Overrides[3].key = "metadata_url"
    /\ Overrides[4].name = "FOXDEN_TOKEN" /\ Overrides[4].key = "token"
BY DEF Overrides

(* The entries of Overrides that are in force for setting k.                *)
Entries(k, env) == {i \in DOMAIN Overrides : Overrides[i].key = k /\ Overrides[i].name \in DOMAIN env}

LEMMA EnvApplied ==
    ASSUME NEW settings, NEW env, NEW k \in DOMAIN settings
    PROVE  LET given(name) == name \in DOMAIN env
               value == ApplyEnv(settings, env)[k]
           IN
           value = IF k = "iri_base" /\ given("NODE_IRI_BASE") THEN env["NODE_IRI_BASE"]
                   ELSE IF k = "token" /\ given("FOXDEN_TOKEN") THEN env["FOXDEN_TOKEN"]
                   ELSE IF k = "metadata_url" /\ given("FOXDEN_METADATA_URL")
                   THEN env["FOXDEN_METADATA_URL"]
                   ELSE IF k = "metadata_url" /\ given("FOXDEN_URL") THEN env["FOXDEN_URL"]
                   ELSE settings[k]
<1> DEFINE entries == Entries(k, env)
           given(name) == name \in DOMAIN env
<1>1. ApplyEnv(settings, env)[k] =
          IF entries = {} THEN settings[k] ELSE env[Overrides[Max(entries)].name]
  BY DEF ApplyEnv, Entries
<1>2. entries \subseteq DOMAIN Overrides
  BY DEF Entries
<1>3. /\ 1 \in entries <=> k = "iri_base" /\ given("NODE_IRI_BASE")
      /\ 2 \in entries <=> k = "metadata_url" /\ given("FOXDEN_URL")
      /\ 3 \in entries <=> k = "metadata_url" /\ given("FOXDEN_METADATA_URL")
      /\ 4 \in entries <=> k = "token" /\ given("FOXDEN_TOKEN")
  BY OverridesAre DEF Entries
<1> HIDE DEF entries
<1>4. \A i \in entries : i \in {1, 2, 3, 4}
  BY <1>2, OverridesAre
<1>5. CASE 1 \in entries
  <2>1. Max(entries) = 1
    BY <1>2, <1>3, <1>4, <1>5, MaxOfOverrides
  <2>2. QED
    BY <1>1, <1>3, <1>5, <2>1, OverridesAre
<1>6. CASE 4 \in entries
  <2>1. Max(entries) = 4
    BY <1>2, <1>3, <1>4, <1>6, MaxOfOverrides
  <2>2. QED
    BY <1>1, <1>3, <1>6, <2>1, OverridesAre
<1>7. CASE 3 \in entries
  <2>1. Max(entries) = 3
    BY <1>2, <1>3, <1>4, <1>7, MaxOfOverrides
  <2>2. QED
    BY <1>1, <1>3, <1>7, <2>1, OverridesAre
<1>8. CASE 2 \in entries /\ 3 \notin entries
  <2>1. Max(entries) = 2
    BY <1>2, <1>3, <1>4, <1>8, MaxOfOverrides
  <2>2. QED
    BY <1>1, <1>3, <1>8, <2>1, OverridesAre
<1>9. CASE \A i \in 1..4 : i \notin entries
  <2>1. entries = {}
    BY <1>4, <1>9
  <2>2. QED
    BY <1>1, <1>3, <1>9, <2>1
<1>10. QED
  BY <1>4, <1>5, <1>6, <1>7, <1>8, <1>9

(* A file that Load() finds and can read and parse.                         *)
Usable(fs, env) ==
    /\ ResolvePath(fs, env) # NoPath
    /\ ResolvePath(fs, env) \in DOMAIN fs
    /\ fs[ResolvePath(fs, env)] # Unusable

FileOf(fs, env) == fs[ResolvePath(fs, env)]

LEMMA LoadCases ==
    ASSUME NEW fs, NEW env
    PROVE  /\ ResolvePath(fs, env) = NoPath => Load(fs, env) = Defaults
           /\ Usable(fs, env) => Load(fs, env) = ApplyEnv(Unmarshal(FileOf(fs, env)), env)
           /\ Valid(Load(fs, env)) => Usable(fs, env)
BY ConfigurationAssumption DEF Valid, Load, Usable, FileOf

LEMMA LoadedSettings ==
    ASSUME NEW fs, NEW env, Usable(fs, env), NEW k \in DOMAIN Defaults, k # "beamlines"
    PROVE  Load(fs, env)[k] = Promised(k, FileOf(fs, env), env)
<1> DEFINE file == FileOf(fs, env)
<1>1. Load(fs, env) = ApplyEnv(Unmarshal(file), env)
  BY LoadCases
<1> HIDE DEF file
<1>2. /\ k \in DOMAIN Unmarshal(file)
      /\ Unmarshal(file)[k] = IF k \in DOMAIN file.settings THEN file.settings[k] ELSE Defaults[k]
  BY DEF Unmarshal
<1>3. QED
  BY <1>1, <1>2, EnvApplied DEF file, Promised

LEMMA LoadedBeamlines ==
    ASSUME NEW fs, NEW env, Usable(fs, env), IsFile(FileOf(fs, env))
    PROVE  PromisedBeamlines(Load(fs, env)["beamlines"], FileOf(fs, env))
<1> DEFINE file == FileOf(fs, env)
           given == file.settings["beamlines"]
           default == Defaults["beamlines"]
<1>1. Load(fs, env) = ApplyEnv(Unmarshal(file), env)
  BY LoadCases
<1>2. IsFile(file)
  OBVIOUS
<1> HIDE DEF file
<1>3. "beamlines" \in DOMAIN Unmarshal(file)
  BY ConfigurationAssumption DEF Unmarshal
<1>4. Load(fs, env)["beamlines"] = Unmarshal(file)["beamlines"]
  BY <1>1, <1>3, EnvApplied
<1>5. CASE "beamlines" \notin DOMAIN file.settings
  BY <1>3, <1>4, <1>5 DEF Unmarshal, PromisedBeamlines, file
<1>6. CASE "beamlines" \in DOMAIN file.settings
  <2>1. Unmarshal(file)["beamlines"] = DecodeBeamlines(file)
    BY <1>3, <1>6 DEF Unmarshal
  <2>2. DOMAIN DecodeBeamlines(file) = DOMAIN given
    BY DEF DecodeBeamlines
  <2>3. ASSUME NEW i \in DOMAIN given
        PROVE  /\ DecodeBeamlines(file)[i].id = given[i].id
               /\ DecodeBeamlines(file)[i].label = PromisedLabel(i, file)
    <3>1. {"id", "label"} \subseteq DOMAIN given[i]
      BY <1>2, <1>6 DEF IsFile
    <3> DEFINE labelled == i \in DOMAIN default /\ given[i].label = ""
    <3>2. CASE file.format = "yaml"
      BY <3>2 DEF DecodeBeamlines, PromisedLabel
    <3>3. CASE file.format # "yaml" /\ ~labelled
      BY <3>3 DEF DecodeBeamlines, PromisedLabel
    <3>4. CASE file.format # "yaml" /\ labelled
      <4>1. DecodeBeamlines(file)[i] = [given[i] EXCEPT !.label = default[i].label]
        BY <3>4 DEF DecodeBeamlines
      <4>2. PromisedLabel(i, file) = default[i].label
        BY <3>4 DEF PromisedLabel
      <4>3. \A line, label : {"id", "label"} \subseteq DOMAIN line
                => LET new == [line EXCEPT !.label = label] IN new.id = line.id /\ new.label = label
        OBVIOUS
      <4> HIDE DEF default, given
      <4>4. QED
        BY <3>1, <4>1, <4>2, <4>3
    <3>5. QED
      BY <3>2, <3>3, <3>4
  <2> HIDE DEF given
  <2>4. QED
    BY <1>4, <1>6, <2>1, <2>2, <2>3 DEF given, file, PromisedBeamlines
<1>7. QED
  BY <1>5, <1>6

-----------------------------------------------------------------------------
(* The inductive invariant.  A service that was started has the             *)
(* configuration it found then, and runs only if that is valid, with a      *)
(* known back-end; an open request has been seen as it is now; and its      *)
(* token is one that was supplied since it arrived.                         *)

IsOver(f, domain) == f = [x \in domain |-> f[x]]
FieldNames == {"pc", "service", "beamline", "limit", "token", "code", "listed"}
IsRequest(q) == IsOver(q, FieldNames)

FoxdenType ==
    [mode : Modes, records : RecordSets, valid : SUBSET Tokens, issued : SUBSET Tokens]

Shapes ==
    /\ foxden \in FoxdenType
    /\ IsOver(req, Requests)
    /\ IsOver(setup, Services)
    /\ IsOver(cfg, Services)
    /\ \A r \in Requests : IsRequest(req[r])

Runs(s) == proc[s] \in {"fetching", "serving"}
Configured(s) == setup[s] \in world.setups /\ cfg[s] = Load(setup[s].fs, setup[s].env)
CanRun(s) == Valid(cfg[s]) /\ (s = "data" => cfg[s]["store"] \in KnownStores)

StartedWell ==
    \A s \in Services :
        /\ proc[s] # "down" => Configured(s)
        /\ Runs(s) => CanRun(s)
        /\ s = "data" /\ proc[s] = "ended" => ~CanRun(s)

IsCall(q, c) == q.service = c.service /\ q.beamline = c.beamline /\ q.limit = c.limit

RequestsSeen ==
    \A r \in Requests : Open(r) =>
        /\ \E c \in Calls : IsCall(req[r], c)
        /\ View(r) \in seen[r]
        /\ req[r].pc = "asking" => \E view \in seen[r] : view.token = req[r].token

IInv == TypeOK /\ Shapes /\ StartedWell /\ RequestsSeen

-----------------------------------------------------------------------------
(* What a step makes of a request.                                          *)

Quiet == UNCHANGED <<environment, processes>>

Arrives(r) ==
    /\ Quiet
    /\ req'[r].pc = "received" /\ req'[r].code = req[r].code
    /\ \E c \in Calls : IsCall(req'[r], c) /\ proc[c.service] = "serving"

IsCut(r) ==
    /\ Open(r) /\ req'[r].pc = "cut" /\ req'[r].code = req[r].code
    /\ proc'[req[r].service] = "ended" \/ starts' # starts

SameCall(r) == IsCall(req'[r], req[r])

Asks(r) ==
    /\ Quiet /\ SameCall(r)
    /\ Open(r) /\ req'[r].pc = "asking" /\ req'[r].code = req[r].code
    /\ req'[r].token = Supplied(req[r].service)

IsNotFound(r) ==
    /\ Quiet /\ SameCall(r)
    /\ Open(r) /\ req'[r].pc = "answered" /\ req'[r].code = 404

IsListed(r) ==
    /\ Quiet /\ SameCall(r)
    /\ Open(r) /\ req'[r].pc = "answered" /\ req'[r].code = 200
    /\ req'[r].listed \in ListsFor(req[r])
    /\ foxden.mode = "up"

Fails(r) ==
    /\ Quiet /\ SameCall(r)
    /\ req[r].pc = "asking" /\ req'[r].pc = "answered"
    /\ \/ req'[r].code = 502
       \/ req'[r].code = 200 /\ req[r].service = "catalog" /\ req'[r].listed = {}
    /\ foxden.mode # "up" \/ ~Accepts(req[r].token)

Lives(r) ==
    \/ req'[r] = req[r]
    \/ Arrives(r) \/ IsCut(r) \/ Asks(r) \/ IsNotFound(r) \/ IsListed(r) \/ Fails(r)

ReqIs == IsOver(req', Requests) /\ \A r \in Requests : IsRequest(req'[r])
AllLive == ReqIs /\ \A r \in Requests : Lives(r)

LEMMA UnchangedLives ==
    ASSUME IInv, UNCHANGED req
    PROVE  AllLive
BY DEF AllLive, ReqIs, Lives, IInv, Shapes

(* One request becomes q, and the others are what they were.                *)
Becomes(r, q) == req' = [req EXCEPT ![r] = q]

LEMMA OneLives ==
    ASSUME IInv, NEW r \in Requests, NEW q, IsRequest(q), Becomes(r, q),
           req'[r] = q => Lives(r)
    PROVE  AllLive
<1>1. IsOver(req, Requests) /\ \A x \in Requests : IsRequest(req[x])
  BY DEF IInv, Shapes
<1>2. IsOver(req', Requests) /\ req'[r] = q /\ \A x \in Requests \ {r} : req'[x] = req[x]
  BY <1>1 DEF Becomes, IsOver
<1>3. QED
  BY <1>1, <1>2 DEF AllLive, ReqIs, Lives

(* The assignments of the actions, as one new record.                       *)
Arrived(q, c) ==
    [q EXCEPT !.pc = "received", !.service = c.service, !.beamline = c.beamline, !.limit = c.limit]
Answered(q, code, listed) == [q EXCEPT !.pc = "answered", !.code = code, !.listed = listed]
Asked(q, token) == [q EXCEPT !.pc = "asking", !.token = token]
CutOff(q) == [q EXCEPT !.pc = "cut"]

LEMMA ArrivedFields ==
    ASSUME NEW q, IsRequest(q), NEW c
    PROVE  LET new == Arrived(q, c) IN
           /\ IsRequest(new)
           /\ new.pc = "received" /\ new.code = q.code
           /\ IsCall(new, c)
BY DEF IsRequest, IsOver, FieldNames, Arrived, IsCall

LEMMA AnsweredFields ==
    ASSUME NEW q, IsRequest(q), NEW code, NEW listed
    PROVE  LET new == Answered(q, code, listed) IN
           /\ IsRequest(new)
           /\ new.pc = "answered" /\ new.code = code /\ new.listed = listed
           /\ IsCall(new, q)
BY DEF IsRequest, IsOver, FieldNames, Answered, IsCall

LEMMA AskedFields ==
    ASSUME NEW q, IsRequest(q), NEW token
    PROVE  LET new == Asked(q, token) IN
           /\ IsRequest(new)
           /\ new.pc = "asking" /\ new.token = token /\ new.code = q.code
           /\ IsCall(new, q)
BY DEF IsRequest, IsOver, FieldNames, Asked, IsCall

LEMMA CutFields ==
    ASSUME NEW q, IsRequest(q)
    PROVE  LET new == CutOff(q) IN
           /\ IsRequest(new)
           /\ new.pc = "cut" /\ new.code = q.code /\ new.service = q.service
BY DEF IsRequest, IsOver, FieldNames, CutOff

LEMMA RequestFacts ==
    ASSUME IInv, NEW r \in Requests
    PROVE  /\ IsOver(req, Requests) /\ IsRequest(req[r])
           /\ req[r].pc \in {"idle", "received", "asking", "answered", "cut"}
           /\ req[r].code \in {0, 200, 404, 502}
           /\ Open(r) => req[r].service \in Services /\ proc[req[r].service] = "serving"
<1>1. IsOver(req, Requests) /\ IsRequest(req[r])
  BY DEF IInv, Shapes
<1>2. \A q \in Requests :
         /\ req[q].pc \in {"idle", "received", "asking", "answered", "cut"}
         /\ req[q].code \in {0, 200, 404, 502}
         /\ Open(q) => req[q].service \in Services /\ proc[req[q].service] = "serving"
  BY DEF IInv, TypeOK
<1>3. QED
  BY <1>1, <1>2

LEMMA ReceiveLives ==
    ASSUME IInv, NEW r \in Requests, NEW call \in Calls, Receive(r, call)
    PROVE  AllLive
<1> DEFINE new == Arrived(req[r], call)
<1>1. Becomes(r, new)
  <2>1. IsOver(req, Requests)
    BY RequestFacts
  <2>2. QED
    BY <2>1 DEF Receive, Becomes, IsOver, Arrived
<1>2. /\ IsRequest(new) /\ new.pc = "received" /\ new.code = req[r].code
      /\ IsCall(new, call)
  BY RequestFacts, ArrivedFields
<1>3. proc[call.service] = "serving" /\ Quiet
  BY DEF Receive, Quiet
<1> HIDE DEF new
<1>4. req'[r] = new => Lives(r)
  BY <1>2, <1>3 DEF Lives, Arrives
<1>5. QED
  BY <1>1, <1>2, <1>4, OneLives

LEMMA AnswerBecomes ==
    ASSUME IInv, NEW r \in Requests, NEW code, NEW listed, Answer(r, code, listed)
    PROVE  \E new :
             /\ Becomes(r, new) /\ IsRequest(new)
             /\ new.pc = "answered" /\ new.code = code /\ new.listed = listed
             /\ IsCall(new, req[r])
             /\ Quiet
<1> DEFINE new == Answered(req[r], code, listed)
<1>1. Becomes(r, new)
  <2>1. IsOver(req, Requests)
    BY RequestFacts
  <2>2. QED
    BY <2>1 DEF Answer, Becomes, IsOver, Answered
<1>2. /\ IsRequest(new)
      /\ new.pc = "answered" /\ new.code = code /\ new.listed = listed
      /\ IsCall(new, req[r])
  BY RequestFacts, AnsweredFields
<1>3. Quiet
  BY DEF Answer, Quiet
<1> HIDE DEF new
<1>4. QED
  BY <1>1, <1>2, <1>3

LEMMA AskBecomes ==
    ASSUME IInv, NEW r \in Requests, NEW token, Ask(r, token)
    PROVE  \E new :
             /\ Becomes(r, new) /\ IsRequest(new)
             /\ new.pc = "asking" /\ new.token = token /\ new.code = req[r].code
             /\ IsCall(new, req[r])
             /\ Quiet
<1> DEFINE new == Asked(req[r], token)
<1>1. Becomes(r, new)
  <2>1. IsOver(req, Requests)
    BY RequestFacts
  <2>2. QED
    BY <2>1 DEF Ask, Becomes, IsOver, Asked
<1>2. /\ IsRequest(new)
      /\ new.pc = "asking" /\ new.token = token /\ new.code = req[r].code
      /\ IsCall(new, req[r])
  BY RequestFacts, AskedFields
<1>3. Quiet
  BY DEF Ask, Quiet
<1> HIDE DEF new
<1>4. QED
  BY <1>1, <1>2, <1>3

LEMMA NotFoundLives ==
    ASSUME IInv, NEW r \in Requests, NotFound(r)
    PROVE  AllLive
<1>1. Open(r) /\ Answer(r, 404, {})
  BY DEF NotFound, Received, Open
<1>2. PICK new : /\ Becomes(r, new) /\ IsRequest(new)
                 /\ new.pc = "answered" /\ new.code = 404
                 /\ IsCall(new, req[r])
                 /\ Quiet
  BY <1>1, AnswerBecomes
<1>3. req'[r] = new => Lives(r)
  BY <1>1, <1>2 DEF Lives, IsNotFound, SameCall
<1>4. QED
  BY <1>2, <1>3, OneLives

LEMMA FoxdenListsLives ==
    ASSUME IInv, NEW r \in Requests, FoxdenLists(r)
    PROVE  AllLive
<1>1. PICK listed \in ListsFor(req[r]) : Answer(r, 200, listed)
  BY DEF FoxdenLists
<1>2. Open(r) /\ foxden.mode = "up"
  BY DEF FoxdenLists, Open
<1>3. PICK new : /\ Becomes(r, new) /\ IsRequest(new)
                 /\ new.pc = "answered" /\ new.code = 200 /\ new.listed = listed
                 /\ IsCall(new, req[r])
                 /\ Quiet
  BY <1>1, AnswerBecomes
<1>4. req'[r] = new => Lives(r)
  BY <1>2, <1>3 DEF Lives, IsListed, SameCall
<1>5. QED
  BY <1>3, <1>4, OneLives

LEMMA FailureLives ==
    ASSUME IInv, NEW r \in Requests, req[r].pc = "asking", Failure(r),
           foxden.mode # "up" \/ ~Accepts(req[r].token)
    PROVE  AllLive
<1> DEFINE code == IF req[r].service = "catalog" THEN 200 ELSE 502
<1>1. PICK new : /\ Becomes(r, new) /\ IsRequest(new)
                 /\ new.pc = "answered" /\ new.code = code /\ new.listed = {}
                 /\ IsCall(new, req[r])
                 /\ Quiet
  BY AnswerBecomes DEF Failure
<1>2. req'[r] = new => Lives(r)
  BY <1>1 DEF Lives, Fails, SameCall
<1>3. QED
  BY <1>1, <1>2, OneLives

LEMMA FoxdenErrorLives ==
    ASSUME IInv, NEW r \in Requests, FoxdenRefuses(r) \/ FoxdenFails(r) \/ TimesOut(r)
    PROVE  AllLive
BY FailureLives DEF FoxdenRefuses, FoxdenFails, TimesOut

(* The token that goes with a request is the one that is supplied then.     *)
LEMMA AskLives ==
    ASSUME IInv, NEW r \in Requests, Open(r), Ask(r, Supplied(req[r].service))
    PROVE  AllLive
<1> DEFINE token == Supplied(req[r].service)
<1> HIDE DEF token
<1>1. PICK new : /\ Becomes(r, new) /\ IsRequest(new)
                 /\ new.pc = "asking" /\ new.token = token /\ new.code = req[r].code
                 /\ IsCall(new, req[r])
                 /\ Quiet
  BY AskBecomes DEF token
<1>2. req'[r] = new => Lives(r)
  BY <1>1 DEF Lives, Asks, SameCall, token
<1>3. QED
  BY <1>1, <1>2, OneLives

LEMMA SuppliedToCatalog ==
    LET token == CatalogToken(cfg["catalog"]["token"]) IN
    token # NoToken => token = Supplied("catalog")
BY DEF CatalogToken, Supplied

LEMMA AsksLive ==
    ASSUME IInv, NEW r \in Requests, CatalogAsks(r) \/ DataAsks(r)
    PROVE  AllLive
<1>1. CASE CatalogAsks(r)
  <2>1. /\ Open(r) /\ req[r].service = "catalog"
        /\ Ask(r, CatalogToken(cfg["catalog"]["token"]))
        /\ CatalogToken(cfg["catalog"]["token"]) # NoToken
    BY <1>1 DEF CatalogAsks, Received, Open
  <2>2. Ask(r, Supplied(req[r].service))
    BY <2>1, SuppliedToCatalog
  <2>3. QED
    BY <2>1, <2>2, AskLives
<1>2. CASE DataAsks(r)
  <2>1. Open(r) /\ Ask(r, Supplied(req[r].service))
    BY <1>2 DEF DataAsks, Received, Open, Supplied
  <2>2. QED
    BY <2>1, AskLives
<1>3. QED
  BY <1>1, <1>2

(* No request of service s is open after the step.                          *)
NoneOpen(s) ==
    \A r \in Requests : ~(req'[r].pc \in {"received", "asking"} /\ req'[r].service = s)

LEMMA CutLives ==
    ASSUME IInv, NEW s \in Services, Cut(s), proc'[s] = "ended" \/ starts' # starts
    PROVE  AllLive /\ NoneOpen(s)
<1>1. ASSUME NEW r \in Requests
      PROVE  /\ req'[r] = IF Open(r) /\ req[r].service = s
                          THEN CutOff(req[r]) ELSE req[r]
             /\ IsRequest(req'[r]) /\ Lives(r)
             /\ ~(req'[r].pc \in {"received", "asking"} /\ req'[r].service = s)
  <2>1. req'[r] = IF Open(r) /\ req[r].service = s
                  THEN CutOff(req[r]) ELSE req[r]
    BY DEF Cut, CutOff
  <2>2. CASE Open(r) /\ req[r].service = s
    <3> DEFINE new == CutOff(req[r])
    <3>1. /\ IsRequest(new)
          /\ new.pc = "cut" /\ new.code = req[r].code /\ new.service = s
      BY <2>2, RequestFacts, CutFields
    <3>2. req'[r] = new
      BY <2>1, <2>2
    <3> HIDE DEF new
    <3>3. Lives(r)
      BY <2>2, <3>1, <3>2 DEF Lives, IsCut
    <3>4. QED
      BY <2>1, <3>1, <3>2, <3>3
  <2>3. CASE ~(Open(r) /\ req[r].service = s)
    BY <2>1, <2>3, RequestFacts DEF Lives, Open
  <2>4. QED
    BY <2>2, <2>3
<1>2. IsOver(req', Requests)
  BY DEF Cut, IsOver
<1>3. QED
  BY <1>1, <1>2 DEF AllLive, ReqIs, NoneOpen

-----------------------------------------------------------------------------
(* What a step makes of a service.                                          *)

States == {"down", "fetching", "serving", "ended"}

Keeps(s) == setup'[s] = setup[s] /\ cfg'[s] = cfg[s]

Stays(s) == proc'[s] = proc[s] /\ Keeps(s)

IsStarted(s) ==
    /\ setup'[s] \in world.setups /\ cfg'[s] = Load(setup'[s].fs, setup'[s].env)
    /\ \/ proc'[s] = "ended" /\ ~CanRun(s)'
       \/ /\ proc'[s] \in {"fetching", "serving"} /\ (s = "catalog" => proc'[s] = "serving")
          /\ CanRun(s)'
    /\ NoneOpen(s)
    /\ starts' # starts

Fetches(s) ==
    /\ s = "data" /\ Keeps(s)
    /\ proc[s] = "fetching" /\ proc'[s] = "serving"

Ends(s) ==
    /\ s = "catalog" /\ Keeps(s)
    /\ proc[s] = "serving" /\ proc'[s] = "ended"
    /\ Supplied(s) = ""
    /\ NoneOpen(s)

Proceeds(s) == Stays(s) \/ IsStarted(s) \/ Fetches(s) \/ Ends(s)

AllProceed ==
    /\ proc' \in [Services -> States]
    /\ IsOver(setup', Services) /\ IsOver(cfg', Services)
    /\ \A s \in Services : Proceeds(s)

WorldMoves ==
    /\ world' = world
    /\ foxden' \in FoxdenType /\ foxden'.valid \subseteq foxden'.issued
    /\ tokenText' \in Tokens \cup {""}
    /\ changes' \in 0..MaxChanges
    /\ starts' \in 0..MaxStarts

Moves == AllLive /\ AllProceed /\ WorldMoves

LEMMA ProcessFacts ==
    ASSUME IInv
    PROVE  /\ proc \in [Services -> States]
           /\ IsOver(setup, Services) /\ IsOver(cfg, Services)
           /\ world \in Worlds
           /\ foxden \in FoxdenType /\ foxden.valid \subseteq foxden.issued
           /\ tokenText \in Tokens \cup {""}
           /\ changes \in 0..MaxChanges
           /\ starts \in 0..MaxStarts
<1>1. IsOver(setup, Services) /\ IsOver(cfg, Services) /\ foxden \in FoxdenType
  BY DEF IInv, Shapes
<1>2. proc \in [Services -> States]
  BY DEF IInv, TypeOK, States
<1>3. /\ world \in Worlds
      /\ tokenText \in Tokens \cup {""} /\ foxden.valid \subseteq foxden.issued
      /\ changes \in 0..MaxChanges
      /\ starts \in 0..MaxStarts
  BY DEF IInv, TypeOK
<1>4. QED
  BY <1>1, <1>2, <1>3

LEMMA ProcessesStay ==
    ASSUME IInv, UNCHANGED <<proc, setup, cfg>>
    PROVE  AllProceed
<1>1. proc \in [Services -> States] /\ IsOver(setup, Services) /\ IsOver(cfg, Services)
  BY ProcessFacts
<1>2. QED
  BY <1>1 DEF AllProceed, Proceeds, Stays, Keeps

LEMMA WorldStays ==
    ASSUME IInv, UNCHANGED <<environment, starts>>
    PROVE  WorldMoves
BY ProcessFacts DEF WorldMoves, environment

LEMMA QuietMoves ==
    ASSUME IInv, AllLive, Quiet
    PROVE  Moves
BY ProcessesStay, WorldStays DEF Quiet, Moves, processes

LEMMA ReceiveMoves ==
    ASSUME IInv, NEW r \in Requests, NEW call \in Calls, Receive(r, call)
    PROVE  Moves
BY ReceiveLives, QuietMoves DEF Receive, Quiet

LEMMA HandlersMove ==
    ASSUME IInv, NEW r \in Requests, Serve(r), ~CatalogEnds(r)
    PROVE  Moves
<1>1. AllLive
  BY NotFoundLives, AsksLive, FoxdenListsLives, FoxdenErrorLives DEF Serve
<1>2. Quiet
  BY DEF Serve, NotFound, CatalogAsks, DataAsks, FoxdenLists, FoxdenRefuses, FoxdenFails,
         TimesOut, Failure, Answer, Ask, Quiet
<1>3. QED
  BY <1>1, <1>2, QuietMoves

LEMMA CatalogEndsMoves ==
    ASSUME IInv, NEW r \in Requests, CatalogEnds(r)
    PROVE  Moves
<1>1. /\ req[r].pc = "received" /\ req[r].service = "catalog"
      /\ CatalogToken(cfg["catalog"]["token"]) = NoToken
      /\ proc' = [proc EXCEPT !["catalog"] = "ended"]
      /\ Cut("catalog")
      /\ UNCHANGED <<environment, setup, cfg, held, starts>>
  BY DEF CatalogEnds, Received
<1>2. proc["catalog"] = "serving"
  BY <1>1, RequestFacts DEF Open
<1>3. "catalog" \in Services
  BY DEF Services
<1>4. proc \in [Services -> States] /\ IsOver(setup, Services) /\ IsOver(cfg, Services)
  BY ProcessFacts
<1>5. proc'["catalog"] = "ended" /\ proc' \in [Services -> States]
  BY <1>1, <1>3, <1>4 DEF States
<1>6. AllLive /\ NoneOpen("catalog")
  BY <1>1, <1>3, <1>5, CutLives
<1>7. Supplied("catalog") = ""
  <2>1. \A n \in DOMAIN setup["catalog"].env : setup["catalog"].env[n] # NoToken
    <3>1. setup["catalog"] \in world.setups
      BY <1>2, <1>3 DEF IInv, StartedWell, Configured
    <3>2. QED
      BY <3>1, ProcessFacts, FoxdenAccessAssumption
  <2>2. NoToken # "" /\ NoToken \notin Tokens /\ tokenText \in Tokens \cup {""}
    BY ProcessFacts, FoxdenAccessAssumption
  <2>3. QED
    BY <1>1, <2>1, <2>2 DEF CatalogToken, Supplied
<1>8. Ends("catalog")
  BY <1>1, <1>2, <1>5, <1>6, <1>7 DEF Ends, Keeps
<1>9. \A s \in Services : s # "catalog" => Stays(s)
  BY <1>1, <1>4 DEF Stays, Keeps
<1>10. AllProceed
  BY <1>1, <1>4, <1>5, <1>8, <1>9 DEF AllProceed, Proceeds
<1>11. QED
  BY <1>1, <1>6, <1>10, WorldStays DEF Moves

LEMMA StartMoves ==
    ASSUME IInv, NEW s \in Services, Start(s)
    PROVE  Moves
<1>1. PICK found \in world.setups : StartWith(s, found)
  BY DEF Start
<1> DEFINE loaded == Load(found.fs, found.env)
           able == Valid(loaded) /\ (s = "data" => loaded["store"] \in KnownStores)
<1>2. /\ starts < MaxStarts /\ starts' = starts + 1
      /\ setup' = [setup EXCEPT ![s] = found]
      /\ cfg' = [cfg EXCEPT ![s] = loaded]
      /\ proc' = [proc EXCEPT ![s] =
             IF ~Valid(loaded) \/ (s = "data" /\ loaded["store"] \notin KnownStores) THEN "ended"
             ELSE IF s = "data" THEN "fetching" ELSE "serving"]
      /\ Cut(s)
      /\ UNCHANGED <<environment, held>>
  BY <1>1 DEF StartWith
<1> HIDE DEF loaded
<1>3. proc \in [Services -> States] /\ IsOver(setup, Services) /\ IsOver(cfg, Services)
  BY ProcessFacts
<1>4. starts' # starts /\ starts' \in 0..MaxStarts
  <2>1. starts \in 0..MaxStarts /\ MaxStarts \in Nat
    BY ProcessFacts, FoxdenAccessAssumption
  <2>2. QED
    BY <1>2, <2>1
<1>5. AllLive /\ NoneOpen(s)
  BY <1>2, <1>4, CutLives
<1>6. proc' \in [Services -> States] /\ \A x \in Services \ {s} : proc'[x] = proc[x]
  BY <1>2, <1>3 DEF States
<1>7. proc'[s] = IF ~able THEN "ended" ELSE IF s = "data" THEN "fetching" ELSE "serving"
  BY <1>2, <1>3
<1>8. /\ IsOver(cfg', Services) /\ cfg'[s] = loaded
      /\ \A x \in Services \ {s} : cfg'[x] = cfg[x]
  BY <1>2, <1>3 DEF IsOver
<1>9. /\ IsOver(setup', Services) /\ setup'[s] = found
      /\ \A x \in Services \ {s} : setup'[x] = setup[x]
  BY <1>2, <1>3 DEF IsOver
<1>10. CanRun(s)' <=> able
  BY <1>8 DEF CanRun
<1>11. IsStarted(s)
  BY <1>4, <1>5, <1>7, <1>8, <1>9, <1>10 DEF IsStarted, loaded
<1>12. AllProceed
  BY <1>6, <1>8, <1>9, <1>11 DEF AllProceed, Proceeds, Stays, Keeps
<1>13. WorldMoves
  BY <1>2, <1>4, ProcessFacts DEF WorldMoves, environment
<1>14. QED
  BY <1>5, <1>12, <1>13 DEF Moves

LEMMA ServingNow ==
    ASSUME IInv, proc["data"] = "fetching",
           proc' = [proc EXCEPT !["data"] = "serving"], UNCHANGED <<setup, cfg>>
    PROVE  AllProceed
<1>1. proc \in [Services -> States] /\ IsOver(setup, Services) /\ IsOver(cfg, Services)
  BY ProcessFacts
<1>2. "data" \in Services
  BY DEF Services
<1>3. /\ proc' \in [Services -> States] /\ proc'["data"] = "serving"
      /\ \A s \in Services \ {"data"} : proc'[s] = proc[s]
  BY <1>1, <1>2 DEF States
<1>4. QED
  BY <1>1, <1>3 DEF AllProceed, Proceeds, Stays, Keeps, Fetches

LEMMA FetchTokenMoves ==
    ASSUME IInv, FetchToken
    PROVE  Moves
<1>1. CASE TokenNotIssued
  <2>1. AllProceed
    BY <1>1, ServingNow DEF TokenNotIssued
  <2>2. QED
    BY <1>1, <2>1, UnchangedLives, WorldStays DEF TokenNotIssued, Moves
<1>2. ASSUME NEW t \in Tokens, TokenIssued(t)
      PROVE  Moves
  <2>1. AllProceed
    BY <1>2, ServingNow DEF TokenIssued
  <2>2. foxden' \in FoxdenType /\ foxden'.valid \subseteq foxden'.issued
    BY <1>2, ProcessFacts DEF TokenIssued, FoxdenType
  <2>3. WorldMoves
    BY <1>2, <2>2, ProcessFacts DEF TokenIssued, WorldMoves
  <2>4. QED
    BY <1>2, <2>1, <2>3, UnchangedLives DEF TokenIssued, Moves
<1>3. QED
  BY <1>1, <1>2 DEF FetchToken

LEMMA ChangeCounts ==
    ASSUME IInv, Change
    PROVE  changes' \in 0..MaxChanges
<1>1. changes \in 0..MaxChanges /\ MaxChanges \in Nat
  BY ProcessFacts, FoxdenAccessAssumption
<1>2. changes < MaxChanges /\ changes' = changes + 1
  BY DEF Change
<1>3. QED
  BY <1>1, <1>2

LEMMA ChangeMoves ==
    ASSUME IInv, Change, foxden' \in FoxdenType, foxden'.valid \subseteq foxden'.issued,
           tokenText' \in Tokens \cup {""}
    PROVE  Moves
<1>1. changes' \in 0..MaxChanges
  BY ChangeCounts
<1>2. WorldMoves
  BY <1>1, ProcessFacts DEF Change, WorldMoves, processes
<1>3. QED
  BY <1>2, UnchangedLives, ProcessesStay DEF Change, Moves, processes

LEMMA EnvironmentMoves ==
    ASSUME IInv, ModeChanges \/ RecordsChange \/ TokenExpires \/ TokenFileRenewed
    PROVE  Moves
<1>1. Change
  BY DEF ModeChanges, RecordsChange, TokenExpires, TokenFileRenewed
<1>2. foxden \in FoxdenType /\ foxden.valid \subseteq foxden.issued /\ tokenText \in Tokens \cup {""}
  BY ProcessFacts
<1>3. CASE ModeChanges
  <2>1. foxden' \in FoxdenType /\ foxden'.valid \subseteq foxden'.issued
    BY <1>2, <1>3 DEF ModeChanges, FoxdenType
  <2>2. QED
    BY <1>1, <1>2, <1>3, <2>1, ChangeMoves DEF ModeChanges
<1>4. CASE RecordsChange
  <2>1. foxden' \in FoxdenType /\ foxden'.valid \subseteq foxden'.issued
    BY <1>2, <1>4 DEF RecordsChange, FoxdenType
  <2>2. QED
    BY <1>1, <1>2, <1>4, <2>1, ChangeMoves DEF RecordsChange
<1>5. CASE TokenExpires
  <2>1. foxden' \in FoxdenType /\ foxden'.valid \subseteq foxden'.issued
    BY <1>2, <1>5 DEF TokenExpires, FoxdenType
  <2>2. QED
    BY <1>1, <1>2, <1>5, <2>1, ChangeMoves DEF TokenExpires
<1>6. CASE TokenFileRenewed
  <2>1. PICK t \in Tokens :
            /\ foxden' = [foxden EXCEPT !.valid = @ \cup {t}, !.issued = @ \cup {t}]
            /\ tokenText' = t
    BY <1>6 DEF TokenFileRenewed
  <2>2. foxden' \in FoxdenType /\ foxden'.valid \subseteq foxden'.issued
    BY <1>2, <2>1 DEF FoxdenType
  <2>3. QED
    BY <1>1, <2>1, <2>2, ChangeMoves
<1>7. QED
  BY <1>3, <1>4, <1>5, <1>6

LEMMA NextMoves ==
    ASSUME IInv, Next
    PROVE  Moves
<1>1. ASSUME NEW r \in Requests, Serve(r)
      PROVE  Moves
  BY <1>1, HandlersMove, CatalogEndsMoves
<1>2. QED
  BY <1>1, StartMoves, FetchTokenMoves, ReceiveMoves, EnvironmentMoves DEF Next

-----------------------------------------------------------------------------
(* The invariant is inductive.                                              *)

LEMMA InvInit == Init => IInv
<1> SUFFICES ASSUME Init PROVE IInv
  OBVIOUS
<1>1. TypeOK
  <2>1. /\ world \in Worlds /\ tokenText \in Tokens \cup {""}
        /\ world.issued \subseteq Tokens
    BY FoxdenAccessAssumption DEF Init
  <2>2. /\ proc \in [Services -> {"down", "fetching", "serving", "ended"}]
        /\ proc["catalog"] # "fetching"
        /\ \A s \in Services : proc[s] = "down"
    BY DEF Init, Services
  <2>3. foxden.mode \in Modes /\ foxden.valid \subseteq foxden.issued /\ foxden.issued \subseteq Tokens
    BY <2>1 DEF Init, Modes
  <2>4. \A r \in Requests : req[r].pc = "idle" /\ req[r].code = 0
    BY DEF Init, Idle
  <2>5. changes \in 0..MaxChanges /\ starts \in 0..MaxStarts
    <3>1. MaxChanges \in Nat /\ MaxStarts \in Nat
      BY FoxdenAccessAssumption
    <3>2. changes = 0 /\ starts = 0
      BY DEF Init
    <3>3. QED
      BY <3>1, <3>2
  <2>6. QED
    BY <2>1, <2>2, <2>3, <2>4, <2>5 DEF TypeOK, Open
<1>2. Shapes
  <2>1. world.records \in RecordSets /\ world.issued \subseteq Tokens
    BY FoxdenAccessAssumption DEF Init
  <2>2. foxden \in FoxdenType
    BY <2>1 DEF Init, FoxdenType, Modes
  <2>3. IsOver(req, Requests) /\ IsOver(setup, Services) /\ IsOver(cfg, Services)
    BY DEF Init, IsOver
  <2>4. \A r \in Requests : IsRequest(req[r])
    BY DEF Init, Idle, IsRequest, IsOver, FieldNames
  <2>5. QED
    BY <2>2, <2>3, <2>4 DEF Shapes
<1>3. StartedWell
  BY DEF Init, StartedWell, Runs
<1>4. RequestsSeen
  BY DEF Init, RequestsSeen, Open, Idle
<1>5. QED
  BY <1>1, <1>2, <1>3, <1>4 DEF IInv

(* An open request is of a service that still runs.                         *)
LEMMA OpenServed ==
    ASSUME IInv, Moves, NEW r \in Requests, Open(r)'
    PROVE  req'[r].service \in Services /\ proc'[req'[r].service] = "serving"
<1>1. Lives(r) /\ req'[r].pc \in {"received", "asking"}
  BY DEF Moves, AllLive, Open
<1>2. CASE req'[r] = req[r]
  <2> DEFINE s == req[r].service
  <2>1. s \in Services /\ proc[s] = "serving"
    BY <1>1, <1>2, RequestFacts DEF Open
  <2>2. ~NoneOpen(s)
    BY <1>1, <1>2 DEF NoneOpen
  <2>3. Proceeds(s)
    BY <2>1 DEF Moves, AllProceed
  <2>4. QED
    BY <1>2, <2>1, <2>2, <2>3 DEF Proceeds, Stays, IsStarted, Fetches, Ends
<1>3. CASE Arrives(r)
  <2>1. PICK c \in Calls : c.service = req'[r].service /\ proc[c.service] = "serving"
    BY <1>3 DEF Arrives, IsCall
  <2>2. proc' = proc
    BY <1>3 DEF Arrives, Quiet, processes
  <2>3. QED
    BY <2>1, <2>2, FoxdenAccessAssumption
<1>4. CASE Asks(r)
  BY <1>4, RequestFacts DEF Asks, SameCall, IsCall, Quiet, processes
<1>5. QED
  BY <1>1, <1>2, <1>3, <1>4 DEF Lives, IsCut, IsNotFound, IsListed, Fails

LEMMA RequestTyped ==
    ASSUME IInv, Moves, NEW r \in Requests
    PROVE  /\ req'[r].pc \in {"idle", "received", "asking", "answered", "cut"}
           /\ req'[r].code \in {0, 200, 404, 502}
<1>1. /\ req[r].pc \in {"idle", "received", "asking", "answered", "cut"}
      /\ req[r].code \in {0, 200, 404, 502}
  BY RequestFacts
<1>2. Lives(r)
  BY DEF Moves, AllLive
<1>3. QED
  BY <1>1, <1>2 DEF Lives, Arrives, IsCut, Asks, IsNotFound, IsListed, Fails

LEMMA StillStartedWell ==
    ASSUME IInv, Moves
    PROVE  StartedWell'
<1> SUFFICES ASSUME NEW s \in Services
             PROVE  /\ proc'[s] # "down" => Configured(s)'
                    /\ Runs(s)' => CanRun(s)'
                    /\ s = "data" /\ proc'[s] = "ended" => ~CanRun(s)'
  BY DEF StartedWell
<1>1. Proceeds(s) /\ world' = world
  BY DEF Moves, AllProceed, WorldMoves
<1>2. /\ proc[s] # "down" => Configured(s)
      /\ Runs(s) => CanRun(s)
      /\ s = "data" /\ proc[s] = "ended" => ~CanRun(s)
  BY DEF IInv, StartedWell
<1>3. CASE Keeps(s)
  <2>1. (Configured(s)' <=> Configured(s)) /\ (CanRun(s)' <=> CanRun(s))
    BY <1>1, <1>3 DEF Keeps, Configured, CanRun
  <2>2. CASE Stays(s)
    BY <1>2, <2>1, <2>2 DEF Stays, Runs
  <2>3. CASE Fetches(s) \/ Ends(s)
    BY <1>2, <2>1, <2>3 DEF Fetches, Ends, Runs
  <2>4. CASE IsStarted(s)
    BY <1>1, <2>4 DEF IsStarted, Configured, Runs
  <2>5. QED
    BY <1>1, <2>2, <2>3, <2>4 DEF Proceeds
<1>4. CASE IsStarted(s)
  BY <1>1, <1>4 DEF IsStarted, Configured, Runs
<1>5. QED
  BY <1>1, <1>3, <1>4 DEF Proceeds, Stays, Fetches, Ends

LEMMA StillTyped ==
    ASSUME IInv, Moves
    PROVE  TypeOK'
<1>1. /\ world' \in Worlds /\ tokenText' \in Tokens \cup {""}
      /\ changes' \in 0..MaxChanges /\ starts' \in 0..MaxStarts
  BY ProcessFacts DEF Moves, WorldMoves
<1>2. foxden'.mode \in Modes /\ foxden'.valid \subseteq foxden'.issued /\ foxden'.issued \subseteq Tokens
  BY DEF Moves, WorldMoves, FoxdenType
<1>3. proc' \in [Services -> {"down", "fetching", "serving", "ended"}]
  BY DEF Moves, AllProceed, States
<1>4. proc'["catalog"] # "fetching"
  <2>1. "catalog" \in Services /\ proc["catalog"] # "fetching"
    BY DEF Services, IInv, TypeOK
  <2>2. Proceeds("catalog")
    BY <2>1 DEF Moves, AllProceed
  <2>3. QED
    BY <2>1, <2>2 DEF Proceeds, Stays, IsStarted, Fetches, Ends
<1>5. \A s \in Services : proc'[s] \in {"fetching", "serving"} => Valid(cfg'[s])
  BY StillStartedWell DEF StartedWell, Runs, CanRun
<1>6. \A r \in Requests :
        /\ req'[r].pc \in {"idle", "received", "asking", "answered", "cut"}
        /\ req'[r].code \in {0, 200, 404, 502}
        /\ Open(r)' => req'[r].service \in Services /\ proc'[req'[r].service] = "serving"
  BY RequestTyped, OpenServed
<1>7. QED
  BY <1>1, <1>2, <1>3, <1>4, <1>5, <1>6 DEF TypeOK

LEMMA StillSeen ==
    ASSUME IInv, Moves, Observe
    PROVE  RequestsSeen'
<1> SUFFICES ASSUME NEW r \in Requests, Open(r)'
             PROVE  /\ \E c \in Calls : IsCall(req'[r], c)
                    /\ View(r)' \in seen'[r]
                    /\ req'[r].pc = "asking" => \E view \in seen'[r] : view.token = req'[r].token
  BY DEF RequestsSeen
<1>1. seen'[r] = seen[r] \cup {View(r)'}
  BY DEF Observe
<1>2. Lives(r) /\ req'[r].pc \in {"received", "asking"}
  BY DEF Moves, AllLive, Open
<1>3. Open(r) => /\ \E c \in Calls : IsCall(req[r], c)
                 /\ req[r].pc = "asking" => \E view \in seen[r] : view.token = req[r].token
  BY DEF IInv, RequestsSeen
<1>4. CASE req'[r] = req[r]
  BY <1>1, <1>2, <1>3, <1>4 DEF Open
<1>5. CASE Arrives(r)
  BY <1>1, <1>5 DEF Arrives
<1>6. CASE Asks(r)
  <2>1. View(r)'.token = req'[r].token
    BY <1>6 DEF Asks, SameCall, IsCall, Quiet, environment, processes, View, Supplied
  <2>2. QED
    BY <1>1, <1>3, <1>6, <2>1 DEF Asks, SameCall, IsCall
<1>7. QED
  BY <1>2, <1>4, <1>5, <1>6 DEF Lives, IsCut, IsNotFound, IsListed, Fails

LEMMA InvNext ==
    ASSUME IInv, [Next]_vars
    PROVE  IInv'
<1>1. CASE Next
  <2>1. Moves /\ Observe
    BY <1>1, NextMoves DEF Next
  <2>2. Shapes'
    BY <2>1 DEF Moves, AllLive, ReqIs, AllProceed, WorldMoves, Shapes
  <2>3. QED
    BY <2>1, <2>2, StillTyped, StillStartedWell, StillSeen DEF IInv
<1>2. CASE UNCHANGED vars
  <2>1. UNCHANGED <<world, tokenText, proc, setup, cfg, held, foxden, changes, starts, req, seen>>
    BY <1>2 DEF vars, environment, processes
  <2>2. Moves
    BY <2>1, UnchangedLives, QuietMoves DEF Quiet, environment, processes
  <2>3. Shapes'
    BY <2>1 DEF IInv, Shapes
  <2>4. RequestsSeen'
    BY <2>1 DEF IInv, RequestsSeen, Open, View, Supplied
  <2>5. QED
    BY <2>2, <2>3, <2>4, StillTyped, StillStartedWell DEF IInv
<1>3. QED
  BY <1>1, <1>2

LEMMA Invariance == Spec => []IInv
<1>1. Init => IInv
  BY InvInit
<1>2. IInv /\ [Next]_vars => IInv'
  BY InvNext
<1>3. QED
  BY <1>1, <1>2, PTL DEF Spec

-----------------------------------------------------------------------------
(* The lists.                                                               *)

LEMMA ElementOf ==
    ASSUME NEW S, NEW list \in Seq(S), NEW i \in DOMAIN list
    PROVE  list[i] \in S
OBVIOUS

LEMMA FirstSegmentUnique ==
    ASSUME NEW did \in Did, NEW i \in DOMAIN did, NEW j \in DOMAIN did,
           IsFirstSegment(did, i), IsFirstSegment(did, j)
    PROVE  i = j
<1>1. i \in Nat \ {0} /\ j \in Nat \ {0}
  BY DEF Did
<1>2. (i < j => i \in 1..(j - 1)) /\ (j < i => j \in 1..(i - 1))
  BY <1>1
<1>3. ~(i < j) /\ ~(j < i)
  BY <1>2 DEF IsFirstSegment
<1>4. QED
  BY <1>1, <1>3

(* The data-service's graph is one of a beamline only when the DID names it.*)
LEMMA GraphNamesBeamline ==
    ASSUME NEW did \in Did, NEW b \in Names \ {""}, GraphIRI(did).bl = b
    PROVE  \E i \in DOMAIN did :
             did[i].key = "beamline" /\ did[i].val \in Names /\ Lower[did[i].val] = b
<1>1. Lower[BeamlineSegment(did)] = b
  BY DEF GraphIRI
<1>2. BeamlineSegment(did) # ""
  BY <1>1, FoxdenAccessAssumption
<1>3. PICK i \in DOMAIN did : IsFirstSegment(did, i) /\ did[i].key = "beamline"
  BY <1>2 DEF BeamlineSegment
<1> DEFINE first == CHOOSE j \in DOMAIN did : IsFirstSegment(did, j)
<1>4. first \in DOMAIN did /\ IsFirstSegment(did, first)
  BY <1>3
<1>5. first = i
  BY <1>3, <1>4, FirstSegmentUnique
<1>6. BeamlineSegment(did) = did[i].val
  BY <1>3, <1>5 DEF BeamlineSegment
<1>7. did[i].val \in Names
  <2>1. did[i] \in Part
    BY ElementOf DEF Did
  <2>2. QED
    BY <2>1 DEF Part
<1>8. QED
  BY <1>1, <1>3, <1>6, <1>7

LEMMA CallFacts ==
    ASSUME NEW c \in Calls
    PROVE  LET b == c.beamline IN
           /\ c.service \in Services
           /\ b \in Names \ {""} /\ Lower[b] \in Names
           /\ Lower[b] \in Prefixes[Lower[b]] /\ Lower[b] # ""
           /\ c.limit \in Nat
<1>1. /\ c.service \in Services /\ c.limit \in Nat
      /\ c.beamline \in Names \ {""} /\ Lower[c.beamline] \in Names \ {""}
  BY FoxdenAccessAssumption
<1>2. Lower[c.beamline] \in Prefixes[Lower[c.beamline]]
  BY <1>1, FoxdenAccessAssumption
<1>3. QED
  BY <1>1, <1>2

(* Whatever list FOXDEN gives, the service lists what is true at the moment.*)
LEMMA ListedTrue ==
    ASSUME NEW c \in Calls, NEW q, NEW answer, foxden.records \in RecordSets,
           IsCall(q, c), IsCall(answer, c), answer.listed \in ListsFor(q)
    PROVE  TrueOf(answer, foxden.records)
<1> DEFINE b == c.beamline
<1>1. /\ q.service = c.service /\ q.beamline = b
      /\ answer.service = c.service /\ answer.beamline = b
      /\ Limit(q) = Limit(answer)
  BY DEF IsCall, Limit
<1> HIDE DEF b
<1>2. CASE c.service = "catalog"
  <2> DEFINE asked == {rec \in foxden.records : rec.beamlines \cap {Lower[b], Upper[b]} # {}}
  <2>1. answer.listed = {rec \in asked : NamesBeamline(rec.did, b)}
    BY <1>1, <1>2 DEF ListsFor, Filed
  <2>2. ASSUME NEW rec \in asked, GraphIRI(rec.did).bl = Lower[b]
        PROVE  rec \in answer.listed
    <3>1. rec.did \in Did
      BY FoxdenAccessAssumption
    <3>2. Lower[b] \in Names \ {""} /\ Lower[b] \in Prefixes[Lower[b]]
      BY CallFacts DEF b
    <3>3. PICK i \in DOMAIN rec.did :
              rec.did[i].key = "beamline" /\ Lower[rec.did[i].val] = Lower[b]
      BY <2>2, <3>1, <3>2, GraphNamesBeamline
    <3>4. NamesBeamline(rec.did, b)
      BY <3>2, <3>3, FoxdenAccessAssumption DEF NamesBeamline
    <3>5. QED
      BY <2>1, <3>4
  <2>3. ASSUME NEW rec \in answer.listed
        PROVE  \E i \in DOMAIN rec.did :
                 rec.did[i].key \in BeamlineKeys /\ Lower[b] \in Prefixes[Lower[rec.did[i].val]]
    BY <2>1, <2>3 DEF NamesBeamline
  <2>4. answer.listed \subseteq asked
    BY <2>1
  <2>5. QED
    BY <1>1, <1>2, <2>2, <2>3, <2>4 DEF TrueOf
<1>3. CASE c.service = "data"
  <2> DEFINE asked == {rec \in foxden.records : rec.beamlines \cap {b} # {}}
             limit == Limit(answer)
  <2>1. limit \in Nat
    BY <1>1, CallFacts, FoxdenAccessAssumption DEF Limit, IsCall
  <2>2. \/ Cardinality(asked) <= limit /\ answer.listed = asked
        \/ answer.listed \subseteq asked /\ Cardinality(answer.listed) = limit
    BY <1>1, <1>3 DEF ListsFor, Filed
  <2> HIDE DEF asked, limit
  <2>3. /\ answer.listed \subseteq asked
        /\ Cardinality(answer.listed) <= limit
        /\ Cardinality(answer.listed) < limit => answer.listed = asked
    BY <2>1, <2>2
  <2>4. QED
    BY <1>1, <1>3, <2>3 DEF TrueOf, asked, limit
<1>4. QED
  BY <1>2, <1>3, CallFacts DEF Services

(* An open request has been seen with what FOXDEN is now.                   *)
LEMMA NowSeen ==
    ASSUME IInv, NEW r \in Requests, Open(r)
    PROVE  \E view \in seen[r] :
             /\ view.records = foxden.records /\ view.up = (foxden.mode = "up")
             /\ view.valid = foxden.valid
BY DEF IInv, RequestsSeen, View

LEMMA ListedIsTrue ==
    ASSUME IInv, NEW r \in Requests, IsListed(r)
    PROVE  \E view \in seen[r] : view.up /\ TrueOf(req'[r], view.records)
<1>1. PICK c \in Calls : IsCall(req[r], c)
  BY DEF IsListed, IInv, RequestsSeen
<1>2. foxden.records \in RecordSets
  BY ProcessFacts DEF FoxdenType
<1>3. IsCall(req'[r], c) /\ req'[r].listed \in ListsFor(req[r])
  BY <1>1 DEF IsListed, SameCall, IsCall
<1>4. TrueOf(req'[r], foxden.records)
  BY <1>1, <1>2, <1>3, ListedTrue
<1>5. QED
  BY <1>4, NowSeen DEF IsListed

(* What a step that answers a request does.                                 *)
LEMMA HowAnswered ==
    ASSUME IInv, [Next]_vars, NEW r \in Requests, Open(r), req'[r].pc = "answered"
    PROVE  IsNotFound(r) \/ IsListed(r) \/ Fails(r)
<1>1. req'[r] # req[r]
  BY DEF Open
<1>2. Next
  BY <1>1 DEF vars
<1>3. Lives(r)
  BY <1>2, NextMoves DEF Moves, AllLive
<1>4. QED
  BY <1>1, <1>3 DEF Lives, Arrives, IsCut, Asks

(* A failure has been seen with its cause.                                  *)
LEMMA FailsWithCause ==
    ASSUME IInv, NEW r \in Requests, Fails(r)
    PROVE  HasCause(r)
<1>1. req[r].pc = "asking" /\ Open(r)
  BY DEF Fails, Open
<1>2. PICK w \in seen[r] : w.up = (foxden.mode = "up") /\ w.valid = foxden.valid
  BY <1>1, NowSeen
<1>3. CASE foxden.mode # "up"
  BY <1>2, <1>3 DEF HasCause
<1>4. CASE ~Accepts(req[r].token)
  <2>1. PICK v \in seen[r] : v.token = req[r].token
    BY <1>1 DEF IInv, RequestsSeen
  <2>2. world.secured /\ v.token \notin w.valid
    BY <1>2, <1>4, <2>1 DEF Accepts
  <2>3. QED
    BY <2>2 DEF HasCause
<1>5. QED
  BY <1>3, <1>4 DEF Fails

-----------------------------------------------------------------------------
(* The theorems.                                                            *)

(* Every state is of its type: a token is only fetched for the data-service,*)
(* a service that runs has a configuration Validate() accepts, FOXDEN takes *)
(* only tokens it has issued, and an open request is of a service that runs.*)
THEOREM TypeCorrect == Spec => []TypeOK
<1>1. IInv => TypeOK
  BY DEF IInv
<1>2. QED
  BY <1>1, Invariance, PTL

(* The settings in force are the promised ones: a variable that is set wins,*)
(* FOXDEN_METADATA_URL over FOXDEN_URL, then the file, then the default;    *)
(* with the beamlines and labels of the file, whatever the YAML or JSON     *)
(* decoder merges with the defaults.  Without a file they are the defaults. *)
(* And a service runs only with a file it can use, a base IRI that ends in  *)
(* "/" and a known back-end; the data-service always runs then.             *)
THEOREM SettingsAreInForce == Spec => []SettingsInForce
<1>1. ASSUME IInv PROVE SettingsInForce
  <2> SUFFICES ASSUME NEW s \in Services, proc[s] # "down"
               PROVE  LET env == setup[s].env
                          path == ResolvePath(setup[s].fs, env)
                          file == setup[s].fs[path]
                          usable == path # NoPath /\ path \in DOMAIN setup[s].fs /\ file # Unusable
                          runs ==
                              /\ usable /\ Promised("iri_base", file, env) \in IRIBases
                              /\ s = "data" => Promised("store", file, env) \in KnownStores
                      IN
                      /\ path = NoPath => cfg[s] = Defaults
                      /\ usable =>
                            /\ \A k \in DOMAIN Defaults \ {"beamlines"} :
                                  cfg[s][k] = Promised(k, file, env)
                            /\ PromisedBeamlines(cfg[s]["beamlines"], file)
                      /\ proc[s] \in {"fetching", "serving"} => runs
                      /\ s = "data" /\ proc[s] = "ended" => ~runs
    BY DEF SettingsInForce
  <2> DEFINE fs == setup[s].fs
             env == setup[s].env
             file == FileOf(fs, env)
             usable == Usable(fs, env)
             able == /\ usable /\ Promised("iri_base", file, env) \in IRIBases
                     /\ s = "data" => Promised("store", file, env) \in KnownStores
  <2>1. setup[s] \in world.setups /\ cfg[s] = Load(fs, env)
    BY <1>1 DEF IInv, StartedWell, Configured
  <2>2. usable => IsFile(file) /\ ApplyEnv(Unmarshal(file), env) # NoConfig
    BY <1>1, <2>1, ProcessFacts, FoxdenAccessAssumption DEF Usable, FileOf
  <2> HIDE DEF fs, env
  <2>3. ResolvePath(fs, env) = NoPath => cfg[s] = Defaults
    BY <2>1, LoadCases
  <2>4. ASSUME usable
        PROVE  /\ \A k \in DOMAIN Defaults \ {"beamlines"} : cfg[s][k] = Promised(k, file, env)
               /\ PromisedBeamlines(cfg[s]["beamlines"], file)
    BY <2>1, <2>2, <2>4, LoadedSettings, LoadedBeamlines
  <2>5. usable => cfg[s] # NoConfig
    BY <2>1, <2>2, LoadCases
  <2>6. Valid(cfg[s]) => usable
    BY <2>1, LoadCases
  <2> HIDE DEF file, usable
  <2>7. CanRun(s) <=> able
    <3>1. {"iri_base", "store"} \subseteq DOMAIN Defaults \ {"beamlines"}
      BY ConfigurationAssumption
    <3>2. usable => /\ cfg[s]["iri_base"] = Promised("iri_base", file, env)
                    /\ cfg[s]["store"] = Promised("store", file, env)
      BY <2>4, <3>1
    <3>3. QED
      BY <2>5, <2>6, <3>2 DEF CanRun, Valid
  <2>8. /\ proc[s] \in {"fetching", "serving"} => able
        /\ s = "data" /\ proc[s] = "ended" => ~able
    BY <1>1, <2>7 DEF IInv, StartedWell, Runs
  <2>9. QED
    BY <2>3, <2>4, <2>8 DEF fs, env, file, usable, Usable, FileOf
<1>2. QED
  BY <1>1, Invariance, PTL

(* A list a service answers with is what FOXDEN had at one moment of the    *)
(* request, cut at the limit if there is one, or the catalog's empty list,  *)
(* for which there is a cause.                                              *)
THEOREM ListingsAreTrue == Spec => ListingsTrue
<1> DEFINE True(r) ==
        Answers(r, {200}) =>
            \/ \E view \in seen[r] : view.up /\ TrueOf(req'[r], view.records)
            \/ req'[r].service = "catalog" /\ req'[r].listed = {} /\ HasCause(r)
<1>1. ASSUME IInv, [Next]_vars PROVE \A r \in Requests : True(r)
  <2> SUFFICES ASSUME NEW r \in Requests, Answers(r, {200}) PROVE True(r)
    OBVIOUS
  <2>1. Open(r) /\ req'[r].pc = "answered" /\ req'[r].code = 200
    BY DEF Answers
  <2>2. IsNotFound(r) \/ IsListed(r) \/ Fails(r)
    BY <1>1, <2>1, HowAnswered
  <2>3. CASE IsListed(r)
    BY <1>1, <2>3, ListedIsTrue
  <2>4. CASE IsNotFound(r) \/ Fails(r)
    BY <1>1, <2>1, <2>4, FailsWithCause DEF IsNotFound, Fails, SameCall, IsCall
  <2>5. QED
    BY <2>2, <2>3, <2>4
<1>2. QED
  BY <1>1, Invariance, PTL DEF Spec, ListingsTrue

(* A 502, or an empty list that is not true, comes with a cause seen during *)
(* the request: FOXDEN was not up, or did not accept a token that was the   *)
(* one supplied at a moment of it.                                          *)
THEOREM FailuresAreCaused == Spec => FailuresHaveCause
<1> DEFINE Caused(r) ==
        Answers(r, {200, 502}) =>
            \/ req'[r].code = 200 /\ \E view \in seen[r] : TrueOf(req'[r], view.records)
            \/ HasCause(r)
<1>1. ASSUME IInv, [Next]_vars PROVE \A r \in Requests : Caused(r)
  <2> SUFFICES ASSUME NEW r \in Requests, Answers(r, {200, 502}) PROVE Caused(r)
    OBVIOUS
  <2>1. Open(r) /\ req'[r].pc = "answered" /\ req'[r].code \in {200, 502}
    BY DEF Answers
  <2>2. IsListed(r) \/ Fails(r)
    BY <1>1, <2>1, HowAnswered DEF IsNotFound
  <2>3. CASE IsListed(r)
    BY <1>1, <2>3, ListedIsTrue DEF IsListed
  <2>4. CASE Fails(r)
    BY <1>1, <2>1, <2>4, FailsWithCause
  <2>5. QED
    BY <2>2, <2>3, <2>4
<1>2. QED
  BY <1>1, Invariance, PTL DEF Spec, FailuresHaveCause

(* Nothing FOXDEN does ends a service that runs: unless it is started again,*)
(* only the want of a token ends one, the catalog-service; and a request is *)
(* only cut when its service ends or is started again.                      *)
THEOREM ServicesOutliveFoxden == Spec => OutlivesFoxden
<1> DEFINE Outlives ==
        /\ \A s \in Services :
              proc[s] = "serving" /\ proc'[s] = "ended" =>
                  starts' # starts \/ (s = "catalog" /\ Supplied(s) = "")
        /\ \A r \in Requests :
              Open(r) /\ req'[r].pc = "cut" =>
                  proc'[req[r].service] = "ended" \/ starts' # starts
<1>1. ASSUME IInv, Next PROVE Outlives
  <2>1. Moves
    BY <1>1, NextMoves
  <2>2. ASSUME NEW s \in Services, proc[s] = "serving", proc'[s] = "ended"
        PROVE  starts' # starts \/ (s = "catalog" /\ Supplied(s) = "")
    <3>1. Proceeds(s)
      BY <2>1 DEF Moves, AllProceed
    <3>2. QED
      BY <2>2, <3>1 DEF Proceeds, Stays, IsStarted, Fetches, Ends
  <2>3. ASSUME NEW r \in Requests, Open(r), req'[r].pc = "cut"
        PROVE  proc'[req[r].service] = "ended" \/ starts' # starts
    <3>1. Lives(r)
      BY <2>1 DEF Moves, AllLive
    <3>2. QED
      BY <2>3, <3>1 DEF Lives, Open, Arrives, IsCut, Asks, IsNotFound, IsListed, Fails
  <2>4. QED
    BY <2>2, <2>3
<1>2. ASSUME UNCHANGED vars PROVE Outlives
  BY <1>2 DEF vars, processes, Open
<1>3. IInv /\ [Next]_vars => Outlives
  BY <1>1, <1>2
<1>4. QED
  BY <1>3, Invariance, PTL DEF Spec, OutlivesFoxden
=============================================================================
