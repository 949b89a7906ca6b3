# FabricNode in TLA+

FabricNode is a small federation node for a synchrotron: four Go services that
hold the knowledge graph of datasets taken at beamlines, attest to publications
of them, and announce events. This directory holds TLA+ specifications of the
services that keep state or ask FOXDEN, the TLC configurations that check them,
and TLAPS proofs, for every value of their constants, of every invariant and action
property that the configurations check. All paths below are relative to `src/`.

## 1. Inventory

| component | state | operations | what makes it correct |
|---|---|---|---|
| **data-service**, `services/data-service` | named graphs of triples, in the process or in Oxigraph; a token | store triples, dry-run validation, ingest from FOXDEN, queries scoped to a dataset, a beamline or nothing, lists of graphs | a 201 is the truth; reads see what was acknowledged and nothing out of scope; stored observations have the shape the validator asks for; every request ends |
| `pkg/model`, `foxden/rdf.go` | none | DID → segments, beamline, graph IRI (two derivations) | both derivations give one IRI |
| `internal/shacl` | none | validate an observation, sensor ownership | what is stored through it conforms |
| `internal/foxden` client | the token it was made with | query, list | a failure ends in 502 and stores nothing |
| `internal/foxden` RDF mapping and schemas | tables of fields, built at startup | load schema files, record → triples | no declared value is lost; neither the order of Go's maps nor that of the files changes what is said |
| **identity-service** | one Ed25519 key pair, the DID document, its own credential | issue and verify credentials | only what was signed verifies; a signed claim is true of the data-service |
| **notification-service** | a slice of pointers to notifications | receive, list, get, acknowledge, count | nothing is lost, doubled, reordered or taken back; lists are true |
| **catalog-service** | none (configuration) | list beamlines and datasets by asking FOXDEN; static descriptions | lists the datasets of a beamline and no others; survives a failing FOXDEN |
| `pkg/config` | none after startup | find a file, defaults, decoding, environment, validation | what is in force is what the documentation promises |
| `scripts/manage.sh` | PID files | start, stop, restart, status | stops what it started |

How they interact. The services share no memory and, in this code base, do not
call each other. They meet through data: the data-service's ingest pulls a record
from FOXDEN and derives a graph IRI from the dataset's DID; FOXDEN's DOI service
then asks the identity-service for a credential, which derives the graph IRI and
the URL of the dataset's query route again, on its own, and signs them; a reader
follows that URL back to the data-service, which compares the beamline of the
path with the one in the DID. The catalog-service renders the same URL a further
time.

What is hard. Inside a service every request is a goroutine of its own and the
stores are guarded by one lock, held per *store call*, not per request: an ingest
is a loop of such calls, and the inbox works on notifications before it takes the
lock and after it has released it. Nothing is persisted by the in-memory store,
the inbox or the identity-service, so a restart loses the graphs, the
notifications and the key pair, while what clients were told survives with them.
FOXDEN is slow, down, or changed between two calls, and so is Oxigraph, which may
also execute an update whose sender has given it up. Tokens expire, and one service
takes its token once, the other for each request. The rest is agreement
between derivations written several times: DID → graph IRI (three times), DID →
beamline, DID → query URL. `PROJECT.json` lists these hazards one by one, with
their lines and the properties that watch them.

## 2. Modules

| module | models | built on |
|---|---|---|
| `DatasetDid` | DIDs, references, both graph-IRI derivations of the data-service | |
| `Shacl` | triples and the two validators | `DatasetDid` |
| `GraphStore` | the abstract store, durable or not: a set of quads and what has been acknowledged | |
| `MemoryStore` | each method of the in-memory store as an operator on a map of graphs | `DatasetDid` |
| `DataService` | the handlers over it, one action per store call, with FOXDEN and restarts | `MemoryStore`, `Shacl`; implements `GraphStore` |
| `OxigraphStore` | each method of the Oxigraph store as what its SPARQL does to a set of quads | `Shacl` |
| `OxigraphService` | the handlers over it, with refusals, timeouts and late updates | `OxigraphStore`; implements the durable `GraphStore` |
| `RdfMapping` | the schema files and the mapping of a record | |
| `Configuration` | `config.Load` and `Validate`, as functions of the files and the environment | |
| `FoxdenAccess` | catalog-service and data-service as processes that ask FOXDEN, with tokens | `DatasetDid`, `Configuration` |
| `Inbox` | the notification-service | |
| `IdentityService` | key pair, credentials, verification, restart | `DatasetDid` |
| `Publication` | data-service, identity-service, DOI service and reader together | `DataService`, `IdentityService` |
| `DatasetProofs` | lemmas on DIDs and on the validators, the agreement of the derivations | `Shacl` |
| `DataServiceProofs` | the inductive invariant of the data-service, its safety; that it is a store; that reads find writes, and nothing from elsewhere | `DataService`, `DatasetProofs` |
| `OxigraphServiceProofs` | safety, refinement and complete reads over Oxigraph | `OxigraphService`, `DatasetProofs` |
| `RdfMappingProofs` | which tables the files make and which triples a record, in any order | `RdfMapping` |
| `FoxdenAccessProofs` | the settings in force, true listings, causes of failures | `FoxdenAccess` |
| `IdentityServiceProofs`, `InboxProofs` | the credentials; the inbox | `IdentityService`, `Inbox` |
| `PublicationProofs` | the composition: what a credential says of the data-service | `Publication`, `DataServiceProofs` |
| `MCDataService`, `MCOxigraph`, `MCRdfMapping`, `MCFoxdenAccess`, `MCInbox`, `MCIdentityService`, `MCPublication` | small instances for TLC | |

### Correspondence

*Identifiers.* Every derivation in the code trims one `/` and cuts at `/`, so a
DID is the sequence of its parts, each with a key and a value; a part without a
key has the empty key. An IRI `<base>/graph/<bl>/<path>` is the pair of beamline
and remaining parts. Lower-casing is the constant function `Lower`, the pattern
of beamline names the constant set `ValidNames`. What a prefix comparison
accepts is written out where it is made: the beamline scans end in `/` and so
compare names exactly; the sensor prefix ends in nothing, so `SensorNames` gives
for each sensor *all* names its IRI starts with.

*data-service.* `graphs` is `MemoryStore.graphs`, with slices as sequences: two
equal triples are two entries, as in the code. `req[r]` is the goroutine of
request `r`: where it stands, the triples it writes, those its loop has left,
and its answer. A handler is split exactly at its store calls. `TriplesInsert` is
one step, since `InsertForDataset` holds the lock for the whole batch;
`IngestInsert` is one turn of the loop in `FoxdenIngest`, in any order, since
`RecordToTriples` ranges over Go maps; `Created` is the answer. `IngestFetch`
reads the record as FOXDEN has it at that moment, and `FoxdenUpdate` changes it
at any other. What an ingest may answer instead has an action each: 404
(`IngestNotFound`), 502 (`IngestFoxdenFails`), and 500 for a record without a `did`,
of which `RecordToTriples` makes nothing (`IngestNotMapped`; the constant then holds
the empty set). `Restart` drops requests in flight and starts from the seed data.
`promised` and `before` are history: the writes answered 201, and those that had
been when a request was sent. `Cuts` is the silent limit of the global query:
the first hits of a scan that visits graphs in any order.

*Oxigraph.* `db` is the RDF dataset of the Oxigraph server, a set of quads: an
insert of what is there changes nothing, and there are no empty graphs. A store
call is an HTTP request: `Ask` sends it, `Execute` is Oxigraph's transaction,
`Reject` a refused connection or a status other than 200 and 204, and `TimesOut`
the client's timeout, which may fall before the transaction or between it and its
answer. An update given up before it was executed stays in `late`, and so does one
whose sender was restarted; `ExecuteLate` may run it at any time, or never. What
the handlers do then is in the code route by route: `InsertForDataset`,
`QueryDataset` and `QueryBeamline` hand the error on and end in a 400, `Insert`,
which the ingest calls, and the unscoped reads drop it. `Select` keeps the FILTER
that the queries add to the term they have already put in the variable's place. The
ingest's question to FOXDEN is the one `DataService` models and is left out here.

*RDF mapping.* One step loads one entry of one schema file, and one step visits one
field in one of the four loops, in any order, as they range over Go maps; `left`
is what a loop has still to visit. An atom is its kind with its text as
`formatDecimal` prints it and, for a number, as `formatInteger` does; null, an object
and a list in a list are atoms of a kind that no loop takes. `Add` compares
predicate and object without the datatype, as `seen` does.

*Configuration and FOXDEN.* A world is the setups that a start may find, each the files
and the environment of the moment, and FOXDEN's first state. `Start` is `main` up to
where it waits, with one of the setups; `setup` and `cfg` remember which, and what
was made of it, also for a service that has ended. The data-service then fetches its
token (`TokenIssued`, or `TokenNotIssued` with its fallbacks) and keeps it in
`held`, the catalog-service reads one for each request (`CatalogToken`), and
ends the process when there is none (`CatalogEnds`, which is `log.Fatal`). A request
to FOXDEN ends in `FoxdenLists`, `FoxdenRefuses`, `FoxdenFails` or, from the
data-service only, `TimesOut`. What is listed (`ListsFor`) is for the catalog-service
everything that FOXDEN files under the beamline in small or capital letters and
whose DID contains `beamline=<id>` anywhere, in any key that ends so; for the
data-service everything filed under the beamline as it was spelt, of which FOXDEN
cuts some if there is more than the limit, `ListLimit` when none is asked for. The environment changes FOXDEN's mode and records,
lets tokens expire and renews the token file. `seen` is history: what FOXDEN was
during each open request. FOXDEN's authentication and its metadata service fail
and hang together.

*notification-service.* `Stamp` is `Add` before the lock, `Add` the append under
it; `Listed` is the loop of `List()` over the slice, as a recursive function of how
far it has come; `List` and `Get` hand out pointers under the lock, and `Encode` follows one
pointer per step outside it, racing with `Acknowledge`: the race on the Boolean
field is the nondeterministic order of the two. A notification is known by the
request that brought it, as its UUID is fresh.

*identity-service.* `key` numbers the process's key pair. A signature is the
pair of key and content (ideal cryptography), content being what the code
decodes into its credential type, without the fields that type does not have;
`signed` is every signature ever made, in anybody's hands. `VerifyCredential`
presents any content over any such proof, or none. Conformance and dataset
credentials share their signing and verifying code shape and so one `Sign` and
one `Verify`. IDs, dates and JSON are left out. The DOI stands for itself and
its URL: the code requires both.

*publication.* `Publish`, `Follow` and `Check` are the environment: the DOI service
publishes any dataset that FOXDEN has, before its ingest, during it or after it; a
reader sends exactly the query the signed URL stands for, and may have the
credential verified.

## 3. Runs

| run | instance | shows |
|---|---|---|
| `data_service` | 2 requests, 17 calls, 2 FOXDEN datasets with 2 versions, one without a `did`, 1 restart, limit 5 | `TypeOK`, `ObservationsComplete`, `ReadsTraceable`, `PromisesKept`, `ReadsSeeAcknowledged`, `ImplementsGraphStore`, `EveryRequestAnswered` |
| `publication` | 3 requests, 4 calls, symmetric, both services restart | `SignedGraphHolds`, `SignedClaimsAgree`, `PromisesKept`, `ReadsSeeAcknowledged` |
| `oxigraph` | 2 requests, 13 calls, 1 restart, limit 3 | `TypeOK`, `CreatedIsStored`, `ObservationsComplete`, `ReadsAllOrNothing`, `ImplementsGraphStore`, `EveryRequestAnswered` |
| `rdf_mapping` | 7 lists of schema files, 3 records | `TypeOK`, `FirstDeclarationWins`, `VisitOrderIrrelevant`, `DeclaredValuesSaid`, `EverySubjectTyped` |
| `foxden_access` | 8 worlds with 9 setups, 2 requests, 2 starts, 2 changes of FOXDEN, limit 2 | `TypeOK`, `SettingsInForce`, `ListingsTrue`, `FailuresHaveCause`, `OutlivesFoxden`, `EveryRequestEnds` |
| `inbox` | 4 requests, symmetric, clock 0..1, any restart | `TypeOK`, `ReceivedKeptOnce`, `ListsTrue`, `RealTimeOrder`, `StatsMonotonic`, `NothingTakenBack` |
| `identity` | 2 key pairs, 2 DOIs | `IdentityTypeOK`, `VerifiedWasSigned` |
| `sensors_hosted` | as `data_service` | **violated**: a sensor of `id3a` passes the check for `id3` |
| `documented_credentials` | as `publication`, 2 requests, with checks of credentials | **violated**: a credential neither verifies nor has a URL that answers |
| `oxigraph_filters` | as `oxigraph` | **violated**: over Oxigraph, a query with an `s`, `p` or `o` finds nothing |
| `documented_mapping` | 1 schema file, 1 record that fits it | **violated**: a list of numbers is lost, `pi` is not `dct:creator`, and a number has no datatype in its text |
| `documented_access` | 1 world with 3 setups, 3 starts, no changes | **violated**: a token in `FOXDEN_TOKEN` ends the catalog-service, `NODE_IRI_BASE` alone starts no service, and a dataset of `id3a` is listed for `id3` |

The properties of the five violated runs state what comments, tests and documents of the
repository say; `PROJECT.json` quotes the lines under `findings`. Three of them gather
several promises that the code does not keep. Each is then the *disjunction* of the
promises, weaker than any of them, so that what violates it refutes all of them at once:

- `DocumentedCredentials`: of each credential, that it verifies (`SignedVerifies`) or
  that its access URL answers 200 (`AccessURLAnswers`). The credential of a dataset
  `/beamline=ID3A/...`, issued before a restart, does neither.
- `DocumentedMapping`: of a finished mapping, `NumberListsSaid` (schema.go:21),
  `VocabularyPreserved` (rdf.go:42-45, 103-105) or `DatatypesInText` (rdf_test.go:119).
- `DocumentedAccess`: `TokenPromise` (config.go:199-202), `EnvironmentPromise`
  (config.go:230-231, 344) or `ListingPromise` (datasets.go:169).

What the passing properties say, in order of weight:

- `ImplementsGraphStore`: the service, with its real slices, loops and races, is a
  store of quads to which batches are added at once, from which nothing but a
  restart takes anything, and which acknowledges only what it holds.
- `ReadsSeeAcknowledged`: a query sent after a 201 finds what was written,
  through every route whose scope covers it and whichever of the two IRI
  derivations stored it. Answers of the global route that reached the limit are
  excepted, because the code cuts them.
- `ObservationsComplete`: validation is per request, and the ingest is not
  validated at all; yet no interleaving of them puts an incomplete *typed*
  observation into a graph. It rests on what the RDF mapping does: it never
  types a subject `sosa:Observation`. (A subject whose type arrives with a
  complete set of properties is fine; an untyped one is never looked at.)
- `ReadsTraceable`: scoped answers hold only what was seeded in the scope or sent
  to a dataset of it, with beamline names that are prefixes of one another.
- `PromisesKept`, `EveryRequestAnswered`, and for the inbox `ListsTrue` (a list
  encoded outside the lock is still right for some moment of the request),
  `RealTimeOrder`, `StatsMonotonic`, `ReceivedKeptOnce`, `NothingTakenBack`.
- `VerifiedWasSigned`, `SignedGraphHolds`, `SignedClaimsAgree`.
- `CreatedIsStored`, over Oxigraph: a 201 of the dataset route is worth what it
  says, for good; that of an ingest, only what did not fail, which the answer does
  not tell.
- `ImplementsGraphStore` of `OxigraphService`: refused, lost and late requests and
  restarts notwithstanding, it is a *durable* store, one no step takes anything from.
- `ReadsAllOrNothing`: over Oxigraph, a 200 to an unfiltered query is complete for
  its scope, or empty; and empty wrongly only on the routes that drop the store's
  error. `ObservationsComplete` survives late updates, because each carries a whole
  validated batch or triples that type nothing.
- `VisitOrderIrrelevant`: what is said of a dataset does not depend on the order
  of Go's maps, with one exception that the property spells out: when two fields
  give one object to one predicate, its datatype is that of the first visited.
- `DeclaredValuesSaid`: a value of the shape its schema declares is said of the dataset
  under exactly the predicate, as the text and in the datatype that the rules at the
  head of `schema.go` promise, even if its key is in two tables or another field says
  the same. `list_float` is excepted, whose values the switch sends to the loop for
  strings, which drops numbers; `documented_mapping` shows that, with what other lines
  promise of the mapping beyond those rules.
- `EverySubjectTyped` gives the assumption of `DataService` its ground: an ingest
  types no observation.
- `SettingsInForce`: of every service that was started, whether it runs or has ended:
  its settings are those of the documented precedence, exactly; without a file they are
  the bare defaults, the environment unread; and it runs exactly when there is a usable
  file, a base IRI that ends in `/` and a known store. A JSON list is decoded *into* the
  default list, so that a beamline declared without a label carries the label of the
  default at its place: `PromisedLabel` says when, and only then.
- `ListingsTrue`: whatever changes during the request, a listing is what FOXDEN had at
  some moment of it. The catalog-service lists *every* dataset filed under the beamline
  whose DID names it, and of the others only those whose DID names a beamline that
  begins as it does; the data-service lists all there is whenever the list is shorter
  than the limit. An empty list of the catalog-service is true, or has a cause.
- `FailuresHaveCause`: a 502 or an untrue empty list has FOXDEN or a token that was
  not valid as its cause. The token may have been renewed between being read and
  being used; the data-service's is the one of its start, so that once it has
  expired every answer is a 502 until a restart.
- `OutlivesFoxden`, `EveryRequestEnds`.

Seen on the way, and stated by the models: the catalog-service answers every error of
FOXDEN with 200 and an empty list, and no line of the repository promises anything else;
a file that cannot be used makes `Validate` dereference nil, although the services log
that they go on "using defaults". The process ends either way, since the defaults have
no base IRI.

### Bounds, and why they are enough

Each request is sent once, so the number of requests bounds everything. Two
requests over all calls cover each pair of handlers in every interleaving of their
store calls, a write and a later read through every route among them; three over the
ingests of both datasets and the queries that credentials lead to add a second
writer, or reader, to a publication; four in the inbox allow two notifications,
an acknowledgement and a list or a count. `ResultLimit` is 5 for 100 so that the
seed graph and one write exceed it. Names are `id3`, `id3a` and `ID3A`: a prefix
pair, as among the node's real beamlines, and a case pair, as in FOXDEN's
records. Two record versions are one change. `ResultLimit` is 3 over Oxigraph so that one write
exceeds it. `rdf_mapping` has no bound but `MaxEntries`, the length of its files:
its files declare a key twice in one file, in two files, with a skipped key, with a
built-in one, and around an unreadable file; its records meet each declaration
with a value that fits and one that does not. In `foxden_access` each setup is one
way to be configured, or to fail at it, and the first world lets a restart meet another
setup than the start before; `ListLimit` is 2 for 100, which the two records filed under
`id3` reach, and a limit of 1 that is asked for they exceed; two changes are a failure
and its end, or an expiry and a renewal, and two starts are both services or one restarted.
`MaxRestarts`, `MaxKeys`, `MaxTime`, `MaxStarts`, `MaxChanges` and `MaxRequests` cap
the only counters. Requests are symmetric where a run says so: no
property or action tells one from another. `identity` keeps deadlock checking;
elsewhere it is off, since a system whose every request has been answered stops.

### Fairness

`FairSpec` assumes weak fairness of each request's own steps, `Serve(r)`, and of
nothing else: Go schedules every goroutine, every store call ends (the lock is
held for a bounded loop), and the FOXDEN client has a timeout
(`NewClientWithToken`, ten seconds by default), so the step that ends an ingest's
wait stays enabled until it is taken. Clients need not send, FOXDEN need not
change, and the process need not restart. Over Oxigraph the same holds: every call is
made with an HTTP client with a timeout (`oxigraph.go`, 30 seconds by default), so
`TimesOut` stays enabled until something else ends the call, and Oxigraph owes
nothing. In `foxden_access` the data-service's requests end for the same reason.
Those of the catalog-service use a client without a timeout, and so does the
data-service's request for a token: of these `EveryRequestEnds` claims that they end
or that FOXDEN hangs once more.

### Assumptions on constants

`DataServiceAssumption` carries what the code outside the module guarantees: the
seed's observations have their required properties (`memory.go`, `seed()`),
`RecordToTriples` types no observation (`foxden/rdf.go`), a DID held by FOXDEN
starts with `beamline=` and has more than one part. `NoProofAssumption` says that the absence of a proof is not a
signature. `PublicationAssumption` says that a DOI service which names the graph
or the URL itself names those of the data-service
(`docs/FOXDEN_FabricNode_Integration.md:426`: optional, and derived by the
identity-service if omitted), and that readers may send the query a URL stands
for. `OxigraphServiceAssumption` says, too, that an ingest types no observation,
`RdfMappingAssumption` that the built-in tables and the node's namespace have neither
`rdf:type` nor `identifier` as a predicate of a field (`foxden/rdf.go:47-101`), that the
built-in tables leave out the skipped keys, that the IRI of a phase is not the
dataset's, and that a value of a record is a JSON value: one atom, or a list of them, the rest
being atoms of the kind `other`.
`ConfigurationAssumption` says that the defaults hold every setting and no base IRI.
`FoxdenAccessAssumption` describes the environment: lower case is stable, and that of a
beamline in upper case is its own (true of ASCII); no route has an empty
beamline; `beamline` is a key that ends in `beamline`; the beamlines that a file lists
have an id and a label, which is `""` when it declares none; what is made of a file that
can be read is not the nil configuration; what FOXDEN files under a beamline has a DID; and the
token of a file is one FOXDEN may have issued, or empty. `InboxAssumption` says of
the constants of the model only that they are apart.
TLC evaluates them in the runs.

## 4. Proofs

For every value of the constants that satisfies the assumptions above:

| module | theorem | states |
|---|---|---|
| `DatasetProofs` | `DerivationsAgree` | for a DID of more than one part that starts with `beamline=`, `GraphIRIFromDID` (the ingest) and `GraphIRI` (the dataset routes) are equal |
| `DataServiceProofs` | `TypeCorrect` | `Spec => []TypeOK` |
| | `ObservationsStayComplete` | `Spec => []ObservationsComplete` |
| | `AcknowledgedWritesStored` | `Spec => []PromisesKept` |
| | `ImplementsStore` | `Spec => ImplementsGraphStore` |
| | `ReadsFindWrites` | `Spec => []ReadsSeeAcknowledged` |
| | `ReadsStayInScope` | `Spec => []ReadsTraceable`, for calls whose DIDs have their canonical form |
| `OxigraphServiceProofs` | `TypeCorrect` | `Spec => []TypeOK` |
| | `AcknowledgedIsStored` | `Spec => []CreatedIsStored` |
| | `ObservationsStayComplete` | `Spec => []ObservationsComplete` |
| | `ImplementsDurableStore` | `Spec => ImplementsGraphStore` |
| | `ReadsCompleteOrEmpty` | `Spec => []ReadsAllOrNothing` |
| `RdfMappingProofs` | `TypeCorrect` | `Spec => []TypeOK` |
| | `FirstDeclarationsWin` | `Spec => []FirstDeclarationWins` |
| | `OrderIsIrrelevant` | `Spec => []VisitOrderIrrelevant` |
| | `SubjectsAreTyped` | `Spec => []EverySubjectTyped` |
| | `ValuesAreSaid` | `Spec => []DeclaredValuesSaid` |
| `FoxdenAccessProofs` | `TypeCorrect` | `Spec => []TypeOK` |
| | `SettingsAreInForce` | `Spec => []SettingsInForce` |
| | `ListingsAreTrue` | `Spec => ListingsTrue` |
| | `FailuresAreCaused` | `Spec => FailuresHaveCause` |
| | `ServicesOutliveFoxden` | `Spec => OutlivesFoxden` |
| `IdentityServiceProofs` | `CredentialsAttest` | `IdentitySpec => []IdentityTypeOK` |
| | `TamperEvident` | `IdentitySpec => []VerifiedWasSigned` |
| `PublicationProofs` | `ServicesCompose` | `PublicationSpec => Spec /\ IdentitySpec` |
| | `SignedGraphIsRight` | `PublicationSpec => []SignedGraphHolds` |
| | `ClaimsAgree` | `PublicationSpec => []SignedClaimsAgree` |
| `InboxProofs` | `NotificationsKeptOnce` | `Spec => []ReceivedKeptOnce` |
| | `ArrivalOrder` | `Spec => []RealTimeOrder` |
| | `InboxOnlyGrows` | `Spec => NothingTakenBack` |
| | `TypeCorrect` | `Spec => []TypeOK` |
| | `ListsTellTheTruth` | `Spec => []ListsTrue` |
| | `CountsNeverFall` | `Spec => []StatsMonotonic` |

### Arguments

*Safety of the data-service.* The inductive invariant is `IInv`: types, that a
request at work has a call (`CallsSent`), `ObservationsComplete`, and `WritesInv`,
which says of each request that is writing or promised where its triples are:
those no longer in `todo` are in its graph, those still in `todo` type no
observation, and only a request without any left is promised. Neither
target is inductive alone. `PromisesKept` needs to know, before the answer, that
what the loop has done is stored; `ObservationsComplete` needs to know that what
the loop is about to store types nothing. The proof has one step for each action;
the many actions that only answer are covered once, by a lemma on `Quiet` steps.
Writing is reduced to two lemmas on `Extend`: a graph's triples after it are those
before and those of the batch, and other graphs are untouched; and adding triples
never takes a required property away, so only a newly typed subject needs the
validator, which has seen the whole batch in which it is typed.

*Refinement.* `QuadsAre` says what the quads of a map of graphs are, `ExtendQuads`
what appending a batch does to them. Each step of the service then has one of
three effects, `Adds`, `Promises` or `Forgets`, or none, and these are the steps of
`GraphStore`. That a promise is made only of what is stored is `WritesInv`; that
what an ingest has still to insert is a batch the abstract store knows, for a graph
it knows, is `TargetsInv`.

*Reads.* `ReadsInv` says that the graph a promised write is in is the one its DID
names, by whichever derivation, and exists (`TargetInv`, from `DerivationsAgree`), that the writes `before` a request still at work are promised
(`BeforeInv`), and that each answer shows them (`Sees`). The last has one lemma per route: a scan of a
beamline finds the graph because its beamline is compared in lower case on both
sides; the dataset route finds it because two DIDs that are equal up to the case of
the beamline have one graph (`OneGraph`).

*Scopes.* `TraceInv` gives every triple in a graph an origin, the seed or a request
that carries it and was sent to that graph, by the route of the graph's name
(`ByRoute`), and says of every answer that each of its graphs is one the query
`Covers`. To conclude that the request's *dataset* is one of the scope, the graph
must determine the dataset up to the case of its beamline (`OneDataset`). It does so
for DIDs that start with `beamline=` and go on, the canonical form of
`pkg/model/model.go:41-43`, and for no others: `Segments` skips a part that is not
`key=value`, while `GraphIRIWithBase` cuts the text at its first `/`, so that
`/x/beamline=id3` and `/beamline=id3` are two accepted DIDs with one graph. The
theorem states the condition; FOXDEN's DIDs meet it by `DataServiceAssumption`.

*Over Oxigraph.* The invariant is `TypeOK /\ RequestsGood /\ PromisesWorth /\
LateLegal /\ ObservationsComplete`: what a request has been told was executed is in
`db`, what was promised stays in it, and an update still under way carries a
whole validated batch or types nothing, so that it does no harm whenever it
comes. As `db` only grows, one lemma carries all of it through any step that
replaces one request (`Becomes`). The refinement follows from the same step
lemmas: an execution, late or not, is an insertion of the abstract store, a 201 an
acknowledgement, and a restart leaves `db` as it is. `ReadsAllOrNothing` adds `ReadInv`: what
was promised before a request was sent is still promised, a request that Oxigraph
has not answered has found nothing, and one that it has answered has found all it
was owed, or has hit the limit. What a request found may be lost only between the
two, where the store's error is dropped; then it has found nothing at all.

*RDF mapping.* `LoadInv` says that the tables hold, of the entries passed so far, the
first declaration of each key, and `MapInv` that the triples are those every record
begins with and what the *visited* fields yield one by one. A yield depends on the
tables and the record only, and both are fixed by then, so that the order of the
visits cannot matter. An object given twice to a predicate is said once: then
`SaidIn` finds the triple of the other field, of the same predicate and object, whose
datatype may differ. `ValuesAreSaid` goes through the types of a declaration: for each but `list_float`
the table is the promised one, the merged table gives the promised predicate, and the
loop over it yields the promised object, which is then said or has been.

*Access to FOXDEN.* `IInv` has four parts: `TypeOK`, the fields of the records (`Shapes`),
that a service that was started has what `Load()` makes of the setup it found, and runs
only if that is valid (`StartedWell`), and that of each open request FOXDEN's present state is among
those it has seen, as is one in which the token it asks with was the one supplied
(`RequestsSeen`). `SettingsAreInForce` then is a lemma about `Load()` (`LoadCases`): no file, an unusable
one, or the layers of one that can be used, and the decoding of its beamlines. A listing is decided by one step, at which the present
view is FOXDEN's; a failure blames that view, or the one its token comes from. Each step
does one of a few things to a request (`Moves`), and each action property is
shown once for each of these.

*Credentials.* A verdict is right because every proof ever handed out is a key of
this node and a content of it, and verification compares both. No content lacks a
DID, a DOI, a graph or an endpoint, because `Claims` derives what a request left out.

*Publication.* A reader who follows a credential sends a call the data-service may
receive (`FollowSends`), and `Publish` is an issue of the identity-service: so each
step of the composition is one of each service or leaves it alone, and every
invariant of either holds of both together. What remains is what ties them:
`CredentialsTrue` says that the graph and the URL of every dataset credential are
those of a DID that FOXDEN holds. It is inductive because a publication
presupposes that FOXDEN has the dataset, though not that it was ever ingested, and
because for the DIDs that FOXDEN holds the third derivation is the first
(`ThirdDerivation`). Then
`SignedGraphHolds` follows from where promised writes are (`WritesInv`, `TargetInv`)
and `SignedClaimsAgree` from `Sees` in one direction and `Covers` in the other.

*Inbox.* The order of two notifications is decided when the first has been
answered and the second has not been sent, long before the second is
appended; the invariant `Ordered` must therefore speak of a request as soon as it is
stamped: its time is not before that of any notification answered before it was
sent. The rest of the invariant ties answers to entries (`EntriesAnswered`,
`AnswersStored`) and entries to distinct requests (`UniqueIds`).

Lists and counts have an invariant of their own, `AllTold`. While a request encodes
its list, what it holds are pointers to entries, none of them twice
(`PointersGood`); what it has encoded agrees with the entries as far as is still true
of them later: an item shown as acknowledged is, and one acknowledged before the
request is shown so (`ItemsTrue`); and a list of what was there before is whole
(`ListWhole`). What `Listed` returns is proved by induction on how far its loop has come
(`ListedIs`), for which the lemma `Induction` takes a *set* of numbers in place of a
predicate, as the provers cannot instantiate one. A count is not below an earlier one because
the notifications only gain acknowledgements, and not below a list because no
entry is in it twice, so that the acknowledged items of the list are at most as many as the
acknowledged entries (`ShownCounted`, by an injection).

### Model-checked only

Liveness under fairness, which the prover does not reach, nor `ENABLED`:
`EveryRequestAnswered` over either store, and `EveryRequestEnds`. Of `ReadsTraceable`, what it says of DIDs out
of canonical form is neither proved nor checked: it does not hold of them, and the
instances have none.

## 5. Not modelled

The PID files of `scripts/manage.sh`: shell and operating system; the restarts
themselves are actions of the models. Static descriptions (the VoID and DCAT
documents with their content negotiation, the list of beamlines), health and
index routes, the route that relays one FOXDEN record, CORS, integrity
hashes, deployment files, demos and test scripts keep no state and are left out;
`data_client.go` of the catalog-service is used by no service. Malformed percent
escapes and invalid JSON bodies of the data-service end in a 400 before any state
is read, as `BadReference` does, and have no call of their own. Over Oxigraph, blank
nodes, malformed IRIs and literals whose text ends like a datatype are left out,
which the server would refuse or read otherwise. Over it the ingest's question to FOXDEN, with its 404, 500 and 502, is left out too,
as `DataService` models it. Of the listings, the sort order and the filter by cycle,
which travel to FOXDEN, are left out, and DIDs with a `=` in a value. That a port is taken ends a process
as a bad configuration does and has no action.

## 6. Plan

1. The catalog-service's URLs beside those of `IdentityService`: it renders the DIDs it
   lists as queries to the data-service, which refuses those in upper case.
2. Theorems that combine modules: that what `RdfMapping` makes of a record is what
   `DataServiceAssumption` asks of an ingest's triples.
3. `ReadsTraceable` for any DID the code accepts, with the graph in place of the dataset.
