# Xenon utilities: a verification project

TLA+ models of the programs in this repository, checked with TLC on small
instances and, where it matters most, proved with TLAPS for every value of the
constants. Paths below are relative to `src/`; `GW` stands for
`xenon-gateway/src/main/java/com/vmware/xenon/gateway`.

## 1. The system

### The gateway (`xenon-gateway`)

A proxy in front of a Xenon service. Every node runs two hosts in one process.

| Part | State | Operations |
|---|---|---|
| `GatewayConfigService` | one replicated, versioned document per configuration: status, forwardingUri, filterRequests | create, PATCH, PUT, DELETE |
| `GatewayPathService`, `GatewayPathFactoryService` | one such document per white-listed path: the allowed actions | create, PATCH, PUT, DELETE |
| `GatewayCache` | in memory on each node: the configuration, a map of paths to actions, each with the version it came from | start (query task, subscription with replay), `handleConfigUpdate`, `handlePathUpdate`, getters |
| `GatewayService` | the cache, and the requests it is deciding | handleStart, handleRequest, handleGet, handleDelete, handleStop |
| `GatewayHost` | the two hosts of the node | start, the availability callbacks, startDispatchHost, stop |

How they interact: a client writes a document at its owner; the Xenon framework
replicates the version to every node's config host; a continuous query on the
node's own replica notifies the `GatewayCache`; `handleRequest` reads the
cache, up to six times per request; `GatewayHost` starts the config host,
waits for its factories and then starts the dispatch host with the
`GatewayService`, whose start fills the cache.

What is hard about it, and what makes it correct:

* Notifications are handled independently of each other, so they arrive in any
  order. The cache must hold, for the configuration and for every path, exactly
  one version, must not go back, and must end up with the newest.
* A version committed while the subscription is under way reaches the cache by
  replay or by a notification, or by both; never by neither.
* Deletions. A deleted configuration leaves its version behind, a deleted path
  leaves nothing.
* A node stops and starts again: the cache is lost, the replica is not.
* The cache changes between two looks of one request. The request must be
  forwarded, or refused, on grounds that held at some moment.
* `stop` and `startDispatchHost` run on different threads without a lock;
  callbacks carry errors; a start reports at most one outcome that is true.

### The other programs

* **xenonc** (`xenonc/`, Go): a command line client. `flags.go` turns a
  sequence of flags such as `--a[0].b=c` into nested maps and slices, one flag
  at a time; `main.go` sends one request and prints the answer. Sequential. What
  is hard: nested values are changed in place through reflection, and copied
  when a slice has to grow. Correct if the first flag of every path is in the
  result, whatever order flags come in.
* **Jepsen test** (`jepsen/`, Clojure): drives reads, writes and
  compare-and-set against a Xenon cluster under partitions, and classifies each
  answer as ok, fail or unknown for a linearizability checker. Calls are lost or
  late, and answered before they are done; compare-and-set is a read and a
  conditional PATCH. Correct if what it reports is true of an atomic register.
* **Swagger adapter** (`swagger-adapter/`, Java): asks every service of a host
  for its template, waits for all answers, and assembles a Swagger document;
  `ModelRegistry` names the kinds it meets. Services answer in any order or
  fail, and some have nothing to describe. Correct if every GET is answered, the
  same templates give the same document, and two kinds never share a model.
* **Kotlin examples** (`kotlin/`): `KotlinExampleService` keeps a counter that
  updates only move up "to deal with possible operation re-ordering";
  `ExampleAggregatorService` sums the counters up in a GET that waits, on its
  thread, for a query that needs a thread too.
* **slf4j binding** (`logging/`): stateless formatting of log messages.
* **Distributed tracing demo** (`distributed-tracing/`): starts two hosts with a
  tracing library.
* `contrib/`, the Docker files, the Maven wrappers and `xenonc/vendor` are
  tooling and third-party code.

## 2. Modules

| Module | Models | State |
|---|---|---|
| `GatewayTypes` | documents and bodies (`State` of both services, `GatewayStatus`) | none: constants and sets |
| `GatewayCache` | what one document of a notification does to the cache (`GatewayCache.java`) | none: operators, each one `synchronized` block |
| `GatewayDocuments` | the two stateful services | `history`: every version of every document |
| `Gateway` | how configuration reaches the nodes | `local` (replicas), `phase` (start of the service), `cache`, `pending` (notifications under way), `restarts` |
| `RoutingView` | abstract: what the cache promises of the configuration | `published`, `at`, `view` |
| `GatewayService` | `handleRequest` against a cache that changes | `cache`, `op`, `at`, `status`, `target`; `updates` (bound), `seen` (history) |
| `GatewayHost` | starting and stopping the two hosts | the two fields, the state of each host, `at` (line of each start), `owner` (line of stop), callbacks |
| `JepsenClient` | `invoke!` of `xenon.clj`, the calls of `xenonclient.clj`, and the service they talk to | the document and its `version`; per operation its `call`, `request`, `answer`, `report` |
| `CasRegister` | abstract: an atomic compare-and-set register, and what a history says of it | `value`; per operation `taken`, `seen`, `report`, `result` |
| `FlagMap` | `flags.go` of xenonc | `args` (left to read), `data` (the result), `outcome`; `read` (history) |
| `SwaggerAssembler` | the GETs of the Swagger descriptor, `ModelRegistry` | per GET: `at`, `links`, `answer`, `swagger` |
| `KotlinExamples` | the Kotlin example service and its aggregator | `doc` (the counters); per GET `at`, `result`, `total` |
| `MCGateway`, `MCGatewayService`, `MCJepsenClient`, `MCFlagMap`, `MCSwagger` | bodies, documents, keys, kinds and symmetry for TLC | |
| `GatewayProofs`, `GatewayServiceProofs`, `GatewayHostProofs`, `JepsenProofs`, `FlagMapProofs`, `KotlinProofs`, `SwaggerProofs` | theorems about the module each is named for | |
| `GatewayCacheProofs` | lemmas about the cache's handlers, shared by the first two | |

`Gateway` extends `GatewayDocuments` and `GatewayCache` and adds the actions
between them; `GatewayService` extends `GatewayCache`, so both route by the
same cache. The correspondence of each definition to source lines is in
`PROJECT.json` under `map`. What follows is what a reader of the code may miss.

**Versions.** A document is the sequence of its versions, numbered from 0;
`documentVersion` is the place in it. A document that is created again after a
deletion goes on with the next number, as the index of the framework does.
Requests that a handler rejects (no body, no status, another path) change
nothing and are not steps. An update of a path without actions is one of them:
`updateState` fails with a NullPointerException at
`GW/GatewayPathService.java:122`.

**The framework.** Replication, the continuous query, the subscription and
`mergeWithState` are not in this repository. They are modelled as loosely as
the gateway's use of them allows: a replica may skip versions, a notification
may be handled at any later time and in any order, and every request of the
gateway may fail. The map marks what stands for them as external. Two of their
guarantees are relied on: a subscription that is accepted misses no later
change of its replica, and replay covers the documents that exist at that
moment.

**Atomicity.** `handleConfigUpdate` and `handlePathUpdate` decide and write
inside one `synchronized` block, hence one step. A notification with several
documents is several steps, one per document, since the blocks are. In
`handleRequest` each look at the cache is a block of its own, hence a step
of its own. In `GatewayHost` there are no locks, so each line that reads or
writes a field is a step, on both sides.

**Host calls.** `main` calls `start` once and `stop` in its shutdown hook;
`TestGatewayHost` calls them in turn, and calls `stop` before it retries a
failed start. The model does the same; callbacks and `startDispatchHost` of an
earlier start may be late and meet a later one.

**The Jepsen test.** Operations are not bound to processes: one that is never
completed leaves its process waiting, and the others go on. The service is outside
the repository and taken to be right, that is, atomic per request; it may
handle a request at any later time or never, refuse it, or answer 408 or 500
and still perform it. Writes are POSTs with a forced index update, so they
always apply; a PATCH applies to the version it names. The history variables
`taken` and `seen` record the moment each operation took effect, a change when it is
performed and a read when the service looks, and what the read found: they are what
the refinement mapping to `CasRegister` needs, where an "ok" is only reported of
what was taken. `doubt` marks the operations
reported failed for a 408 or a 500.

**Flags.** A key is the sequence of steps that the two patterns of `assign` find
in it. `Slots` are the slots that its steps lead through. `assign` is a function
from the value of a slot to its new value, which sets every slot on the way anew
(`SetAt`). The code changes values in place, except where it copies a slice to make
it longer; a copy made for an element of a slice is lost, and that is `Dropped`.

**Swagger.** Of a template, only the kinds that `addOperation` meets are kept,
in order; of the document, which model each of them refers to. The paths that one
service adds are one path of the model. A service that answers with neither
documents nor routes ("bare") adds none, as `addOperation` has no branch for it
(`SwaggerAssembler.java:255`, `:263`). The models that a model refers to are reduced to one field,
which has none of its own: enough for a kind to be named while another one is loaded.
A prefix is stripped by segments. The set of services, the query for it, their join
and a join of nothing are the framework's. Each GET has a registry of its own, as each has its
`SwaggerAssembler`.

**Kotlin.** Documents are their counters. Handlers need a thread that no waiting
GET keeps (`ThreadFree`); what wakes a waiting GET runs on its own thread.
Counters are wider than `MaxInt`, so that `asInt` (`AsInt`) has something to
cut off.

### Definitions marked as mutants

A few operators carry a comment that starts with "Mutant". They are what a
definition next to them would be with a plausible mistake in the code (a
version not compared, a deletion that forgets its version, an error that is not
counted). Nothing uses them; put in the place of the definition they stand next
to, each makes the property named in `PROJECT.json` fail, which shows that the
property depends on the code being right there.

## 3. What is checked

| Run | Bounds | States | Shows |
|---|---|---|---|
| `gateway_config` | 1 node, 1 restart; default configuration 3 versions, another 1; 3 bodies | 35 000 | one version at a time, forward only, converges, implements `RoutingView`, ends up current |
| `gateway_paths` | 1 node, 1 restart; one path 4 versions, the configuration 1; 3 bodies | 230 000 | the same for paths that exist |
| `gateway_requests` | 1 request, 2 paths (one the parent of the other), 2 backends, 4 changes of the cache | 820 000 | verdicts, grounds, every request answered |
| `gateway_host` | 2 starts, 2 stops, 2 factories | 160 000 | waiting for callbacks, reports, clean stops, starts return |
| `jepsen_client` | 3 operations, 2 values, both symmetric | 189 000 | reports are true of an atomic register |
| `flag_map` | 3 arguments; 14 keys over 2 names and indexes 0 to 2, with slices in slices, unreadable ones and the empty one; 2 values | 294 000 | which flags are in the result, in any order |
| `swagger` | 2 GETs, 3 services, 4 kinds of answer, 3 lists, 5 kinds, 2 prefixes | 177 000 | same templates, same document; models; whose paths are in it; every GET answered |
| `kotlin_examples` | 2 documents, 2 GETs, 2 threads, 3 PUTs or deletions, counters 1, 2 and 5 with `MaxInt` 3 | 569 000 | counters, sums, every GET answered |
| `path_resurrection` | as `gateway_paths` | | violated, see below |
| `partial_update_filter` | as `gateway_config` | | violated |
| `forwarded_unavailable` | as `gateway_requests` | | violated |
| `stop_leaves_dispatch` | as `gateway_host` | | violated |

**Why the bounds are enough.** Nodes share nothing but the documents, and no
node's step reads another's state, so one node shows what any number does; the
proofs do not depend on it. Three versions of the configuration allow create,
delete, create, and the notifications of all three in any order with the replay;
the fourth version of a path adds an update, which the merge of actions needs. One
restart is enough for a second start from a replica that is ahead of the cache.
A request looks at the cache at most six times; four changes cover a change of
status, filter, backend and path between any two of them. Requests do not read
each other's state either. In `gateway_host` a second start meets the late
callbacks of the first. The second stop follows the second start. Three
operations of the Jepsen test are a compare-and-set with one change before its
read and one between its read and its PATCH; two values tell what it expected
from what it found. Three flags are a container, a flag that grows it and one
that is lost or found afterwards. The kinds of `swagger` clash when they lose
one prefix, the other, or none, and the same kind is met in several templates.
Two GETs of the aggregator keep both threads, and with one of them the queries
still run.

`CHECK_DEADLOCK FALSE` is set everywhere: clients may stop writing, requests end, and a
host that was stopped for good stays so.

**Fairness.** `Gateway!Fairness`: replication reaches every node, the framework
answers every request of a starting service, and every scheduled notification is
handled. Nothing forces clients to write, nodes to stop, or a start to fail.
`GatewayService!Fairness`: handlers run, and a forwarded operation completes, if
only because it expires. `GatewayHost!Fairness`: threads run on, and a config
host *that runs* calls back for every factory, if only with an expiry; nothing
is assumed of a stopped one, and a start that is overtaken by a stop may hang.
`SwaggerAssembler!Fairness`: the list of services comes, and every request is
answered, if only because it expires. `KotlinExamples!Fairness`: an operation
without an answer expires and a thread that is woken runs on; not that a query
ever finds a thread. `JepsenClient` assumes none: without a timeout (see below)
a call need not end.

**The properties.**

* `CachedConfigIsOneVersion`, `CachedPathsAreVersions`: no mixture of versions.
* `ConfigConverges`, `LivePathsConverge`: with no notification under way, the
  cache shows the newest version of the replica. `KnownOrComing` is the reason:
  from the subscription on, the newest version is in the cache, or under way, or
  a deletion of what the node never saw.
* `PathsMoveForward`, `ImplementsRoutingView`: what a step may never do. The
  refinement maps the versions of the default document to what is published and
  the version in a node's cache to where it looks.
* `GatewayEventuallyCurrent`: once writing and restarting end, every node has
  failed to start or serves by the latest configuration.
* `SteadyRequestsGetTheirVerdict`: with a cache that stands still a request gets
  what a one-page definition (`Verdict`) says it deserves.
  `ForwardedOnGrounds`, `RefusedOnGrounds`: when the cache changes meanwhile, each
  ground for the decision held at some moment; not all at one moment, which the
  code does not promise. `EveryRequestAnswered`.
* `DispatchAfterCallbacks`, `FirstReportIsTrue`, `CleanStop`, `StartsReturn`: the
  life of the hosts, as far as no stop overtakes a start.
* `FailureIsReliable`, `PatchMeetsWhatItRead`, `ImplementsRegister`: what a "fail"
  of the Jepsen test entitles its checker to; why reading and patching in two
  calls is atomic all the same; and that the whole history is one of a register, in
  which each "ok", also that of a read that found nothing, follows the one moment
  at which the operation took effect. The first and the last leave out reports
  that rest on a 408 or a 500, which are not true (see below).
* `ResultIsFirstFlags`, `OrderIsIrrelevant`, `KeepsEarlierFlags`: the result of
  xenonc's flags against a definition that knows no maps and slices
  (`Effective`, `Conflicts`).
* `SameTemplatesSameDocument`, `ModelsAreOfTheirKind`, `PathsAreOfTheTemplates`,
  `EveryGetAnswered`: the Swagger document does not depend on the order of
  answers, nor on the services that fail or have nothing to describe, which are
  just missing; names and models fit together.
* `CounterIsHighest`, `TotalIsOfTheHighest`, `EveryGetAnswered`: reordered updates,
  the sum over one moment's documents, and GETs that starve their own queries.

### What the code does not do

1. `path_resurrection`. A notification of a path's creation handled after that of
   its deletion lists the path for good. `handlePathUpdate` keeps nothing of a
   deletion's version, whether it ignores the deletion of a path that is not listed
   (`GW/GatewayCache.java:279`, as in the run's trace) or removes the entry of one that
   is (`:284`), while `handleConfigUpdate` keeps it (`:255`).
2. `partial_update_filter`. A PATCH without `filterRequests` switches filtering
   back on where it was switched off: the initializer of the field
   (`GW/GatewayConfigService.java:58`) puts TRUE into every body that leaves it out,
   and TRUE is merged over the stored FALSE.
3. `forwarded_unavailable`. The status is read twice: PAUSED at the first look and
   UNAVAILABLE at the second passes both checks (`GW/GatewayService.java:103`, `:133`).
4. `stop_leaves_dispatch`. A stop that looks for the dispatch host just before
   it is created leaves it running (`GW/hosts/GatewayHost.java:139`).

More facts that the models contain and no run reports as a failure:

* The start of the `GatewayService` completes before the replayed documents are
  handled, so a node may answer requests by the seed for a while.
* After a failure `startDispatchHost` calls its callback twice, with the error
  and then with success (`FirstReportIsTrue` says how much of it can be
  believed).
* The availability callback ignores errors (`GW/hosts/GatewayHost.java:103`): the
  dispatch host also starts when a factory never became available, though the
  comment above it says it waits for that. `DispatchAfterCallbacks` says only
  what is true.
* The Jepsen test reports a 408 and a 500 as `:fail` (`jepsen/src/jepsen/xenon.clj:134`,
  `:140`), though the change may have taken effect; `ImplementsRegister` holds
  with these read as `:info`, and not otherwise. And it never sets a timeout: the
  options of `http-opts` are passed to clj-http as an argument of their own, though
  the comment at `xenonclient.clj:125` says what they are for.
* xenonc loses a flag without an error when it would lengthen a slice in a slice
  (`xenonc/flags.go:149`), or when its key ends where another flag has put
  something; and an argument of one character makes it panic (`:42`).
* A kind that no prefix is stripped from keeps its name even if another kind has it
  (`ModelRegistry.java:184`): the two share a model. `ModelsAreOfTheirKind` names
  this one exception (`Confusable`: the full name of one kind is what is left of the
  other).
* `ExampleAggregatorService` keeps its thread while it waits, though the comment at
  line 60 says "This will NOT block the current thread": GETs that keep all
  threads fail when their queries expire. One document without a counter
  makes every GET fail, and a PUT without a counter opens the door to late ones.

## 4. What is proved

`GatewayProofs` proves of `Gateway`, for any sets of nodes, documents and
bodies and any bounds, from the named assumptions `TypesAssumption`,
`DocumentsAssumption` and `GatewayAssumption` alone:

| Theorem | Property |
|---|---|
| `TypeCorrect` | `TypeOK` |
| `ConfigNeverMixed`, `PathsNeverMixed` | `CachedConfigIsOneVersion`, `CachedPathsAreVersions` |
| `KnownAlways` | `KnownOrComing` |
| `ConfigConvergence`, `LivePathsConvergence` | `ConfigConverges`, `LivePathsConverge` |
| `PathsOnlyForward` | `PathsMoveForward` |
| `GatewayImplementsRoutingView` | `ImplementsRoutingView` |

The argument has two inductive invariants.

* `Safe`: types, replicas behind the documents, and the two "one version"
  properties. They need each other: that a cached version keeps its content
  needs that histories only grow, and the type of the cache needs the type of the
  version it was made of. `WriteGrows` isolates what a client's update can do
  to a history, so that each node step is looked at with fixed documents, and each
  client step with fixed nodes.
* `KnownOrComing` on top of `Safe`. Neither convergence property is inductive:
  a cache that shows the newest version says nothing of the steps after the
  next replication. What is inductive is that the newest version is known or
  coming, together with the fact that nothing reaches a cache before its node
  subscribes; convergence is the case in which nothing is coming any more.

The two action properties follow from `Safe`: a step that changes the cache either
handles a notification, and the version check decides, or resets it.

`GatewayServiceProofs` proves the four invariants of `GatewayService`, from
`ServiceAssumption` and `TypesAssumption`: `ServiceTypeCorrect` (`TypeOK`),
`ForwardsRestOnGrounds` (`ForwardedOnGrounds`), `RefusalsRestOnGrounds`
(`RefusedOnGrounds`), `SteadyVerdicts` (`SteadyRequestsGetTheirVerdict`). What a
request has learnt at each line is a set of grounds, each of the form "some state
seen so far shows that ..." (`WayGrounds`). Such grounds are only ever added to:
a change of the cache enlarges `seen` and keeps them (`GroundsStay`), and each
line of `handleRequest` adds the one it has just looked at, since the cache of the
moment is among those seen. The final grounds (`ForwardGrounds`,
`RefusalGrounds`) are stronger than the two properties, and if only one state
was seen they decide the `Verdict`. `GatewayCacheProofs` has what this proof
and `GatewayProofs` need to know of the cache's handlers.

`GatewayHostProofs` proves of `GatewayHost`, from `HostAssumption`:
`HostTypeCorrect`, `DispatchWaits` (`DispatchAfterCallbacks`),
`FirstReportsAreTrue` (`FirstReportIsTrue`), `StopsAreClean` (`CleanStop`). Two
parts of the invariant hold whatever overtakes what: the latch is the number of
factories not heard of (`LatchInv`), and the config host that runs is that of the
field (`ConfigInv`). The others hold as long as no stop has overtaken a start: then
one call is under way at most (`QuietInv`), the field holds the host of that call,
and its reports follow what becomes of the host (`ReportInv`). The first stop that
overtakes a start ends this for good, which is why the properties say so.

`JepsenProofs` proves of `JepsenClient`, for any operations and values:
`JepsenTypeCorrect`, `FailuresReliable`, `PatchesMeetWhatTheyRead` and
`HistoryIsAtomic` (`ImplementsRegister`). The invariant relates a request or an
answer under way to what the history variables say of its operation: a change
that was reported failed without doubt has no request left, an "ok" follows the
step that applied it, an answer to a read follows the look that it tells of, and a version that a PATCH names is that of the value read,
as no two values ever share a version.

`KotlinProofs` proves `CounterOnlyUp` (`CounterIsHighest`) and
`TotalsAreOfTheHighest` (`TotalIsOfTheHighest`), for any documents, counters, GETs,
threads and number of updates, from `KotlinAssumption`. The invariant of the counters says "highest" without
the CHOOSE of `Max`. That of the sums, on top of it, says of each document what the
query heard (`Heard`): what a GET has in its hands is, from the query to the answer,
the function of highest counters of one moment, and asInt does not change it.
Nothing is needed of the sum there but that it is taken of that function. For
`KotlinTypeCorrect` (`TypeOK`) it has to be an integer: by induction over the
documents (`TotalIsInt`), which is why the assumption says that they are finitely
many, and that counters are integers.

`SwaggerProofs` proves the four invariants of `SwaggerAssembler` from
`SwaggerAssumption`, for any services, templates, kinds and prefixes:
`SwaggerTypeCorrect` (`TypeOK`), `SameDocuments` (`SameTemplatesSameDocument`),
`PathsFit` (`PathsAreOfTheTemplates`) and `ModelsFit` (`ModelsAreOfTheirKind`).
The invariant of the GETs (`SwaggerInv`) says that an answered GET has the document
that its answers make, since none comes in after the last. Nothing of the order of
links or answers is left in it, nor of the services without a template: two documents
that show the same services are the same (`DocumentOfTheShown`). What a
document contains is shown by induction over the loops that build it, of kinds in
a template (`DescribedSteps`) and of templates in a document (`DocumentSteps`): the
registry stays `Sound`, that is, a name is the full one of its kind or what a
prefix leaves of it, two kinds share one only if they are `Confusable`, and a model
is under the name of the kind it was loaded from; and it only grows, so what was
referred to stays defined.

`FlagMapProofs` proves all of `FlagMap`, for any names, texts and keys of any length
and any number of arguments, from `FlagAssumption`: `FlagTypeCorrect` (`TypeOK`),
`EarlierFlagsKept` (`KeepsEarlierFlags`), `ResultExplained` (`ResultIsFirstFlags`) and
`AnyOrder` (`OrderIsIrrelevant`).

* A result is looked at one path at a time. `AssignChanges`, by induction on the
  length of the path, says what a flag does to the slot there: on the way of its
  key it is filled, dropped or set at the next step, elsewhere it stays.
  `KeepsEarlierFlags` follows.
* `ResultIsFirstFlags` is about leaves and not inductive: which flag comes next to
  be lost or refused depends on the containers between. The invariant (`Explained`,
  with `Fits`) ties every slot to the flags through its path: none without a
  flag, the kind of container that the next steps of the flags name, and for a
  slice in a slice the length that the earliest of them gave it, since
  `OutgrowsElement` is about the earliest.
* For `OrderIsIrrelevant` the invariant is that the result is `Result` of the flags
  read. With `Exact`, which adds which names a map has and how long a slice is, a
  result is determined by the set of its flags (`SameTrees`: from paths longer than
  any key back to the root). Flags that are unrelated are never lost, so each order
  of them makes a result that fits all of them (`Replay`) or, if two disagree, an
  error.

Only model-checked, because the prover does not reach it: liveness
(`GatewayEventuallyCurrent`, `EveryRequestAnswered`, `StartsReturn`, both
`EveryGetAnswered`: fairness and ENABLED). Every other property of a run that passes
has a theorem. No module declares a RECURSIVE operator: loops and recursion are
recursive functions, and the library's induction theorems, which take an operator as a
parameter, are replaced by `SetInduction`, which says the same of a set and follows
from the least element of its complement.

## 5. Plan

Done: the gateway (documents, cache, nodes, abstract view, requests, hosts), with
every invariant proved; the Jepsen client with its register, xenonc's flags, the
Swagger adapter and the Kotlin examples, model-checked and proved likewise. Next:
the gateway end to end, that is, `GatewayService` over the `Gateway` of one node.
Now its environment is any sequence of notifications, which includes those of
`Gateway`: a request reads the actions, status and backend of an entry, never its
version, and a notification that is out of date leaves the cache as it is.

## 6. Not modelled

URI rewriting, headers and request logging of `GatewayService` (data that no
property tells apart); authentication, peer discovery and node-group membership
(the framework's); argument parsing of the hosts; the slf4j binding and the
tracing demo (no state); vendored and build code. `xenonc/main.go` (one request,
no state), the set up and tear down of the Jepsen test's cluster and the calls of
`xenonclient.clj` it never makes, the layout of Swagger paths and properties,
keys and names in the aggregator's answer.

The JavaScript in `swagger-adapter/src/main/resources/ui` (`swagger-ui.js`,
`swagger-ui-bundle.js`, `swagger-ui-standalone-preset.js`) is the distribution of
swagger-ui, vendored and minified: a line of it is a whole library. It is served as
a static resource and no part of the programs above runs it, so nothing here is
translated from it. The programs of the repository itself are in Java, Go,
Clojure and Kotlin, and it is their lines that the map names.

## 7. Running

    tlc -workers 2 -config MCGateway_config.cfg MCGateway
    tlc -workers 2 -config GatewayHost.cfg GatewayHost
    tlapm GatewayServiceProofs.tla
    tlapm FlagMapProofs.tla

and likewise for the other configurations named in `PROJECT.json`.
