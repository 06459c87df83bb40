# TLA+ models of the Giti engine

Giti is a geospatial server made of small services (Go and Rust) over PostGIS,
Redis and NATS. The models kept here describe the parts of it whose correctness
depends on the order of things: caches that are invalidated by a counter, an
event or a clock, jobs handed over a message bus, locks checked before a
statement runs, boots that meet on one database, catalog mutations made of
several statements, a request on its way through limiter, decision and
dispatch. One pure part is modelled too, because its mistakes are silent: the
way of a filter from its text to the clause PostgreSQL reads.

## Inventory

| Component | State it keeps | Operations | Interacts with | What is hard | Model |
|---|---|---|---|---|---|
| `tiles` cache (`services/tiles/src/{cache,wmts,events,meta,mvt,raster}.rs`) | blobs on disk, `tilegen:{layer}` in Redis | serve a tile, seed, truncate, handle a catalog event | reads the catalog tables and the data, listens to `catalog.layer.*` and `catalog.featuretype.*` | a slow writer against a newer generation, two writers of one file, Redis away | `TileCache` |
| `tiles` grid (`grid.rs`) | none | tile ↔ envelope | – | overflow at high zoom | not modelled |
| `wps` jobs (`services/wps/internal/wps`) | one status file per job, NATS subscriptions | Execute, the worker, GetStatus | NATS, a volume shared by the replicas | a status file written by two processes and read by others, lost messages, crashes | `WpsJobs` |
| `wps` processes (`internal/process`) | none | geometry functions | PostGIS | – | not modelled |
| `wfs` locks and transactions (`stored_lock.go`, `transaction.go`) | a map of locks per process | LockFeature, Transaction (Insert, Update, Delete) | PostGIS | check and act under different protection, expiry, several statements without a transaction | `WfsLocks` |
| `wfs` reads (`getfeature.go`, `encode.go`, `stored_lock.go`) | none | GetFeature, GetPropertyValue, DescribeFeatureType | PostGIS, the header of the gateway | count and page are two statements, constraints of several sources, answers cut short | `WfsReads` |
| `wfs` metadata (`internal/meta`) | layers for 60 s, one pool per store | Resolve, poolFor | catalog tables | stale entries, layers read in pieces, pools created twice | `WfsReads` |
| filters (`libs/ogc-kit/filter`) | none | ParseCQL, ParseFilterXML, ToSQL | wfs, auth | precedence, folding, numbering, two front ends of one tree | `Filters`, `FilterPaths` |
| `catalog` (`internal/store`, `internal/rest`, `internal/events`) | workspaces, stores, resources, layers, styles | the REST handlers | publishes every change on NATS | handlers of several statements, counts before cascades, reads written back | `Catalog` |
| migrations and seeds of `auth` and `catalog` (`migrate.go`, `SeedAdmin`) | schema version, administrator | boot | PostGIS | replicas booting at once, a boot that ends halfway | `Boot`, `Deployment` |
| `catalog` connectors, CSW, conversion of styles | none | test, convert, search | files, PostGIS | – | not modelled |
| `auth` decisions (`internal/api/check.go`) | decisions and `authz:gen` in Redis, users, roles and rules in Postgres | check, login, security mutations | the gateway asks it for every request | the order of reads against commit and bump | `AuthzCache` |
| `auth` rules (`internal/rules`) | none | Evaluate | – | priorities, LIMIT constraints before the deciding rule | `Rules` |
| `gateway` (`authz.go`, `dispatch.go`, `middleware.go`) and `libs/ogc-kit/ows` | a rate limiter per client | limit, authorize, negotiate, dispatch | all services | clients against each other, auth silent, parameters read twice | `Gateway` |
| `convert` | uploaded files | convert, register | catalog | – | not modelled |
| `wms` | a pool | GetMap and others | catalog tables | – | not modelled: rendering only; which rows an image shows is `Shown` in `Catalog` |
| `libs/geo-core` and the rest of `ogc-kit` | none | encoders, exceptions | – | – | not modelled |
| frontend, deploy | – | – | REST | – | not modelled |

What makes each part correct: a tile, a layer, a decision or a lock is never
used longer after the change that should have ended it than the code promises;
a job that was accepted and sent is executed after its request has let go of it
and keeps its outcome; a catalog change that was answered with success has been
announced to those who cache it; a boot neither harms the schema nor keeps the
next one from serving; a filter selects what its author meant, however it was
written and whatever it was joined with; what reaches a backend is what the
rules allow.

## Modules

* `TileCache` – one layer of the tile cache. `task` holds the program counter
  and the locals of each request in progress (`serve_tile`, `seed`), `gen` the
  counter in Redis, `blobs` the files. What a render reads is a pair of version
  numbers, `conf` (the catalog row) and `rows` (the table), so that a tile's
  age can be compared with what was committed when its generation began
  (`floor`), and with what was committed when a truncate was acknowledged
  (`promised`). Redis may come back from an outage without its counters, while the
  blobs stay on disk: `highest` is the highest generation ever given, and `tainted`
  holds those that began under a running seed and, after such a loss, all given
  until then. `Cache::put` is two steps, because `fs::write` creates the file
  and then writes it; `PutLeft` is a write that fails or whose process dies. The
  history variable `marred` holds the keys whose file two writers had open, or one
  left unfinished, since a writer last opened it alone. `Truncate`, `HandleEvent`, `CatalogCommit`,
  `CatalogPublish`, outages of Redis and kills are the environment of the
  requests.
* `TileCacheProofs` – theorems about it.
* `WpsJobs` – requests, workers and the status file of each job. Every status
  write is an open and a write. `Connected` is the set of replicas that had NATS
  when they booted (`main.go` boots without one); `Boot` starts the server and
  `Subscribe` the worker, which runs beside it and whose error is discarded. A
  message goes to every subscriber, `sentTo`; `Shared` is a job two workers were
  given. `WorkerWriteFails` is a status
  write of a worker whose error the callback discards.
* `JobLife` – the abstract life of a job: accepted, started, executed once, its
  outcome; or shared by two workers, which ends the promise. `shown` is what its
  client saw last. `WpsJobs` implements it under
  `phase <- Phase`, which reads the phase off the status file and `ranBy`, and
  `shown <- polled`: `JobsLiveOnce`.
* `WfsLocks` – lock requests and transactions as sequences of queries, one lock
  map per replica. `Scripts` are the bodies of the transactions, `TableOf` the
  table behind a layer, minutes pass by `Tick`.
* `WpsJobsProofs`, `WfsLocksProofs` – theorems about the two.
* `AuthzCache` – the decision of one user for one request. Rules and roles are
  version numbers, a decision is the pair it rests on. The user of a Basic
  header and the roles are two queries (`Authenticate`, `ReadRoles`), a token
  brings both.
* `AuthzCacheProofs` – theorems about it.
* `Catalog` – the tables of the catalog and its REST handlers. `Handler` gives
  each handler as the sequence of its statements, one action per method of
  `internal/store` executes them, and `StepsOf` applies the `recurse` parameter.
  Errors end a request or are discarded where the handler discards them
  (`Unchecked`). `WellFormed` is what the keys and references of the schema keep,
  of the tables and of every catalog a behaviour starts from; `Recursing` is the
  handlers with `recurse=true`. The history variable `pending` relates changes to events: it
  keeps, for each layer the tile service caches, the requests that changed what
  its tiles show and that no event about it has followed. What tiles show is
  `Shown`: the feature types vector tiles are made of (tiles' `meta.rs`), and what
  `wms` draws images from, coverages with their stores, or the default style and
  its body. An upload goes to the table `sanitizeIdent` names.
* `CatalogProofs` – theorems about it.
* `Filters` – the package `libs/ogc-kit/filter`, function by function: the
  recursive descent over tokens (`ParseOr` … `ParseDWithin`), the conversion of
  an XML document (`Convert`), `andCQL` of auth, which joins the constraints of
  rules as text, and the SQL emitter with its counter of placeholders. A text is
  a sequence of tokens, a document a tree of elements, a clause a sequence of
  tokens with bound values.
* `FilterPaths` – one filter through all of it (`Read`, `Refuse`, `Compile`),
  and the reference definitions it is measured by: how a meant filter is
  written (`Spell`, `XmlOf`), what it selects in three-valued logic (`Meaning`)
  and how PostgreSQL reads a clause (`SqlMeaning`).
* `Boot` – replicas that boot on one database: `EnsureTable` and `CreateTable`
  (CREATE TABLE IF NOT EXISTS looks and then creates, and fails if another did
  meanwhile), `CheckVersion`, `Apply`, `Record`, `Commit` per migration, then the three seeds. Waiting for
  the transaction that holds the same row is `Waits`. `alone` remembers whether
  any other replica booted or any fault hit during the boot.
* `Deployment` – the abstract schema: `Upgrade` by one, serve only on what the
  image needs. `Boot` implements it under `schema <- applied`,
  `serving <- {r : rep[r].pc = "serving"}`.
* `BootProofs` – theorems about `Boot`, the refinement among them.
* `WfsReads` – `Meta.Resolve` statement by statement (`Lookup`, `ReadResource`,
  `ReadStore`, `FindPool`, `CreatePool`, `ReadGeometry`, `ReadColumns`, `Keep`),
  then `Parse`, `CountMatched`, `RunQuery`, `SendPage` of GetFeature and
  GetPropertyValue. A filter is the columns it names and the rows it selects;
  what a filter text selects is the subject of `FilterPaths`. Geometry and
  columns are looked up by the table's name in every schema (`namesake` is the
  table of that name in another one), `Idents` are the names `qi` lets into a
  statement. A change of catalog, table or rows may come between any two statements.
* `WfsReadsProofs` – theorems about it.
* `Rules` – `matches` and `Evaluate` over the ordered list of rules. `Rounds`
  gives what the loop holds after each rule (a recursive function, so that it can
  be proved about), `Consider` is one round and `Apply` the switch in it.
* `Gateway` – requests through `Allow` (rate limiter), `Check`, `CheckFails` or
  `GiveUp` (the call to auth and its five seconds), `Dispatch` (endpoint,
  negotiation of versions, choice of the backend) and `Backend`, while rules are
  created and deleted. `seen` and `mark` are history: the rules a request was
  decided by, and how many requests of a client were admitted before each tick.
  `Forwarded` is the header a backend gets: the constraint of the rules, or, where
  they give none, what the client sent.
  The property about versions has an order of its own, `Below` (the first number
  that differs decides, a missing one is 0), instead of the loop of `cmpVer`.
* `GatewayProofs` – theorems about it.
* `MC*` – the instances TLC checks.

Definitions whose comment begins with "Slip" are faulty variants of the
definition after them. No specification uses them; they show that the properties
notice the mistake.

## Runs

| Run | Asks | Result |
|---|---|---|
| `tilecache_seed` | can an old tile be stored or answered after the change it should follow, and can half a tile be? | an old one is stored only under a generation that began while a seed was running or whose number was given before Redis lost its counters, and answered only from those or after an outage; half a one only while it is written, or after two wrote it at once or a write was left unfinished |
| `tilecache_live` | does one subscriber that has handled every event suffice for the tiles in reach to show the last change, and does that come about? | yes, without faults |
| `tilecache_seed_stale` | does truncate invalidate all tiles of a layer (`wmts.rs:246`)? | no: a seed computes the key after it has rendered |
| `wps_jobs` | is a job executed once, with an outcome only then and nothing shown before it is reached, does a polled status only move forward, do sent jobs end? | yes, of a job given to one worker at most; the last without faults |
| `wfs_locks` | is a lock that was in the map when an operation began respected by it? | yes, if the operation was checked |
| `wfs_retry` | do refused clients get through when they try again? | yes, unless the key of one of their Inserts is taken for good, which their own first attempt can do |
| `wfs_reads` | are the rows of an answer those every filter selects, as many as were counted; are layers from the cache at most a minute behind; does a read fail without a reason; do pools multiply; do requests work with the current layer in the end? | yes, no, no, yes, with the exceptions under known deviations |
| `filter_paths` | is a filter read as it was meant in every form, is nothing of a text passed over, does the clause select the rows meant? | yes |
| `authz_cache` | are answers as recent as the acknowledged rules, and does the cache converge? | yes |
| `gateway` | does what reaches a backend follow from one decision of one list of rules, with the right version; is the limiter exact; is every request answered although auth is silent? | yes, except the constraint a client sends itself where no rule gives one |
| `boot` | does a replica that boots alone serve after any crash, does one of many serve, does the schema advance in order, does the chosen password survive? | yes |
| `catalog_events` | is every change of what tiles show followed by an event about that layer, and does a delete without `recurse` spare what it could have counted? | yes, except after errors and faults, for cascades, for uploads into a table other layers show, and for images changed by way of a store, a style or a deleted coverage |

The run marked `violation` in `PROJECT.json` checks a statement of the
repository that the code does not keep; TLC's trace shows how.

### Bounds

Every specification bounds what a client or the environment may repeat, in the
guards of the actions: changes, truncates, outages and crashes (`TileCache`),
kills and failing status writes (`WpsJobs`), failing queries and restarts (`WfsLocks`), mutations and
faults (`AuthzCache`), failing statements, lost events and kills (`Catalog`),
faults (`Boot`), changes and faults (`WfsReads`), ticks and changes of rules
(`Gateway`), tokens of a text (`FilterPaths`).
A few of each are enough for the races at hand, which are between one slow
request and one change: a second request or change repeats a state the first has
left.

* `tilecache_seed` has one request and one seed, so that every pair of a slow
  writer and a change occurs, with an outage and a crash around them.
  `tilecache_live` has two replicas, because each bumps the shared counter, and
  two changes, so that one event may be handled while the next is on its way.
* `wps_jobs` has two connected replicas, so that a job is shared, or given to one
  of them, or to none, and two jobs, so that a worker has one in its inbox while
  it runs the other; one fault, a kill or a failing write at any step.
* `wfs_locks` has two lockers and two transactions at one process, one failing
  query and one restart; `wfs_retry` two replicas, and scripts with Inserts before
  and after what a lock may refuse, among them one that replaces a row. Features
  are two, values two, so that a filter by value gains and loses rows.
* `wfs_reads` has one request that reads in every format and one that
  describes, so that they share the cache and meet at the pools; three rows and
  filters of one or two, so that offset, limit and count differ; a table that is
  there or gone, with or without one of its name in another schema, which has
  another geometry and a column `qi` refuses; two databases, one of them the
  catalog's own; a lifetime of one tick, one change and one fault.
* `filter_paths` has every kind of test alone, negated and in pairs, and every
  term of depth two over three of them, BETWEEN among these; two constraints
  joined; every text of up to four tokens of a vocabulary with the ambiguous
  words. A precedence mistake shows with two connectives, a folding mistake with
  three operands, a numbering mistake with two values behind a statement's own.
* `authz_cache` has two mutators between commit and bump at the same time, one
  after a change of rules, one after a change of roles; one check is enough,
  since a decision outlives the check that made it, and the proof is for any
  number.
* `gateway` has two clients with one request each, one of any of twelve kinds
  (by URL, by body, by endpoint, without service, with bad credentials …), and
  two changes among four rules, with and without a header of the client, so that a LIMIT stands before and after a rule
  that decides. One tick and a burst of one let a bucket empty and refill.
* `boot` has three replicas, one with an image of one migration less; databases
  without the table of migrations, without, with some and with all migrations; two faults, so that a replica can
  fail twice in a row.
* `catalog_events` has every pair of calls from four catalogs: an empty
  workspace, an empty store, and a layer of a table or of an image next to a
  second store; a style without a workspace that the layer uses and a workspace's
  own that shadows it; a second name whose upload goes to the table of the first.

Symmetry is used only in safety runs (`wfs_locks`, `catalog_events`): requests
of a kind are interchangeable. Deadlock checking is off where the system may
stop: when every request has been answered, every replica has booted or the
filter has been compiled.

### Fairness

Weak fairness is given to the steps of a request, a worker or a subscriber once
it has started, because they are straight-line code of a live process and wait
for no one; to the clock (`Tick`, `DecisionExpires`, `TokenExpires`); and to the
client of `RefusedGoesThrough`, who tries again. Requests, changes, faults and
recoveries are never fair, nor is the subscription of a worker, whose error is
discarded; no restart policy is among the deployment files. In detail:

* `EditsReachTiles` is checked without outages and crashes, since an event that
  meets one is lost.
* `DecisionsConverge` uses the expiry of tokens and decisions and holds even
  when every bump was lost.
* `SentJobsEnd` is stated for behaviours without a fault, since a job whose
  worker dies, or whose last status write fails, stays where it was; and for jobs
  a worker was given, but no second one.
* `SomeReplicaServes` assumes the steps of a boot and that each replica is
  started once (`FirstStart`), as `up --scale` does; it is stated for behaviours
  without a fault.
* `CurrentInTheEnd` assumes the steps of a request and the clock; requests keep
  coming or stop as they like.
* `AnsweredInTheEnd` assumes the gateway's own steps, its timer (`GiveUp`) and
  the backends, for which the gateway sets no limit; `Check` is not fair, so auth
  may say nothing for ever.

## What is proved

`TileCacheProofs` proves, for any tiles, tasks, replicas and bounds (the
assumptions of `TileCache`: finite sets are not needed, the bounds are natural
numbers, there is a tile, and servers and seeders are disjoint):

* `TypeCorrect`: `Spec => []TypeOK`.
* `StoredTilesFresh`: `Spec => []StaleOnlyIfTainted`. The property is not
  inductive: a blob takes its age from what its writer read, so the invariant
  `FreshInv` adds that a server in the middle of a request has read data at
  least as recent as the generation in its key (`ServeInvOf`), that a seed has
  read data as recent as every generation that is not tainted (`SeedInvOf`),
  that no generation claims more than is committed (`FloorInv`), and that a
  number is given again only if it is tainted (`RepeatInv`). The order of the two calls in `serve_tile` – key first, then
  the render – is what makes `ServeInvOf` inductive, and the opposite order in
  `seed` is why `SeedInvOf` needs the set `tainted`.
* `AnswersFresh`: `Spec => []FreshUnlessSeedOrOutage`, from `FreshInv` and two
  more invariants: an answer is as recent as the generation of its key
  (`AnswerInv`), and while Redis has always answered that generation is as
  recent as the last acknowledged truncate (`PromiseInv`).
* `TilesAreWhole`: `Spec => []WholeUnlessContended`. `PutInv` adds that a key
  names one file, that two writers of one file have marked its key, and that the
  only writer of an unmarked key finds its file empty. That last part rests on
  the truncation: without it (`PutOpenOver`) a shorter tile over a longer one
  would leave a tail that nobody could explain by a second writer.

* `HandledChangesAreShown`: `Spec => []HandledChangesShow`, the safety half of
  `EditsReachTiles`. `CatchUpInv` adds that the generation lags behind the
  catalog by no more changes than wait, to be published or for any one
  subscriber, whatever the others have done: a bump leaves nothing behind for
  anybody, because it claims what is committed when it happens and not what its
  event told. With `FreshInv` no reachable tile is older than that, and nothing
  shows what is not committed.

`AuthzCacheProofs` proves, for any checks, mutators, schemes and bounds:

* `TypeCorrect`: `Spec => []TypeOK`, with at most one decision under a key.
* `AnswersFollowRules`: `Spec => []RulesFresh`. A decision may be cached long
  after the rules it was made from have changed, so the property says nothing
  of what a later check may find. `RulesInv` adds that, until a call fails,
  what is cached under the current generation, or about to be, is as recent as
  the acknowledged rules (`CurrentInv`: the new generation and the
  acknowledgement come in one step and the new one has no decision yet), and
  that what a check may still find under the generation it holds is as recent
  as what was acknowledged when it came in (`FoundInv`). Reading the generation
  before the rules is what `ListRulesCore` rests on.

`BootProofs` proves, for any replicas, images, databases, repeatable migrations
and faults: `BootTypeCorrect` (`TypeOK`, with `objects = applied`),
`LoneBootsServe` (`[]LoneBootServes`), `PasswordSurvives` and
`BootsUpgradeInOrder`, that `Boot` implements `Deployment`. The invariant says
that the recorded versions are the first ones (`Prefix`), that a replica at a
version has all before it and one that serves has all of its image (`Reached`),
that two open transactions never hold the same version (`Held`, which rests on
`Waits`), and that nobody boots beside a lone boot, creates its table or records
its version (`Alone`). Each step is then an
`Upgrade`, a `StartServing`, a `Stop` or a stutter of `Deployment`.

`WfsReadsProofs` proves, for any finite sets of requests and features, any
tables, databases, columns, questions and bounds, shapes whose geometry is a
column of its own, and a lifetime of at least one tick: `WfsReadsTypeCorrect`,
`PoolsStayFew` (`[]PoolsBounded`), `LayersAreFresh` (`HitsAreFresh`) and
`RefusalsHaveACause` (`RefusedOnlyIfChanged`, which speaks of tables whose name
no other schema has and of names `qi` admits). The invariant follows a layer
while it is read in pieces: unless it is torn, each piece fits the catalog and
table as they are (`Fits`); an entry nobody changed behind is current, and one
that was changed behind is at least as old as the quiet since (`CacheFits`).
That last inequality is what the expiry rests on. For the pools it counts the
requests that are about to create one together with those created
(`PoolsCounted`), with cardinalities of `FiniteSetTheorems`.

`PagesAreAsAsked` (`[]RowsAsAsked`) needs what is asked to be well formed
(`AsksAssumption`) and the keys of the rows to be numbers (`KeysAssumption`). Its
invariant is `AllPaged`: the count of a request is that of the rows as they are
until somebody writes, and a page is what its place in that count leaves. Two
facts about data carry it. The filters of a request, which `parseGetFeature`
joins one by one with `AndExpr`, together select the rows each of them selects
(`JoinedFacts`); and the rows sorted by key take the places 1 to n without a gap
(`PlacesAreTaken`), so that a page between two places has as many rows as places
(`PageCount`).

`WpsJobsProofs` proves, for any jobs, replicas and faults: `WpsTypeCorrect` and
`RequestsPrecedeWorkers` (`[]RequestThenWorker`, whose invariant the next two
theorems use). The property says nothing of the queues, so the invariant adds
that what a worker has, in its inbox or in hand, was published by a request that
is answered (`HandsOK`): the order of `Enqueue` – file first, message then – is
what makes it inductive.

`StatusForward` proves `StatusMovesForward`, for any number of connected
replicas. A job that two workers were given is excepted (`Shared`): each runs it,
and they write its file in turn (known deviations). `LifeInv` adds that a worker
is given a job once (`OnceOK`), so that the file of a job that is not shared
has one writer at a time, whose program counter tells what the file holds
(`ContentOK`) and what of it a client can have been shown (`ShownOK`). Faults are
included: a file left half written by a process that died is never taken up
again, and one whose write failed is taken up by the same worker only. What other
jobs do, shared ones among them, leaves all this alone.

`JobLivesOnce` proves, under no further hypothesis, that `WpsJobs` implements
`JobLife` (`JobsLiveOnce`). The refinement needs two invariants more: who has
executed a job is about to write its outcome, has written it, or has lost it
(`RanOK`), and what is about to be written is an outcome of the process
(`OutcomeOK`). Publishing is a stutter, or a `Share` if two workers hear it, as
is every open a stutter: the abstract job moves with the four writes that tell
something and with the execution itself (`LifeRequest`, `LifeWork`, `LifePoll`,
`LifeStep`). Of a shared job `JobLife` promises nothing but statuses.

`WfsLocksProofs` proves, for any layers, tables, filters, nonempty scripts,
replicas and requests: `LocksTypeCorrect` and `LocksAreEnforced`
(`HeldLocksEnforced`). `Guarded` carries what an operation knows from its
beginning to its statement: the locks it began under are still in the map of its
process when it is checked, unless they expired, and after the check none of
them that is active holds a feature of the target. Locks granted in between,
of other processes or of before a restart are not in `held`, and an operation
whose query failed has no target: the gaps under known deviations.

`GatewayProofs` proves, for any clients, requests, messages, rules, rate and
burst: `GatewayTypeCorrect` and `LimiterIsExact` (`RateExact`). A bucket only
knows its level; that the level equals the tightest of all stretches of time is
`Metered`: since every tick a client used at most its allowance, and since one
tick – when the bucket was last full – exactly that.

`BackendsServeWhatWasDecided` (`[]ServedAsDecided`) and
`BackendsAreToldTheirVersion` (`[]VersionNegotiated`) take any well-formed rules
and messages and versions of any length (`RulesAssumption`,
`MessagesAssumption`, `DefaultAssumption`). The invariant `Decided` says that a
request past the check carries the decision of the list it was checked against
(`Sound`, with `Grants` for the constraint: the rules' own, or, where they give
none, the client's), whatever became of the rules since, and that the rows of
rules have ids of their own, so that priority and id order them in exactly one list
(`RulesOK`). The rest is about the two algorithms: that the loop of `Evaluate`
ends with the constraints of the LIMIT rules before the first ALLOW or DENY, and
that the first version of a list that `cmpVer` admits is the highest that is not
above the wanted one.

`CatalogProofs` proves, for any requests, calls, catalogs whose keys and
references hold (`CatalogsAssumption`), failing statements, lost events and
kills:

* `CatalogTypeCorrect` (`[]TypeOK`): besides the types, the keys and foreign keys
  of the tables, which `ON DELETE CASCADE` and the conflict clauses of the
  upserts have to keep.
* `ChangesAreAnnounced` (`[]ChangesAnnounced`). `PendingOK` says whose a change
  without an event may be: a cascade's, an upload's to a layer other than its
  own, that of an operation tiles do not hear (`Unheard`), or a request's that
  has not ended well. It is inductive because every
  handler that ends well has published after its last change (`ProgressOK` keeps
  requests on their list of statements).
* `DeletesSpare` (`DeletesSpareWhatTheySaw`): between the count of a delete and
  the delete only rows come into its way whose authors had not made them when it
  came in (`SparedOK`), since no request makes its row twice (`AuthorsOK`).

What a loop or a fold computes for every list is shown without induction over
data: a set of counterexamples that is not empty has a least one (`Least`, from
`WFMin` and `NatLessThanWellFounded`, in `GatewayProofs` and `WfsReadsProofs`),
and the step before that one refutes it.

The assumptions of these theorems are the `ASSUME`s of the component's module,
which TLC evaluates in every run.

### Only model-checked

* Liveness: `EditsReachTiles`, `SentJobsEnd`, `RefusedGoesThrough`,
  `DecisionsConverge`, `SomeReplicaServes`, `CurrentInTheEnd` and
  `AnsweredInTheEnd` rest on fairness, whose `ENABLED` the prover does not reason
  about.
* The properties of `FilterPaths` (`ReadAsMeant`, `FrontEndsAgree`,
  `NothingDropped`, `SelectsWhatIsMeant` and its `TypeOK`). The parser and the
  emitter are mutually recursive over texts and trees; a proof would be an
  induction over that data, and the prover has no arithmetic in a module that
  declares recursive operators.

Every other property of the passing runs is a theorem. `LocksAreEnforced` covers
the replicas, restarts and failing queries of `wfs_retry`, which therefore only
asks for progress.

## Known deviations

What the models contain and a statement of the repository, or a reader, would
not expect. Where one of them bears on a property, the comment of the property says
what it excepts.

* **A tile can be answered 204 although it is not empty.** `fs::write` in place
  (`cache.rs:71`) lets a second request read a file that is created and not yet
  written; `docs/services/tiles.md:21` says 204 is for empty tiles.
  `WholeUnlessContended` bounds it: the file is being written, or two wrote it at
  once, or a write was left unfinished, and the next lone writer repairs it.
* **Generations repeat when Redis comes back without its counters.** A missing
  counter reads as 0 (`cache.rs:24-28`) while the blobs stay on their volume, so
  tiles of the first time a number was given are answered the second time.
  `StaleOnlyIfTainted` bounds it: the first number never given before is clean.
* **Every connected `wps` replica executes every job.** `RunWorker` subscribes
  without a queue group (`jobs.go:99`); `docs/services/wps.md:21` speaks of a
  worker pool. They write one status file in turn, so a finished job may be shown
  running again. The properties of `WpsJobs` are about jobs that one worker was
  given; two connected replicas run in `wps_jobs`, and nothing is promised of the
  jobs they share (`Shared`). A replica whose subscription failed serves without
  a worker and says so to nobody (`main.go:36`).
* **A lock granted between check and statement does not stop the statement.**
  `enforceLocks` leaves the mutex before the statement runs
  (`stored_lock.go:142`); `docs/ogc-compliance.md:36` says locks are enforced in
  transactions. The locks live in one process, compare table names of all
  stores, and an edit whose target query fails is not checked. The comment at
  `stored_lock.go:160-161` says the opposite of both the document and the code,
  "Locks are advisory … Transaction does not yet enforce lockId": it is older
  than `enforceLocks`, and `HeldLocksEnforced` follows the code.
* **A refused transaction can block its own retry.** Operations are committed one
  by one (`transaction.go:201`), so an Insert in front of the refused operation
  stays, and every later attempt fails on its key. `RefusedGoesThrough` excepts
  it (`KeyTaken`).
* **Some changes of what tiles show are announced to nobody who caches them.**
  Images are drawn by `wms` from coverages, their stores and the styles of
  layers, but the tile service listens to `catalog.layer.*` and
  `catalog.featuretype.*` alone (`events.rs:29-48`); a deleted coverage publishes
  `catalog.coverage.deleted` (`layers.go:255`), a changed store or style
  `catalog.store.*`, `catalog.style.*` or nothing. `docs/services/tiles.md:36` says
  "edit a layer in catalog, its tiles drop"; `ChangesAnnounced` excepts these
  operations by name (`Unheard`).
* **Tables of one name in two schemas are mixed.** `Resolve` looks geometry and
  columns up by the table's name alone (`meta.go:83-97`), so a layer may be given
  columns its table does not have, which every read then fails on.
  `RefusedOnlyIfChanged` excepts it (`NamesakeOf`), as it does tables and columns
  whose name `qi` refuses (`encode.go:15-22`, `Spelled`).
* **Headers of a client reach the backend where auth gives none.**
  `authzMiddleware` sets `X-Giti-CQL-Read`, `X-Giti-CQL-Write` and `X-Giti-Roles`
  only when the decision has them (`authz.go:68-79`) and removes nothing.
  `ServedAsDecided` says so: without a constraint of the rules, the request's own
  header is what the backend reads.
* **A change of roles can be missed for the life of a decision.** `check` reads
  the roles (`check.go:82`) before the generation, so an old decision can be
  stored under the new generation; `docs/services/auth.md:21` promises instant
  invalidation. `RulesFresh` is about rules, which are read after it.
* **A POST is authorized by the parameters of its URL and dispatched by those of
  its body** (`authz.go:29-40`, `dispatch.go:74`). `ServedAsDecided` compares the
  two only for requests whose URL and body say the same.
* **A constraint of the rules that does not parse is passed over**
  (`getfeature.go:141-146`). `RowsAsAsked` is about constraints that do.
* **Losers of the race for a migration, or for the table of migrations, exit**
  (`main.go`), and nothing starts them again. `SomeReplicaServes` promises one.
* `propertyName` that leaves no attribute column makes a statement PostgreSQL
  refuses; `RefusedOnlyIfChanged` excepts it (`Selects`).
* GetPropertyValue does not ask for the error of its rows
  (`stored_lock.go:17-56`): a lost connection looks like a short page.
* When auth answers with an error of its own the gateway answers a challenge,
  401, as for wrong credentials.
* The map of rate limiters grows with every client (`middleware.go:59`).
* `Cache::bump_generation` discards the error of `INCR`: an event handled while
  Redis does not answer leaves the old tiles reachable until the next change.
  `tilecache_live` therefore has no outage, and `FreshUnlessSeedOrOutage` says
  nothing after one.
* The srs of a BBOX and the units of DWITHIN are read and then dropped
  (`sql.go:148-169`). `Meaning` takes them as those of the column, so
  `SelectsWhatIsMeant` does not see the loss.
* `seed` takes no lock, though `docs/ops/scaling.md:18` speaks of Redis locks.
* `Enqueue` accepts a job when the process has no NATS connection.
* A WPS poll that meets the status file between its truncation and its write is
  answered 404 (`polled` stays, `Status` is "404").
* `GetFeatureWithLock` is answered like `GetFeature` (`wfs.go:54`).
* No event drops what `wfs` has cached, against `docs/services/catalog.md:24-25`
  ("config cache drop"); `HitsAreFresh` promises the minute of the code.
* `v1UpdateStore`, `v1DeleteStore`, `v1CreateStyle` and `v1DeleteStyle` publish
  nothing, against `docs/services/catalog.md:23`; a delete without `recurse` can lose what is
  created after its count; an upload replaces the table `sanitizeIdent`
  makes of its name, whichever layers show it, and publishes a layer of the name
  as it was given (`apiv1_ingest.go:52-70`); `updateLayer` writes back a flag it has read.

## Not modelled

* Rendering (`wms`, the pixels and encodings of `tiles`), the geometry functions
  of `wps` and `libs/geo-core`, the encoders of `wfs`: pure computations that
  keep no state another step could find stale.
* The tile arithmetic of `grid.rs`: pure, and its hazard is the width of
  floating-point numbers and shifts, which TLC cannot compare with anything.
* The lexer of CQL and the decoding of XML: characters, not order.
* CSW, layer groups, gridsets and the settings of the catalog: single statements
  about rows of their own. The connectors and `convert`: I/O.
* Capabilities and stored-query descriptions of `wfs`: one query and a template.
* Metrics, health checks, the frontend and the deployment files.
* In `AuthzCache` a set of rules is its version; what a list decides is `Rules`,
  checked within `Gateway`, which in turn takes every answer of auth as fresh.
  Their composition adds nothing the two do not say: `AuthzCache` bounds which
  list an answer rests on, `Gateway` follows from whatever list it was.

## What could come next

1. `CatalogTiles`: `Catalog` and `TileCache` composed, events as the only link,
   with an abstract "no reachable tile is older than the last announced change".
2. Abstract specifications of the tile cache (a versioned store) and of the locks
   (who may change which rows), refined by `TileCache` and `WfsLocks` as
   `Deployment` is by `Boot`.
