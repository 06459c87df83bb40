------------------------------ MODULE TileCache ------------------------------
(***************************************************************************)
(* The tile cache of services/tiles for one layer.                         *)
(*                                                                         *)
(* A blob is addressed by (tile, generation); the generation is a counter  *)
(* in Redis, and an invalidation is an INCR of it: every key changes and   *)
(* the old blobs become unreachable.  The blobs are files on a volume all  *)
(* replicas share.  serve_tile computes the key BEFORE it renders; seed    *)
(* resolves the layer once, then for each tile renders FIRST and computes  *)
(* the key afterwards.  A catalog change is published on NATS after its    *)
(* commit, and every replica's subscriber bumps the generation for it.     *)
(*                                                                         *)
(* A tile is rendered from two inputs: the catalog row of the layer (its   *)
(* native table and SRS) and the rows of that table.  Both are versions    *)
(* here, and what a tile shows is the pair of versions it was made from.   *)
(* Every rendered tile is taken to be non-empty.                           *)
(***************************************************************************)
EXTENDS Integers, FiniteSets

CONSTANTS
    Tiles,          \* the tiles of the layer (z/x/y of one gridset, one ext)
    Servers,        \* request tasks running serve_tile
    Seeders,        \* request tasks running seed
    Replicas,       \* tiles processes, one NATS subscriber each
    MaxConf,        \* bound: catalog changes of the layer
    MaxRows,        \* bound: edits of the layer's table
    MaxTruncates,   \* bound: truncate requests
    MaxOutages,     \* bound: times Redis becomes unreachable
    MaxCrashes      \* bound: processes killed

ASSUME TilesAssumption == Tiles # {}
ASSUME TasksAssumption == Servers \cap Seeders = {}
ASSUME BoundsAssumption ==
    /\ MaxConf \in Nat
    /\ MaxRows \in Nat
    /\ MaxTruncates \in Nat
    /\ MaxOutages \in Nat
    /\ MaxCrashes \in Nat

VARIABLES
    now,        \* [conf, rows]: the committed catalog row and table contents
    toPublish,  \* catalog changes committed whose event is not published yet
    inbox,      \* [Replicas -> Nat]: events delivered to a subscriber, unhandled
    subscribed, \* [Replicas -> BOOLEAN]: the subscriber is running
    redisUp,    \* Redis answers
    gen,        \* tilegen:{layer}, 0 when the key is missing
    blobs,      \* the files of the cache directory
    task,       \* [Servers \cup Seeders -> Task]: the requests in progress
    budget,     \* what is left of the bounds on truncates, outages and crashes
    \* history variables
    highest,    \* the highest generation there has been
    floor,      \* floor[g]: what was committed when the counter first was g
    promised,   \* what was committed when the last truncate was acknowledged
    tainted,    \* generations that began while a seed was running, or that there
                \* had been before Redis lost its data
    marred      \* keys whose file, since a writer last opened it alone, a second
                \* writer has opened or a writer has left unfinished

vars == << now, toPublish, inbox, subscribed, redisUp, gen, blobs, task,
           budget, highest, floor, promised, tainted, marred >>

-----------------------------------------------------------------------------
(* Types.                                                                  *)

Version == [conf : Nat, rows : Nat]
NoVersion == [conf |-> 0, rows |-> 0]

Tasks == Servers \cup Seeders

ServePC == {"idle", "get", "resolve", "render", "open", "write", "done"}
SeedPC  == {"idle", "render", "key", "open", "write"}

\* A blob's content: "empty" after the file was created or truncated by open,
\* "whole" when it is one rendered tile, "mixed" when a writer left the tail of
\* a longer tile another writer had put there.
Content == {"empty", "whole", "mixed"}

Blob == [tile : Tiles, gen : Nat, ver : Version, content : Content]

Task == [pc      : ServePC \cup SeedPC,
         tile    : Tiles,
         gen     : Nat,             \* the generation in the key
         ver     : Version,         \* what was read so far, or the answer
         content : Content,         \* what the answer holds
         since   : Version,         \* promised when the request came in
         todo    : SUBSET Tiles]    \* seed: the tiles still to render

\* a is at least as recent as b
AtLeast(a, b) == a.conf >= b.conf /\ a.rows >= b.rows

Older(a, b) == [conf |-> IF a.conf <= b.conf THEN a.conf ELSE b.conf,
                rows |-> IF a.rows <= b.rows THEN a.rows ELSE b.rows]

IdleTask == [pc |-> "idle", tile |-> CHOOSE t \in Tiles : TRUE, gen |-> 0,
             ver |-> NoVersion, content |-> "whole", since |-> NoVersion,
             todo |-> {}]

Running(p) == task[p].pc # "idle"

\* The key of the blob a task reads or writes, and who has it open.
Key(p) == << task[p].tile, task[p].gen >>
Writers(key) == {p \in Tasks : task[p].pc = "write" /\ Key(p) = key}

Init ==
    /\ now = NoVersion
    /\ toPublish = 0
    /\ inbox = [r \in Replicas |-> 0]
    /\ subscribed = [r \in Replicas |-> TRUE]
    /\ redisUp = TRUE
    /\ gen = 0
    /\ blobs = {}
    /\ task = [p \in Tasks |-> IdleTask]
    /\ budget = [truncates |-> MaxTruncates, outages |-> MaxOutages,
                 crashes |-> MaxCrashes]
    /\ highest = 0
    /\ floor = [g \in {0} |-> NoVersion]
    /\ promised = NoVersion
    /\ tainted = {}
    /\ marred = {}

-----------------------------------------------------------------------------
(* The cache operations.                                                   *)

\* Slip: an unreadable counter is -1.
GenerationOrMinusOne == IF redisUp THEN gen ELSE -1

\* Cache::generation: 0 when the key is missing and on any Redis error.
Generation == IF redisUp THEN gen ELSE 0

\* Cache::bump_generation: INCR, its error discarded.  The history records
\* what a generation that is new may assume and whether a seed is in progress.
BumpGeneration ==
    IF redisUp
    THEN /\ gen' = gen + 1
         /\ highest' = IF gen = highest THEN gen + 1 ELSE highest
         /\ floor' = [g \in 0 .. highest' |->
                          IF g \in 0 .. highest THEN floor[g] ELSE now]
         /\ tainted' = IF \E s \in Seeders : Running(s)
                       THEN tainted \cup {gen + 1} ELSE tainted
    ELSE UNCHANGED << gen, highest, floor, tainted >>

BlobsAt(t, g) == {b \in blobs : b.tile = t /\ b.gen = g}

\* Slip: the file is opened without truncating it.
PutOpenOver(p) ==
    /\ blobs' = IF BlobsAt(task[p].tile, task[p].gen) # {} THEN blobs
                ELSE blobs \cup {[tile |-> task[p].tile, gen |-> task[p].gen,
                                  ver |-> task[p].ver, content |-> "empty"]}
    /\ marred' = IF Writers(Key(p)) = {} THEN marred \ {Key(p)}
                                        ELSE marred \cup {Key(p)}

\* Cache::put is fs::write: the file is created or truncated first ...
PutOpen(p) ==
    /\ blobs' = (blobs \ BlobsAt(task[p].tile, task[p].gen))
               \cup {[tile |-> task[p].tile, gen |-> task[p].gen,
                      ver |-> task[p].ver, content |-> "empty"]}
    /\ marred' = IF Writers(Key(p)) = {} THEN marred \ {Key(p)}
                                        ELSE marred \cup {Key(p)}

\* ... and the bytes are written from offset 0.  If another writer has filled
\* the file since this one opened it, a shorter tile leaves its tail behind.
PutWrite(p) ==
    /\ \E old \in BlobsAt(task[p].tile, task[p].gen), mixed \in {FALSE, TRUE} :
         /\ mixed => /\ old.content # "empty"
                     /\ ~(old.content = "whole" /\ old.ver = task[p].ver)
         /\ blobs' = (blobs \ {old}) \cup
              {[tile |-> old.tile, gen |-> old.gen,
                ver |-> IF mixed THEN Older(old.ver, task[p].ver) ELSE task[p].ver,
                content |-> IF mixed THEN "mixed" ELSE "whole"]}
    /\ UNCHANGED marred

\* The file stays as it is, though the task may have it open.
PutLeft(p) ==
    /\ marred' = IF task[p].pc = "write" THEN marred \cup {Key(p)} ELSE marred
    /\ UNCHANGED blobs

-----------------------------------------------------------------------------
(* serve_tile, one action per await.                                       *)

catalogVars == << now, toPublish, inbox, subscribed >>
genVars == << gen, highest, floor, tainted >>
files == << blobs, marred >>
othersOfTask == << catalogVars, redisUp, genVars, promised, budget >>

Goto(p, pc) == task' = [task EXCEPT ![p].pc = pc]

\* A request for a tile comes in; the key is computed from the generation.
ServeKey(p) ==
    /\ task[p].pc = "idle"
    /\ \E t \in Tiles :
         task' = [task EXCEPT ![p] = [IdleTask EXCEPT !.pc = "get", !.tile = t,
                                         !.gen = Generation, !.since = promised]]
    /\ UNCHANGED << othersOfTask, files >>

\* A hit is answered as it is read; a miss goes on to render.
ServeGet(p) ==
    /\ task[p].pc = "get"
    /\ IF BlobsAt(task[p].tile, task[p].gen) = {}
       THEN Goto(p, "resolve")
       ELSE \E b \in BlobsAt(task[p].tile, task[p].gen) :
              task' = [task EXCEPT ![p].pc = "done", ![p].ver = b.ver,
                                   ![p].content = b.content]
    /\ UNCHANGED << othersOfTask, files >>

ServeResolve(p) ==
    /\ task[p].pc = "resolve"
    /\ task' = [task EXCEPT ![p].pc = "render", ![p].ver.conf = now.conf]
    /\ UNCHANGED << othersOfTask, files >>

\* Slip: the key is computed once the tile is rendered.
ServeRenderThenKey(p) ==
    /\ task[p].pc = "render"
    /\ task' = [task EXCEPT ![p].pc = "open", ![p].ver.rows = now.rows,
                            ![p].gen = Generation]
    /\ UNCHANGED << othersOfTask, files >>

ServeRender(p) ==
    /\ task[p].pc = "render"
    /\ task' = [task EXCEPT ![p].pc = "open", ![p].ver.rows = now.rows]
    /\ UNCHANGED << othersOfTask, files >>

\* 404 when the layer does not resolve, 500 when the query fails.
ServeError(p) ==
    /\ task[p].pc \in {"resolve", "render"}
    /\ Goto(p, "idle")
    /\ UNCHANGED << othersOfTask, files >>

ServeOpen(p) ==
    /\ task[p].pc = "open"
    /\ PutOpen(p)
    /\ Goto(p, "write")
    /\ UNCHANGED othersOfTask

ServeWrite(p) ==
    /\ task[p].pc = "write"
    /\ PutWrite(p)
    /\ task' = [task EXCEPT ![p].pc = "done", ![p].content = "whole"]
    /\ UNCHANGED othersOfTask

\* The result of put is discarded: the tile is answered though it was not
\* stored, and a file that was opened stays empty.
ServePutFails(p) ==
    /\ task[p].pc \in {"open", "write"}
    /\ task' = [task EXCEPT ![p].pc = "done", ![p].content = "whole"]
    /\ PutLeft(p)
    /\ UNCHANGED othersOfTask

ServeReturn(p) ==
    /\ task[p].pc = "done"
    /\ task' = [task EXCEPT ![p] = IdleTask]
    /\ UNCHANGED << othersOfTask, files >>

-----------------------------------------------------------------------------
(* seed.  The code walks the tiles row by row; the order is left open.     *)

\* The layer is resolved once, for the whole run.
SeedStart(p) ==
    /\ task[p].pc = "idle"
    /\ task' = [task EXCEPT ![p].pc = "render", ![p].todo = Tiles,
                            ![p].ver.conf = now.conf]
    /\ UNCHANGED << othersOfTask, files >>

SeedRender(p) ==
    /\ task[p].pc = "render"
    /\ \E t \in task[p].todo :
         \/ task' = [task EXCEPT ![p].pc = "key", ![p].tile = t,
                                 ![p].ver.rows = now.rows]
         \/ task' = [task EXCEPT ![p].todo = @ \ {t}]  \* the query failed
    /\ UNCHANGED << othersOfTask, files >>

\* The key of the tile that has just been rendered.
SeedKey(p) ==
    /\ task[p].pc = "key"
    /\ task' = [task EXCEPT ![p].pc = "open", ![p].gen = Generation]
    /\ UNCHANGED << othersOfTask, files >>

SeedOpen(p) ==
    /\ task[p].pc = "open"
    /\ PutOpen(p)
    /\ Goto(p, "write")
    /\ UNCHANGED othersOfTask

NextSeedTile(p) ==
    task' = [task EXCEPT ![p].pc = "render", ![p].todo = @ \ {task[p].tile}]

SeedWrite(p) ==
    /\ task[p].pc = "write"
    /\ PutWrite(p)
    /\ NextSeedTile(p)
    /\ UNCHANGED othersOfTask

SeedPutFails(p) ==
    /\ task[p].pc \in {"open", "write"}
    /\ NextSeedTile(p)
    /\ PutLeft(p)
    /\ UNCHANGED othersOfTask

SeedReturn(p) ==
    /\ task[p].pc = "render"
    /\ task[p].todo = {}
    /\ task' = [task EXCEPT ![p] = IdleTask]
    /\ UNCHANGED << othersOfTask, files >>

-----------------------------------------------------------------------------
(* Invalidation.                                                           *)

\* Slip: acknowledged without a bump.
TruncateNoBump ==
    /\ budget.truncates > 0
    /\ budget' = [budget EXCEPT !.truncates = @ - 1]
    /\ promised' = now
    /\ UNCHANGED << catalogVars, redisUp, genVars, files, task >>

\* POST /api/v1/tiles/truncate: one bump, acknowledged whatever Redis said.
Truncate ==
    /\ budget.truncates > 0
    /\ budget' = [budget EXCEPT !.truncates = @ - 1]
    /\ BumpGeneration
    /\ promised' = now
    /\ UNCHANGED << catalogVars, redisUp, files, task >>

\* The catalog commits a change of the layer's feature type ...
CatalogCommit ==
    /\ now.conf < MaxConf
    /\ now' = [now EXCEPT !.conf = @ + 1]
    /\ toPublish' = toPublish + 1
    /\ UNCHANGED << inbox, subscribed, redisUp, genVars, files, task, budget,
                    promised >>

\* ... and then publishes it, once; whoever is not subscribed misses it.
CatalogPublish ==
    /\ toPublish > 0
    /\ toPublish' = toPublish - 1
    /\ inbox' = [r \in Replicas |-> IF subscribed[r] THEN inbox[r] + 1
                                                     ELSE inbox[r]]
    /\ UNCHANGED << now, subscribed, redisUp, genVars, files, task, budget,
                    promised >>

\* A WFS transaction or an edit in the database: no event.
EditRows ==
    /\ now.rows < MaxRows
    /\ now' = [now EXCEPT !.rows = @ + 1]
    /\ UNCHANGED << toPublish, inbox, subscribed, redisUp, genVars, files,
                    task, budget, promised >>

\* Slip: the event is consumed without a bump.
HandleEventNoBump(r) ==
    /\ subscribed[r]
    /\ inbox[r] > 0
    /\ inbox' = [inbox EXCEPT ![r] = @ - 1]
    /\ UNCHANGED << now, toPublish, subscribed, redisUp, genVars, files, task,
                    budget, promised >>

\* subscribe_invalidations: one bump per event, in every replica.
HandleEvent(r) ==
    /\ subscribed[r]
    /\ inbox[r] > 0
    /\ inbox' = [inbox EXCEPT ![r] = @ - 1]
    /\ BumpGeneration
    /\ UNCHANGED << now, toPublish, subscribed, redisUp, files, task, budget,
                    promised >>

-----------------------------------------------------------------------------
(* Faults.                                                                 *)

RedisFails ==
    /\ redisUp
    /\ budget.outages > 0
    /\ redisUp' = FALSE
    /\ budget' = [budget EXCEPT !.outages = @ - 1]
    /\ UNCHANGED << catalogVars, genVars, files, task, promised >>

\* Redis comes back with its data or empty: it is deployed without a named volume,
\* the files are on one.  A counter that is lost starts again, and repeats.
RedisRecovers ==
    /\ ~redisUp
    /\ redisUp' = TRUE
    /\ \/ UNCHANGED << gen, tainted >>
       \/ /\ gen' = 0
          /\ tainted' = tainted \cup 0 .. highest
    /\ UNCHANGED << catalogVars, highest, floor, files, task, promised, budget >>

\* A task is dropped: its process was killed.  The files stay as they are.
KillTask(p) ==
    /\ budget.crashes > 0
    /\ Running(p)
    /\ budget' = [budget EXCEPT !.crashes = @ - 1]
    /\ task' = [task EXCEPT ![p] = IdleTask]
    /\ PutLeft(p)
    /\ UNCHANGED << catalogVars, redisUp, genVars, promised >>

\* A replica dies with what its subscriber had not handled ...
KillSubscriber(r) ==
    /\ budget.crashes > 0
    /\ subscribed[r]
    /\ budget' = [budget EXCEPT !.crashes = @ - 1]
    /\ subscribed' = [subscribed EXCEPT ![r] = FALSE]
    /\ inbox' = [inbox EXCEPT ![r] = 0]
    /\ UNCHANGED << now, toPublish, redisUp, genVars, files, task, promised >>

\* ... and subscribes anew when it boots.
Subscribe(r) ==
    /\ ~subscribed[r]
    /\ subscribed' = [subscribed EXCEPT ![r] = TRUE]
    /\ UNCHANGED << now, toPublish, inbox, redisUp, genVars, files, task,
                    budget, promised >>

-----------------------------------------------------------------------------
(* Specification.                                                          *)

ServeStep(p) ==
    \/ ServeGet(p) \/ ServeResolve(p) \/ ServeRender(p) \/ ServeError(p)
    \/ ServeOpen(p) \/ ServeWrite(p) \/ ServePutFails(p) \/ ServeReturn(p)

SeedStep(p) ==
    \/ SeedRender(p) \/ SeedKey(p) \/ SeedOpen(p) \/ SeedWrite(p)
    \/ SeedPutFails(p) \/ SeedReturn(p)

Next ==
    \/ \E p \in Servers : ServeKey(p) \/ ServeStep(p)
    \/ \E p \in Seeders : SeedStart(p) \/ SeedStep(p)
    \/ Truncate
    \/ CatalogCommit \/ CatalogPublish \/ EditRows
    \/ \E r \in Replicas : HandleEvent(r) \/ KillSubscriber(r) \/ Subscribe(r)
    \/ RedisFails \/ RedisRecovers
    \/ \E p \in Tasks : KillTask(p)

Spec == Init /\ [][Next]_vars

\* A task that has started runs to its end, the catalog publishes what it has
\* committed and a subscriber handles what it has received: these are loops and
\* straight-line code of live processes.  Requests, changes, faults and what ends
\* an outage are free.
Fairness ==
    /\ \A p \in Servers : WF_vars(ServeStep(p))
    /\ \A p \in Seeders : WF_vars(SeedStep(p))
    /\ WF_vars(CatalogPublish)
    /\ \A r \in Replicas : WF_vars(HandleEvent(r))

FairSpec == Spec /\ Fairness

-----------------------------------------------------------------------------
(* Properties.                                                             *)

\* Types of the variables; the keys of a blob name it, and no key is ahead of
\* the generation.
TypeOK ==
    /\ now \in Version
    /\ promised \in Version
    /\ toPublish \in Nat
    /\ inbox \in [Replicas -> Nat]
    /\ subscribed \in [Replicas -> BOOLEAN]
    /\ redisUp \in BOOLEAN
    /\ highest \in Nat
    /\ gen \in 0 .. highest
    /\ blobs \subseteq Blob
    /\ task \in [Tasks -> Task]
    /\ budget \in [truncates : Nat, outages : Nat, crashes : Nat]
    /\ floor \in [0 .. highest -> Version]
    /\ tainted \subseteq 0 .. highest
    /\ marred \subseteq Tiles \X Nat

\* A tile stored under a generation was rendered from what was committed when
\* that generation began, or later: computing the key before rendering makes a
\* blob written late land under the old generation (wmts.rs serve_tile).  Two
\* exceptions: a seed was running when the generation began, or there had been
\* one of that number before Redis lost its counters.
StaleOnlyIfTainted ==
    \A b \in blobs :
        /\ b.gen \in 0 .. highest
        /\ b.gen \notin tainted => AtLeast(b.ver, floor[b.gen])

\* A stored tile is whole unless a writer has its file open, or since one opened
\* it alone another has opened it as well or a writer has left it unfinished
\* (cache.rs put): only such a file is answered empty, or as two tiles in one.
WholeUnlessContended ==
    \A b \in blobs :
        \/ b.content = "whole"
        \/ Writers(<< b.tile, b.gen >>) # {}
        \/ << b.tile, b.gen >> \in marred

\* While Redis has always answered, a request that comes in after a truncate
\* was acknowledged never gets a tile older than that truncate, unless a seed
\* was running when its generation began (wmts.rs truncate).
FreshUnlessSeedOrOutage ==
    budget.outages = MaxOutages =>
        \A p \in Servers :
            task[p].pc = "done" /\ task[p].gen \notin tainted
                => AtLeast(task[p].ver, task[p].since)

\* "truncate invalidates all cached tiles for a layer" (wmts.rs:246): no
\* request that comes in after it is answered with an older tile.
TruncateInvalidates ==
    \A p \in Servers :
        task[p].pc = "done" => AtLeast(task[p].ver, task[p].since)

\* "edit a layer in catalog, its tiles drop" (docs/services/tiles.md): once
\* the catalog stops changing, no reachable blob predates its last change.
ReachableBlobsCurrent ==
    \A b \in blobs : b.gen = gen => b.ver.conf = now.conf
EditsReachTiles == <>[]ReachableBlobsCurrent

\* While nothing has failed, one replica that has handled every event is enough:
\* once it has, no reachable blob predates the last change, however far behind
\* the other replicas are, unless a seed was running when the generation began
\* (events.rs: every subscriber bumps the one generation all of them share).
HandledChangesShow ==
    /\ budget.outages = MaxOutages /\ budget.crashes = MaxCrashes
    /\ toPublish = 0 /\ \E r \in Replicas : inbox[r] = 0
    /\ gen \notin tainted
    => ReachableBlobsCurrent

-----------------------------------------------------------------------------
(* The inductive invariant behind the two freshness properties.            *)

\* No generation claims more than is committed.
FloorInv ==
    /\ \A g \in 0 .. highest : AtLeast(now, floor[g])
    /\ AtLeast(now, promised)

\* A generation the counter will reach again is tainted.
RepeatInv == (gen + 1) .. highest \subseteq tainted

\* What a server has read was read after its key was computed.
ServeInvOf(p) ==
    /\ task[p].gen \in 0 .. highest
    /\ task[p].pc \in {"render", "open", "write"} /\ task[p].gen \notin tainted
          => task[p].ver.conf >= floor[task[p].gen].conf
    /\ task[p].pc \in {"open", "write"} /\ task[p].gen \notin tainted
          => task[p].ver.rows >= floor[task[p].gen].rows

\* What a seed has read is as recent as every generation that did not begin
\* while it was running.
SeedInvOf(p) ==
    /\ task[p].gen \in 0 .. highest
    /\ Running(p) => \A g \in (0 .. highest) \ tainted :
                        task[p].ver.conf >= floor[g].conf
    /\ task[p].pc \in {"key", "open", "write"}
          => \A g \in (0 .. highest) \ tainted : task[p].ver.rows >= floor[g].rows

FreshInv ==
    /\ TypeOK
    /\ FloorInv
    /\ RepeatInv
    /\ \A p \in Servers : ServeInvOf(p)
    /\ \A p \in Seeders : SeedInvOf(p)
    /\ StaleOnlyIfTainted

\* An answer is as recent as the generation of its key.
AnswerInv ==
    \A p \in Servers :
        task[p].pc = "done" /\ task[p].gen \notin tainted
            => AtLeast(task[p].ver, floor[task[p].gen])

\* Without an outage the generation of a request is at least as recent as the
\* truncate it must respect.
PromiseInv ==
    /\ budget.outages <= MaxOutages
    /\ budget.outages = MaxOutages =>
          /\ redisUp
          /\ gen = highest
          /\ AtLeast(floor[gen], promised)
          /\ \A p \in Servers :
                Running(p) => AtLeast(floor[task[p].gen], task[p].since)

\* Behind HandledChangesShow: nothing shows what is not committed, and while
\* nothing has failed the changes the generation may not show are all waiting,
\* to be published or for each subscriber.
CatchUpInv ==
    /\ \A p \in Tasks : AtLeast(now, task[p].ver)
    /\ \A b \in blobs : AtLeast(now, b.ver)
    /\ budget.outages <= MaxOutages /\ budget.crashes <= MaxCrashes
    /\ budget.outages = MaxOutages => redisUp /\ gen = highest
    /\ budget.crashes = MaxCrashes => \A r \in Replicas : subscribed[r]
    /\ budget.outages = MaxOutages /\ budget.crashes = MaxCrashes =>
          \A r \in Replicas : now.conf <= floor[gen].conf + toPublish + inbox[r]

\* Behind WholeUnlessContended: a key names one file, and the file of a key that
\* is not marred has one writer at most, who finds it empty.
PutInv ==
    /\ \A b, c \in blobs : b.tile = c.tile /\ b.gen = c.gen => b = c
    /\ \A p, q \in Tasks :
         p # q /\ task[p].pc = "write" /\ task[q].pc = "write" /\ Key(p) = Key(q)
            => Key(p) \in marred
    /\ \A p \in Tasks, b \in blobs :
         task[p].pc = "write" /\ << b.tile, b.gen >> = Key(p) /\ Key(p) \notin marred
            => b.content = "empty"
    /\ WholeUnlessContended

=============================================================================
