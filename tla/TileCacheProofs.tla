--------------------------- MODULE TileCacheProofs ---------------------------
(***************************************************************************)
(* TLAPS proofs about TileCache, for any tiles, tasks, replicas and        *)
(* bounds: type correctness, freshness, whole tiles and handled events.    *)
(***************************************************************************)
EXTENDS TileCache, TLAPS

-----------------------------------------------------------------------------
(* Lemmas about the operators the actions are built from.                  *)

\* The idle task has the type of a task.
LEMMA IdleTaskType == IdleTask \in Task
  <1>1. (CHOOSE t \in Tiles : TRUE) \in Tiles
    BY TilesAssumption
  <1>2. NoVersion \in Version
    BY DEF NoVersion, Version
  <1>3. QED
    BY <1>1, <1>2 DEF IdleTask, Task, ServePC, SeedPC, Content

\* An idle task is idle.
LEMMA IdleTaskIdle == IdleTask.pc = "idle" /\ IdleTask.gen = 0
  BY DEF IdleTask

\* Generation returns a generation the counter has had.
LEMMA GenerationType == TypeOK => Generation \in Nat /\ Generation \in 0 .. highest
  BY DEF TypeOK, Generation

\* The older of two versions is a version, and is as recent as anything both
\* are as recent as.
LEMMA OlderProps ==
    ASSUME NEW a \in Version, NEW b \in Version
    PROVE  /\ Older(a, b) \in Version
           /\ \A v \in Version : AtLeast(a, v) /\ AtLeast(b, v)
                                   => AtLeast(Older(a, b), v)
  BY DEF Older, Version, AtLeast

\* There is nothing from n + 1 to n.
LEMMA NothingAbove == ASSUME NEW n \in Nat, NEW S PROVE (n + 1) .. n \subseteq S
  OBVIOUS

\* A bump leaves every generation there has been as it was, and one that is new
\* claims what is committed now.
LEMMA BumpProps ==
    ASSUME TypeOK, BumpGeneration
    PROVE  /\ highest' \in Nat
           /\ gen' \in 0 .. highest'
           /\ floor' \in [0 .. highest' -> Version]
           /\ tainted' \subseteq 0 .. highest'
           /\ tainted \subseteq tainted'
           /\ highest' \in {highest, highest + 1}
           /\ RepeatInv => RepeatInv'
           /\ \A g \in 0 .. highest : floor'[g] = floor[g]
           /\ highest' = highest + 1 =>
                /\ floor'[highest + 1] = now
                /\ (\E s \in Seeders : Running(s)) => highest + 1 \in tainted'
           /\ redisUp /\ gen = highest =>
                gen' = highest' /\ highest' = highest + 1
  <1>1. /\ gen \in Nat /\ highest \in Nat /\ gen <= highest
        /\ now \in Version /\ floor \in [0 .. highest -> Version]
        /\ tainted \subseteq 0 .. highest
    BY DEF TypeOK
  <1>2. CASE redisUp /\ gen = highest
    <2>1. /\ gen' = gen + 1 /\ highest' = highest + 1
          /\ floor' = [g \in 0 .. highest' |->
                          IF g \in 0 .. highest THEN floor[g] ELSE now]
          /\ tainted' = IF \E s \in Seeders : Running(s)
                        THEN tainted \cup {gen + 1} ELSE tainted
      BY <1>2 DEF BumpGeneration
    <2>2. /\ floor' \in [0 .. highest' -> Version]
          /\ \A g \in 0 .. highest : floor'[g] = floor[g]
          /\ floor'[highest + 1] = now
      BY <1>1, <2>1
    <2>3. tainted' \subseteq 0 .. highest' /\ tainted \subseteq tainted'
      BY <1>1, <1>2, <2>1
    <2>4. gen' = highest' /\ highest' \in Nat
      BY <1>1, <1>2, <2>1
    <2>5. (gen' + 1) .. highest' \subseteq tainted'
      BY <2>4, NothingAbove
    <2>6. RepeatInv'
      BY <2>5 DEF RepeatInv
    <2>7. (\E s \in Seeders : Running(s)) => highest + 1 \in tainted'
      BY <1>2, <2>1
    <2>8. QED
      BY <1>1, <2>1, <2>2, <2>3, <2>4, <2>6, <2>7
  <1>3. CASE redisUp /\ gen # highest
    <2>1. /\ gen' = gen + 1 /\ highest' = highest
          /\ floor' = [g \in 0 .. highest' |->
                          IF g \in 0 .. highest THEN floor[g] ELSE now]
          /\ tainted' = IF \E s \in Seeders : Running(s)
                        THEN tainted \cup {gen + 1} ELSE tainted
      BY <1>3 DEF BumpGeneration
    <2>2. /\ floor' \in [0 .. highest' -> Version]
          /\ \A g \in 0 .. highest : floor'[g] = floor[g]
      BY <1>1, <2>1
    <2>3. gen + 1 \in 0 .. highest
      BY <1>1, <1>3
    <2>4. tainted' \subseteq 0 .. highest' /\ tainted \subseteq tainted'
      BY <1>1, <2>1, <2>3
    <2>5. (gen' + 1) .. highest' \subseteq (gen + 1) .. highest
      BY <1>1, <2>1
    <2>6. RepeatInv => RepeatInv'
      BY <2>4, <2>5 DEF RepeatInv
    <2>7. highest' # highest + 1
      BY <1>1, <2>1
    <2>8. QED
      BY <1>1, <1>3, <2>1, <2>2, <2>3, <2>4, <2>6, <2>7
  <1>4. CASE ~redisUp
    <2>1. gen' = gen /\ highest' = highest /\ floor' = floor /\ tainted' = tainted
      BY <1>4 DEF BumpGeneration
    <2>2. RepeatInv => RepeatInv'
      BY <2>1 DEF RepeatInv
    <2>3. highest' # highest + 1
      BY <1>1, <2>1
    <2>4. QED
      BY <1>1, <1>4, <2>1, <2>2, <2>3
  <1>5. QED
    BY <1>2, <1>3, <1>4

\* Redis comes back with the generation it had, or from 0 and every generation
\* there has been tainted.
LEMMA RecoverProps ==
    ASSUME TypeOK, RedisRecovers
    PROVE  /\ gen' \in 0 .. highest
           /\ tainted' \subseteq 0 .. highest
           /\ tainted \subseteq tainted'
           /\ highest' = highest /\ floor' = floor
           /\ RepeatInv => RepeatInv'
  <1>1. gen \in 0 .. highest /\ highest \in Nat /\ tainted \subseteq 0 .. highest
    BY DEF TypeOK
  <1>2. highest' = highest /\ floor' = floor
    BY DEF RedisRecovers
  <1>3. CASE UNCHANGED << gen, tainted >>
    BY <1>1, <1>2, <1>3 DEF RepeatInv
  <1>4. CASE gen' = 0 /\ tainted' = tainted \cup 0 .. highest
    <2>1. (gen' + 1) .. highest' \subseteq 0 .. highest
      BY <1>1, <1>2, <1>4
    <2>2. RepeatInv => RepeatInv'
      BY <1>4, <2>1 DEF RepeatInv
    <2>3. QED
      BY <1>1, <1>2, <1>4, <2>2
  <1>5. QED
    BY <1>3, <1>4 DEF RedisRecovers

\* Opening a file for writing puts an empty blob at the task's key.
LEMMA PutOpenProps ==
    ASSUME TypeOK, NEW p \in Tasks, PutOpen(p)
    PROVE  /\ blobs' \subseteq Blob
           /\ \A b \in blobs' : \/ b \in blobs
                                \/ b.gen = task[p].gen /\ b.ver = task[p].ver
  <1>1. task[p] \in Task
    BY DEF TypeOK
  <1>2. [tile |-> task[p].tile, gen |-> task[p].gen,
         ver |-> task[p].ver, content |-> "empty"] \in Blob
    BY <1>1 DEF Task, Blob, Content
  <1>3. QED
    BY <1>2 DEF PutOpen, TypeOK

\* Writing the bytes leaves the task's tile, or a mixture with the tile
\* another writer had stored under the same generation.
LEMMA PutWriteProps ==
    ASSUME TypeOK, NEW p \in Tasks, PutWrite(p)
    PROVE  /\ blobs' \subseteq Blob
           /\ \A b \in blobs' :
                \/ b \in blobs
                \/ /\ b.gen = task[p].gen
                   /\ \/ b.ver = task[p].ver
                      \/ \E old \in blobs : /\ old.gen = task[p].gen
                                            /\ b.ver = Older(old.ver, task[p].ver)
  <1>1. task[p] \in Task
    BY DEF TypeOK
  <1>2. PICK old \in BlobsAt(task[p].tile, task[p].gen), mixed \in {FALSE, TRUE} :
          blobs' = (blobs \ {old}) \cup
             {[tile |-> old.tile, gen |-> old.gen,
               ver |-> IF mixed THEN Older(old.ver, task[p].ver) ELSE task[p].ver,
               content |-> IF mixed THEN "mixed" ELSE "whole"]}
    BY DEF PutWrite
  <1>3. old \in blobs /\ old \in Blob /\ old.gen = task[p].gen
    BY DEF BlobsAt, TypeOK
  <1> DEFINE v == IF mixed THEN Older(old.ver, task[p].ver) ELSE task[p].ver
             new == [tile |-> old.tile, gen |-> old.gen, ver |-> v,
                     content |-> IF mixed THEN "mixed" ELSE "whole"]
  <1>4. old.ver \in Version /\ task[p].ver \in Version
    BY <1>1, <1>3 DEF Blob, Task
  <1>5. v \in Version
    BY <1>4, OlderProps
  <1>6. new \in Blob /\ new.gen = old.gen /\ new.ver = v
    BY <1>3, <1>5 DEF Blob, Content
  <1>7. blobs' = (blobs \ {old}) \cup {new}
    BY <1>2
  <1>8. blobs' \subseteq Blob
    BY <1>6, <1>7 DEF TypeOK
  <1>9. v = task[p].ver \/ v = Older(old.ver, task[p].ver)
    OBVIOUS
  <1> HIDE DEF v, new
  <1>10. QED
    BY <1>3, <1>6, <1>7, <1>8, <1>9

\* What becomes of a file marks its key or takes the mark away.
LEMMA MarredType ==
    ASSUME TypeOK, NEW p \in Tasks,
           PutOpen(p) \/ PutWrite(p) \/ PutLeft(p) \/ UNCHANGED marred
    PROVE  marred' \subseteq Tiles \X Nat
  <1>1. Key(p) \in Tiles \X Nat
    BY DEF TypeOK, Task, Key
  <1>2. marred' \subseteq marred \cup {Key(p)}
    BY DEF PutOpen, PutWrite, PutLeft
  <1>3. QED
    BY <1>1, <1>2 DEF TypeOK

-----------------------------------------------------------------------------
(* Type correctness.                                                       *)

\* Every step of a request for a tile keeps the types.
LEMMA ServeTypes ==
    ASSUME TypeOK, NEW p \in Servers, ServeKey(p) \/ ServeStep(p)
    PROVE  TypeOK'
  <1> USE DEF othersOfTask, catalogVars, genVars, files, Goto, Tasks
  <1> DEFINE Rest == /\ UNCHANGED << now, promised, toPublish, inbox, subscribed,
                                     redisUp, gen, highest, budget, floor, tainted >>
  <1>0. task[p] \in Task /\ now \in Version
    BY DEF TypeOK
  <1>a. marred' \subseteq Tiles \X Nat
    BY MarredType
    DEF ServeKey, ServeStep, ServeGet, ServeResolve, ServeRender, ServeError,
           ServeOpen, ServeWrite, ServePutFails, ServeReturn
  <1>1. ASSUME Rest, blobs' \subseteq Blob, task' \in [Tasks -> Task]
        PROVE  TypeOK'
    BY <1>1, <1>a DEF TypeOK
  <1>2. ASSUME NEW t \in Task, task' = [task EXCEPT ![p] = t]
        PROVE  task' \in [Tasks -> Task]
    BY <1>2 DEF TypeOK
  <1>3. CASE ServeKey(p)
    <2>1. PICK t \in Tiles :
            task' = [task EXCEPT ![p] = [IdleTask EXCEPT !.pc = "get", !.tile = t,
                                          !.gen = Generation, !.since = promised]]
      BY <1>3 DEF ServeKey
    <2>2. [IdleTask EXCEPT !.pc = "get", !.tile = t, !.gen = Generation,
                           !.since = promised] \in Task
      BY IdleTaskType, GenerationType DEF TypeOK, Task, ServePC
    <2>3. QED
      BY <1>1, <1>2, <1>3, <2>1, <2>2 DEF ServeKey, TypeOK
  <1>4. CASE ServeGet(p)
    <2>1. ASSUME Goto(p, "resolve")
          PROVE  task' \in [Tasks -> Task]
      BY <2>1, <1>0 DEF TypeOK, Task, ServePC
    <2>2. ASSUME \E b \in BlobsAt(task[p].tile, task[p].gen) :
                    task' = [task EXCEPT ![p].pc = "done", ![p].ver = b.ver,
                                         ![p].content = b.content]
          PROVE  task' \in [Tasks -> Task]
      <3>1. PICK b \in blobs :
              task' = [task EXCEPT ![p].pc = "done", ![p].ver = b.ver,
                                   ![p].content = b.content]
        BY <2>2 DEF BlobsAt
      <3>2. b.ver \in Version /\ b.content \in Content
        BY DEF TypeOK, Blob
      <3>3. QED
        BY <3>1, <3>2, <1>0 DEF TypeOK, Task, ServePC
    <2>3. QED
      BY <1>1, <1>4, <2>1, <2>2 DEF ServeGet, TypeOK
  <1>5. CASE ServeResolve(p)
    <2>1. task' \in [Tasks -> Task]
      BY <1>5, <1>0 DEF ServeResolve, TypeOK, Task, ServePC, Version
    <2>2. QED
      BY <1>1, <1>5, <2>1 DEF ServeResolve, TypeOK
  <1>6. CASE ServeRender(p)
    <2>1. task' \in [Tasks -> Task]
      BY <1>6, <1>0 DEF ServeRender, TypeOK, Task, ServePC, Version
    <2>2. QED
      BY <1>1, <1>6, <2>1 DEF ServeRender, TypeOK
  <1>7. CASE ServeError(p)
    <2>1. task' \in [Tasks -> Task]
      BY <1>7, <1>0 DEF ServeError, TypeOK, Task, ServePC
    <2>2. QED
      BY <1>1, <1>7, <2>1 DEF ServeError, TypeOK
  <1>8. CASE ServeOpen(p)
    <2>1. task' \in [Tasks -> Task]
      BY <1>8, <1>0 DEF ServeOpen, TypeOK, Task, ServePC
    <2>2. QED
      BY <1>1, <1>8, <2>1, PutOpenProps DEF ServeOpen
  <1>9. CASE ServeWrite(p)
    <2>1. task' \in [Tasks -> Task]
      BY <1>9, <1>0 DEF ServeWrite, TypeOK, Task, ServePC, Content
    <2>2. QED
      BY <1>1, <1>9, <2>1, PutWriteProps DEF ServeWrite
  <1>10. CASE ServePutFails(p)
    <2>1. task' \in [Tasks -> Task]
      BY <1>10, <1>0 DEF ServePutFails, TypeOK, Task, ServePC, Content
    <2>2. QED
      BY <1>1, <1>10, <2>1 DEF ServePutFails, PutLeft, TypeOK
  <1>11. CASE ServeReturn(p)
    BY <1>1, <1>2, <1>11, IdleTaskType DEF ServeReturn, TypeOK
  <1>12. QED
    BY <1>3, <1>4, <1>5, <1>6, <1>7, <1>8, <1>9, <1>10, <1>11 DEF ServeStep

\* Every step of a seed run keeps the types.
LEMMA SeedTypes ==
    ASSUME TypeOK, NEW p \in Seeders, SeedStart(p) \/ SeedStep(p)
    PROVE  TypeOK'
  <1> USE DEF othersOfTask, catalogVars, genVars, files, Goto, Tasks
  <1> DEFINE Rest == /\ UNCHANGED << now, promised, toPublish, inbox, subscribed,
                                     redisUp, gen, highest, budget, floor, tainted >>
  <1>0. task[p] \in Task /\ now \in Version
    BY DEF TypeOK
  <1>a. marred' \subseteq Tiles \X Nat
    BY MarredType
    DEF SeedStart, SeedStep, SeedRender, SeedKey, SeedOpen, SeedWrite,
           SeedPutFails, SeedReturn
  <1>1. ASSUME Rest, blobs' \subseteq Blob, task' \in [Tasks -> Task]
        PROVE  TypeOK'
    BY <1>1, <1>a DEF TypeOK
  <1>2. CASE SeedStart(p)
    <2>1. task' \in [Tasks -> Task]
      BY <1>2, <1>0 DEF SeedStart, TypeOK, Task, SeedPC, Version
    <2>2. QED
      BY <1>1, <1>2, <2>1 DEF SeedStart, TypeOK
  <1>3. CASE SeedRender(p)
    <2>1. PICK t \in task[p].todo :
            \/ task' = [task EXCEPT ![p].pc = "key", ![p].tile = t,
                                    ![p].ver.rows = now.rows]
            \/ task' = [task EXCEPT ![p].todo = @ \ {t}]
      BY <1>3 DEF SeedRender
    <2>2. t \in Tiles /\ task[p].todo \ {t} \in SUBSET Tiles
      BY <1>0 DEF Task
    <2>3. [task[p].ver EXCEPT !.rows = now.rows] \in Version
      BY <1>0 DEF Task, Version
    <2> DEFINE left == task[p].todo \ {t}
    <2>4. CASE task' = [task EXCEPT ![p].pc = "key", ![p].tile = t,
                                    ![p].ver.rows = now.rows]
      <3>1. task' \in [Tasks -> Task]
        BY <2>2, <2>4, <1>0 DEF TypeOK, Task, SeedPC, Version
      <3>2. QED
        BY <1>1, <1>3, <3>1 DEF SeedRender, TypeOK
    <2>5. CASE task' = [task EXCEPT ![p].todo = left]
      <3>1. left \in SUBSET Tiles
        BY <2>2
      <3> HIDE DEF left
      <3>2. [task[p] EXCEPT !.todo = left] \in Task
        BY <3>1, <1>0 DEF Task
      <3>3. task' \in [Tasks -> Task]
        BY <2>5, <3>2 DEF TypeOK
      <3>4. QED
        BY <1>1, <1>3, <3>3 DEF SeedRender, TypeOK
    <2>6. QED
      BY <2>1, <2>4, <2>5
  <1>4. CASE SeedKey(p)
    <2>1. task' \in [Tasks -> Task]
      BY <1>4, <1>0, GenerationType DEF SeedKey, TypeOK, Task, SeedPC
    <2>2. QED
      BY <1>1, <1>4, <2>1 DEF SeedKey, TypeOK
  <1>5. CASE SeedOpen(p)
    <2>1. task' \in [Tasks -> Task]
      BY <1>5, <1>0 DEF SeedOpen, TypeOK, Task, SeedPC
    <2>2. QED
      BY <1>1, <1>5, <2>1, PutOpenProps DEF SeedOpen
  <1>6. NextSeedTile(p) => task' \in [Tasks -> Task]
    <2>1. task[p].todo \ {task[p].tile} \in SUBSET Tiles
      BY <1>0 DEF Task
    <2> DEFINE left == task[p].todo \ {task[p].tile}
    <2>2. NextSeedTile(p) =>
            task' = [task EXCEPT ![p].pc = "render", ![p].todo = left]
      BY DEF NextSeedTile
    <2>3. left \in SUBSET Tiles
      BY <2>1
    <2> HIDE DEF left
    <2>4. [task[p] EXCEPT !.pc = "render", !.todo = left] \in Task
      BY <2>3, <1>0 DEF Task, SeedPC
    <2>5. QED
      BY <2>2, <2>4 DEF TypeOK
  <1>7. CASE SeedWrite(p)
    BY <1>1, <1>6, <1>7, PutWriteProps DEF SeedWrite
  <1>8. CASE SeedPutFails(p)
    BY <1>1, <1>6, <1>8 DEF SeedPutFails, PutLeft, TypeOK
  <1>9. CASE SeedReturn(p)
    BY <1>1, <1>9, IdleTaskType DEF SeedReturn, TypeOK
  <1>10. QED
    BY <1>2, <1>3, <1>4, <1>5, <1>7, <1>8, <1>9 DEF SeedStep

\* The steps that are not a task's own keep the types.
LEMMA OtherTypes ==
    ASSUME TypeOK,
           \/ Truncate \/ CatalogCommit \/ CatalogPublish \/ EditRows
           \/ \E r \in Replicas : HandleEvent(r) \/ KillSubscriber(r) \/ Subscribe(r)
           \/ RedisFails \/ RedisRecovers
           \/ \E p \in Tasks : KillTask(p)
    PROVE  TypeOK'
  <1> USE DEF catalogVars, genVars, files
  <1>1. CASE Truncate
    <2>1. budget' \in [truncates : Nat, outages : Nat, crashes : Nat]
      <3>1. budget \in [truncates : Nat, outages : Nat, crashes : Nat]
        BY DEF TypeOK
      <3>2. budget.truncates > 0 /\ budget' = [budget EXCEPT !.truncates = @ - 1]
        BY <1>1 DEF Truncate
      <3>3. budget.truncates - 1 \in Nat
        BY <3>1, <3>2
      <3>4. QED
        BY <3>1, <3>2, <3>3
    <2>2. gen' \in 0 .. highest' /\ highest' \in Nat /\ floor' \in [0 .. highest' -> Version]
          /\ tainted' \subseteq 0 .. highest'
      BY <1>1, BumpProps DEF Truncate
    <2>3. promised' \in Version /\ now' = now /\ toPublish' = toPublish
          /\ inbox' = inbox /\ subscribed' = subscribed /\ redisUp' = redisUp
          /\ blobs' = blobs /\ task' = task /\ marred' = marred
      BY <1>1 DEF Truncate, TypeOK
    <2>4. QED
      BY <2>1, <2>2, <2>3 DEF TypeOK
  <1>2. CASE CatalogCommit
    <2>1. now' \in Version
      <3>1. now \in Version /\ now' = [now EXCEPT !.conf = @ + 1]
        BY <1>2 DEF CatalogCommit, TypeOK
      <3>2. QED
        BY <3>1 DEF Version
    <2>2. QED
      BY <1>2, <2>1 DEF CatalogCommit, TypeOK
  <1>3. CASE CatalogPublish
    BY <1>3 DEF CatalogPublish, TypeOK
  <1>4. CASE EditRows
    <2>1. now' \in Version
      <3>1. now \in Version /\ now' = [now EXCEPT !.rows = @ + 1]
        BY <1>4 DEF EditRows, TypeOK
      <3>2. QED
        BY <3>1 DEF Version
    <2>2. QED
      BY <1>4, <2>1 DEF EditRows, TypeOK
  <1>5. ASSUME NEW r \in Replicas, HandleEvent(r)
        PROVE  TypeOK'
    <2>1. inbox' \in [Replicas -> Nat]
      BY <1>5 DEF HandleEvent, TypeOK
    <2>2. QED
      BY <1>5, <2>1, BumpProps DEF HandleEvent, TypeOK
  <1>6. ASSUME NEW r \in Replicas, KillSubscriber(r)
        PROVE  TypeOK'
    <2>1. budget' \in [truncates : Nat, outages : Nat, crashes : Nat]
      <3>1. budget \in [truncates : Nat, outages : Nat, crashes : Nat]
        BY DEF TypeOK
      <3>2. budget.crashes > 0 /\ budget' = [budget EXCEPT !.crashes = @ - 1]
        BY <1>6 DEF KillSubscriber
      <3>3. budget.crashes - 1 \in Nat
        BY <3>1, <3>2
      <3>4. QED
        BY <3>1, <3>2, <3>3
    <2>2. QED
      BY <1>6, <2>1 DEF KillSubscriber, TypeOK
  <1>7. ASSUME NEW r \in Replicas, Subscribe(r)
        PROVE  TypeOK'
    BY <1>7 DEF Subscribe, TypeOK
  <1>8. CASE RedisFails
    <2>1. budget' \in [truncates : Nat, outages : Nat, crashes : Nat]
      <3>1. budget \in [truncates : Nat, outages : Nat, crashes : Nat]
        BY DEF TypeOK
      <3>2. budget.outages > 0 /\ budget' = [budget EXCEPT !.outages = @ - 1]
        BY <1>8 DEF RedisFails
      <3>3. budget.outages - 1 \in Nat
        BY <3>1, <3>2
      <3>4. QED
        BY <3>1, <3>2, <3>3
    <2>2. QED
      BY <1>8, <2>1 DEF RedisFails, TypeOK
  <1>9. CASE RedisRecovers
    <2>1. UNCHANGED << now, toPublish, inbox, subscribed, blobs, marred, task,
                       promised, budget >> /\ redisUp' = TRUE
      BY <1>9 DEF RedisRecovers
    <2>2. QED
      BY <1>9, <2>1, RecoverProps DEF TypeOK
  <1>10. ASSUME NEW p \in Tasks, KillTask(p)
         PROVE  TypeOK'
    <2>1. budget' \in [truncates : Nat, outages : Nat, crashes : Nat]
      <3>1. budget \in [truncates : Nat, outages : Nat, crashes : Nat]
        BY DEF TypeOK
      <3>2. budget.crashes > 0 /\ budget' = [budget EXCEPT !.crashes = @ - 1]
        BY <1>10 DEF KillTask
      <3>3. budget.crashes - 1 \in Nat
        BY <3>1, <3>2
      <3>4. QED
        BY <3>1, <3>2, <3>3
    <2>2. task' \in [Tasks -> Task]
      BY <1>10, IdleTaskType DEF KillTask, TypeOK
    <2>3. marred' \subseteq Tiles \X Nat
      BY <1>10, MarredType DEF KillTask
    <2>4. QED
      BY <1>10, <2>1, <2>2, <2>3 DEF KillTask, PutLeft, TypeOK
  <1>11. QED
    BY <1>1, <1>2, <1>3, <1>4, <1>5, <1>6, <1>7, <1>8, <1>9, <1>10

\* The initial states are well typed.
LEMMA InitTypes == Init => TypeOK
  BY IdleTaskType, BoundsAssumption
  DEF Init, TypeOK, Version, NoVersion

\* Every step keeps the types.
LEMMA NextTypes == TypeOK /\ [Next]_vars => TypeOK'
  <1> SUFFICES ASSUME TypeOK, [Next]_vars
               PROVE  TypeOK'
    OBVIOUS
  <1>1. CASE \E p \in Servers : ServeKey(p) \/ ServeStep(p)
    BY <1>1, ServeTypes
  <1>2. CASE \E p \in Seeders : SeedStart(p) \/ SeedStep(p)
    BY <1>2, SeedTypes
  <1>3. CASE UNCHANGED vars
    BY <1>3 DEF vars, TypeOK
  <1>4. CASE \/ Truncate \/ CatalogCommit \/ CatalogPublish \/ EditRows
             \/ \E r \in Replicas :
                   HandleEvent(r) \/ KillSubscriber(r) \/ Subscribe(r)
             \/ RedisFails \/ RedisRecovers
             \/ \E p \in Tasks : KillTask(p)
    BY <1>4, OtherTypes
  <1>5. QED
    BY <1>1, <1>2, <1>3, <1>4 DEF Next

\* TypeOK is an invariant: the types of the tile cache's state hold for any
\* number of tasks, tiles and replicas.
THEOREM TypeCorrect == Spec => []TypeOK
  <1>1. QED
    BY InitTypes, NextTypes, PTL DEF Spec

-----------------------------------------------------------------------------
(* Freshness of the blobs.                                                 *)

\* Storing a tile that is as recent as its generation keeps every blob so.
LEMMA PutFresh ==
    ASSUME TypeOK, StaleOnlyIfTainted, NEW p \in Tasks, PutOpen(p) \/ PutWrite(p),
           UNCHANGED genVars,
           task[p].gen \in 0 .. highest,
           task[p].gen \notin tainted => AtLeast(task[p].ver, floor[task[p].gen])
    PROVE  StaleOnlyIfTainted'
  <1> USE DEF genVars
  <1>1. SUFFICES ASSUME NEW b \in blobs'
                 PROVE  /\ b.gen \in 0 .. highest
                        /\ b.gen \notin tainted => AtLeast(b.ver, floor[b.gen])
    BY DEF StaleOnlyIfTainted
  <1>2. CASE b \in blobs
    BY <1>2 DEF StaleOnlyIfTainted
  <1>3. CASE b.gen = task[p].gen /\ b.ver = task[p].ver
    BY <1>3
  <1>4. ASSUME NEW old \in blobs, old.gen = task[p].gen, b.gen = task[p].gen,
               b.ver = Older(old.ver, task[p].ver)
        PROVE  /\ b.gen \in 0 .. highest
               /\ b.gen \notin tainted => AtLeast(b.ver, floor[b.gen])
    <2>1. old.ver \in Version /\ task[p].ver \in Version
      BY DEF TypeOK, Blob, Task
    <2>2. floor[task[p].gen] \in Version
      BY DEF TypeOK
    <2>3. old.gen \notin tainted => AtLeast(old.ver, floor[old.gen])
      BY DEF StaleOnlyIfTainted
    <2>4. QED
      BY <1>4, <2>1, <2>2, <2>3, OlderProps
  <1>5. QED
    BY <1>2, <1>3, <1>4, PutOpenProps, PutWriteProps

\* A step of a request keeps the invariant: its key was computed before it
\* read anything, and other tasks are not touched.
LEMMA ServeFresh ==
    ASSUME FreshInv, NEW p \in Servers, ServeKey(p) \/ ServeStep(p)
    PROVE  FreshInv'
  <1> USE DEF othersOfTask, catalogVars, genVars, files, Goto, Tasks
  <1>1. TypeOK /\ TypeOK'
    BY ServeTypes DEF FreshInv
  <1>2. /\ UNCHANGED << gen, highest, floor, tainted >>
        /\ now' = now /\ promised' = promised
    BY DEF ServeKey, ServeStep, ServeGet, ServeResolve, ServeRender, ServeError,
           ServeOpen, ServeWrite, ServePutFails, ServeReturn
  <1>3. \A q \in Tasks \ {p} : task'[q] = task[q]
    BY <1>1 DEF TypeOK, ServeKey, ServeStep, ServeGet, ServeResolve, ServeRender,
           ServeError, ServeOpen, ServeWrite, ServePutFails, ServeReturn
  <1>4. FloorInv' /\ RepeatInv'
    BY <1>2 DEF FreshInv, FloorInv, RepeatInv, AtLeast
  <1>5. \A q \in Seeders : SeedInvOf(q)'
    BY <1>2, <1>3, TasksAssumption DEF FreshInv, SeedInvOf, Running
  <1>6. \A q \in Servers \ {p} : ServeInvOf(q)'
    BY <1>2, <1>3 DEF FreshInv, ServeInvOf
  <1>7. task[p] \in Task /\ task'[p] \in Task /\ now \in Version
    BY <1>1 DEF TypeOK
  <1>8. ServeInvOf(p) /\ FloorInv
    BY DEF FreshInv
  <1>9. /\ highest \in Nat
        /\ \A g \in 0 .. highest : /\ floor[g].conf \in Nat /\ floor[g].rows \in Nat
                               /\ now.conf >= floor[g].conf
                               /\ now.rows >= floor[g].rows
    BY <1>1, <1>8 DEF TypeOK, FloorInv, AtLeast, Version
  <1>10. ServeInvOf(p)'
    <2>1. CASE ServeKey(p)
      <3>1. PICK t \in Tiles :
              task' = [task EXCEPT ![p] = [IdleTask EXCEPT !.pc = "get",
                         !.tile = t, !.gen = Generation, !.since = promised]]
        BY <2>1 DEF ServeKey
      <3>2. task'[p].gen = Generation /\ task'[p].pc = "get"
        BY <1>1, <3>1 DEF TypeOK, IdleTask
      <3>3. QED
        BY <1>1, <1>2, <3>2, GenerationType DEF ServeInvOf
    <2>2. CASE ServeGet(p)
      <3>1. task'[p].gen = task[p].gen /\ task'[p].pc \in {"resolve", "done"}
        <4>1. CASE task' = [task EXCEPT ![p].pc = "resolve"]
          BY <1>1, <1>7, <4>1 DEF TypeOK, Task
        <4>2. ASSUME NEW b \in BlobsAt(task[p].tile, task[p].gen),
                     task' = [task EXCEPT ![p].pc = "done", ![p].ver = b.ver,
                                          ![p].content = b.content]
              PROVE  task'[p].gen = task[p].gen /\ task'[p].pc \in {"resolve", "done"}
          BY <1>1, <1>7, <4>2 DEF TypeOK, Task
        <4>3. QED
          BY <2>2, <4>1, <4>2 DEF ServeGet
      <3>2. QED
        BY <1>2, <1>8, <3>1 DEF ServeInvOf
    <2>3. CASE ServeResolve(p)
      <3>1. /\ task'[p].gen = task[p].gen /\ task'[p].pc = "render"
            /\ task'[p].ver.conf = now.conf
        BY <1>1, <1>7, <2>3 DEF ServeResolve, TypeOK, Task, Version
      <3>2. QED
        BY <1>2, <1>8, <1>9, <3>1 DEF ServeInvOf
    <2>4. CASE ServeRender(p)
      <3>1. /\ task[p].pc = "render"
            /\ task'[p].gen = task[p].gen /\ task'[p].pc = "open"
            /\ task'[p].ver.conf = task[p].ver.conf
            /\ task'[p].ver.rows = now.rows
        BY <1>1, <1>7, <2>4 DEF ServeRender, TypeOK, Task, Version
      <3>2. QED
        BY <1>2, <1>8, <1>9, <3>1 DEF ServeInvOf
    <2>5. CASE ServeOpen(p)
      <3>1. /\ task[p].pc = "open" /\ task'[p].pc = "write"
            /\ task'[p].gen = task[p].gen /\ task'[p].ver = task[p].ver
        BY <1>1, <1>7, <2>5 DEF ServeOpen, TypeOK, Task
      <3>2. QED
        BY <1>2, <1>8, <3>1 DEF ServeInvOf
    <2>6. CASE ServeError(p) \/ ServeWrite(p) \/ ServePutFails(p)
      <3>1. task'[p].gen = task[p].gen /\ task'[p].pc \in {"idle", "done"}
        BY <1>1, <1>7, <2>6 DEF ServeError, ServeWrite, ServePutFails, TypeOK, Task
      <3>2. QED
        BY <1>2, <1>8, <3>1 DEF ServeInvOf
    <2>7. CASE ServeReturn(p)
      <3>1. task'[p] = IdleTask
        BY <1>1, <2>7 DEF ServeReturn, TypeOK
      <3>2. QED
        BY <1>2, <1>9, <3>1 DEF ServeInvOf, IdleTask
    <2>8. QED
      BY <2>1, <2>2, <2>3, <2>4, <2>5, <2>6, <2>7 DEF ServeStep
  <1>11. StaleOnlyIfTainted'
    <2>1. CASE blobs' = blobs
      BY <1>2, <2>1 DEF FreshInv, StaleOnlyIfTainted
    <2>2. ASSUME task[p].pc \in {"open", "write"}, PutOpen(p) \/ PutWrite(p)
          PROVE  StaleOnlyIfTainted'
      BY <1>1, <1>2, <2>2, PutFresh, <1>8 DEF ServeInvOf, AtLeast, FreshInv
    <2>3. QED
      BY <2>1, <2>2 DEF ServeKey, ServeStep, ServeGet, ServeResolve,
           ServeRender, ServeError, ServeOpen, ServeWrite, ServePutFails, PutLeft,
           ServeReturn
  <1>12. QED
    BY <1>1, <1>4, <1>5, <1>6, <1>10, <1>11 DEF FreshInv

\* A step of a seed run keeps the invariant: no generation outside tainted
\* began since it started, so whatever it read is as recent as all of those.
LEMMA SeedFresh ==
    ASSUME FreshInv, NEW p \in Seeders, SeedStart(p) \/ SeedStep(p)
    PROVE  FreshInv'
  <1> USE DEF othersOfTask, catalogVars, genVars, files, Goto, Tasks
  <1>1. TypeOK /\ TypeOK'
    BY SeedTypes DEF FreshInv
  <1>2. /\ UNCHANGED << gen, highest, floor, tainted >>
        /\ now' = now /\ promised' = promised
    BY DEF SeedStart, SeedStep, SeedRender, SeedKey, SeedOpen, SeedWrite,
           SeedPutFails, SeedReturn
  <1>3. \A q \in Tasks \ {p} : task'[q] = task[q]
    BY <1>1 DEF TypeOK, SeedStart, SeedStep, SeedRender, SeedKey, SeedOpen,
           SeedWrite, SeedPutFails, SeedReturn, NextSeedTile
  <1>4. FloorInv' /\ RepeatInv'
    BY <1>2 DEF FreshInv, FloorInv, RepeatInv, AtLeast
  <1>5. \A q \in Servers : ServeInvOf(q)'
    BY <1>2, <1>3, TasksAssumption DEF FreshInv, ServeInvOf
  <1>6. \A q \in Seeders \ {p} : SeedInvOf(q)'
    BY <1>2, <1>3 DEF FreshInv, SeedInvOf, Running
  <1>7. task[p] \in Task /\ task'[p] \in Task /\ now \in Version
    BY <1>1 DEF TypeOK
  <1>8. SeedInvOf(p) /\ FloorInv
    BY DEF FreshInv
  <1>9. /\ highest \in Nat
        /\ \A g \in 0 .. highest : /\ floor[g].conf \in Nat /\ floor[g].rows \in Nat
                               /\ now.conf >= floor[g].conf
                               /\ now.rows >= floor[g].rows
    BY <1>1, <1>8 DEF TypeOK, FloorInv, AtLeast, Version
  <1>10. SeedInvOf(p)'
    <2>1. CASE SeedStart(p)
      <3>1. /\ task'[p].gen = task[p].gen /\ task'[p].pc = "render"
            /\ task'[p].ver.conf = now.conf
        BY <1>1, <1>7, <2>1 DEF SeedStart, TypeOK, Task, Version
      <3>2. QED
        BY <1>2, <1>8, <1>9, <3>1 DEF SeedInvOf, Running
    <2>2. CASE SeedRender(p)
      <3>1. task[p].pc = "render" /\ Running(p)
        BY <2>2 DEF SeedRender, Running
      <3>2. PICK t \in task[p].todo :
              \/ task' = [task EXCEPT ![p].pc = "key", ![p].tile = t,
                                      ![p].ver.rows = now.rows]
              \/ task' = [task EXCEPT ![p].todo = @ \ {t}]
        BY <2>2 DEF SeedRender
      <3>3. CASE task' = [task EXCEPT ![p].pc = "key", ![p].tile = t,
                                      ![p].ver.rows = now.rows]
        <4>1. /\ task'[p].gen = task[p].gen /\ task'[p].pc = "key"
              /\ task'[p].ver.conf = task[p].ver.conf
              /\ task'[p].ver.rows = now.rows
          BY <1>1, <1>7, <3>3 DEF TypeOK, Task, Version
        <4>2. QED
          BY <1>2, <1>8, <1>9, <3>1, <4>1 DEF SeedInvOf, Running
      <3>4. CASE task' = [task EXCEPT ![p].todo = @ \ {t}]
        <4>1. /\ task'[p].gen = task[p].gen /\ task'[p].pc = task[p].pc
              /\ task'[p].ver = task[p].ver
          BY <1>1, <1>7, <3>4 DEF TypeOK, Task
        <4>2. QED
          BY <1>2, <1>8, <4>1 DEF SeedInvOf, Running
      <3>5. QED
        BY <3>2, <3>3, <3>4
    <2>3. CASE SeedKey(p)
      <3>1. /\ task[p].pc = "key" /\ task'[p].pc = "open"
            /\ task'[p].gen = Generation /\ task'[p].ver = task[p].ver
        BY <1>1, <1>7, <2>3 DEF SeedKey, TypeOK, Task
      <3>2. QED
        BY <1>1, <1>2, <1>8, <3>1, GenerationType DEF SeedInvOf, Running
    <2>4. CASE SeedOpen(p)
      <3>1. /\ task[p].pc = "open" /\ task'[p].pc = "write"
            /\ task'[p].gen = task[p].gen /\ task'[p].ver = task[p].ver
        BY <1>1, <1>7, <2>4 DEF SeedOpen, TypeOK, Task
      <3>2. QED
        BY <1>2, <1>8, <3>1 DEF SeedInvOf, Running
    <2>5. CASE SeedWrite(p) \/ SeedPutFails(p)
      <3>1. /\ Running(p) /\ task'[p].pc = "render"
            /\ task'[p].gen = task[p].gen /\ task'[p].ver = task[p].ver
        BY <1>1, <1>7, <2>5
           DEF SeedWrite, SeedPutFails, NextSeedTile, TypeOK, Task, Running
      <3>2. QED
        BY <1>2, <1>8, <3>1 DEF SeedInvOf, Running
    <2>6. CASE SeedReturn(p)
      <3>1. task'[p] = IdleTask
        BY <1>1, <2>6 DEF SeedReturn, TypeOK
      <3>2. QED
        BY <1>2, <1>9, <3>1 DEF SeedInvOf, IdleTask, Running
    <2>7. QED
      BY <2>1, <2>2, <2>3, <2>4, <2>5, <2>6 DEF SeedStep
  <1>11. StaleOnlyIfTainted'
    <2>1. CASE blobs' = blobs
      BY <1>2, <2>1 DEF FreshInv, StaleOnlyIfTainted
    <2>2. ASSUME task[p].pc \in {"open", "write"}, PutOpen(p) \/ PutWrite(p)
          PROVE  StaleOnlyIfTainted'
      BY <1>1, <1>2, <1>8, <2>2, PutFresh DEF SeedInvOf, Running, AtLeast, FreshInv
    <2>3. QED
      BY <2>1, <2>2 DEF SeedStart, SeedStep, SeedRender, SeedKey, SeedOpen,
           SeedWrite, SeedPutFails, PutLeft, SeedReturn
  <1>12. QED
    BY <1>1, <1>4, <1>5, <1>6, <1>10, <1>11 DEF FreshInv

\* A bump keeps the invariant: what a task has read before it is only promised
\* to the generations it had to respect, and a new generation begun while a
\* seed runs is tainted.
LEMMA BumpFresh ==
    ASSUME FreshInv, BumpGeneration, TypeOK',
           now' = now, task' = task, blobs' = blobs, promised' \in {promised, now}
    PROVE  FreshInv'
  <1>1. TypeOK /\ RepeatInv
    BY DEF FreshInv
  <1>2. /\ highest \in Nat /\ highest' \in Nat
        /\ tainted \subseteq tainted'
        /\ highest' \in {highest, highest + 1}
        /\ RepeatInv'
        /\ \A g \in 0 .. highest : floor'[g] = floor[g]
        /\ highest' = highest + 1 =>
             /\ floor'[highest + 1] = now
             /\ (\E s \in Seeders : Running(s)) => highest + 1 \in tainted'
    BY <1>1, BumpProps DEF TypeOK
  <1>3. 0 .. highest \subseteq 0 .. highest'
    BY <1>2
  <1>4. \A g \in 0 .. highest' : g \in 0 .. highest \/ (g = highest + 1 /\ highest' = highest + 1)
    BY <1>2
  <1>5. now.conf >= now.conf /\ now.rows >= now.rows
    <2>1. now \in Version
      BY <1>1 DEF TypeOK
    <2>2. now.conf \in Nat /\ now.rows \in Nat
      BY <2>1 DEF Version
    <2> QED BY <2>2
  <1>6. FloorInv'
    BY <1>2, <1>4, <1>5 DEF FreshInv, FloorInv, AtLeast
  <1>7. \A p \in Servers : ServeInvOf(p)'
    BY <1>2, <1>3 DEF FreshInv, ServeInvOf
  <1>8. \A p \in Seeders : SeedInvOf(p)'
    <2>1. SUFFICES ASSUME NEW p \in Seeders
                   PROVE  SeedInvOf(p)'
      OBVIOUS
    <2>2. SeedInvOf(p)
      BY DEF FreshInv
    <2>3. task[p].pc \in {"key", "open", "write"} => Running(p)
      BY DEF Running
    <2>4. Running(p) => (0 .. highest') \ tainted' \subseteq (0 .. highest) \ tainted
      BY <1>2, <1>4
    <2>5. QED
      BY <1>2, <1>3, <2>2, <2>3, <2>4 DEF SeedInvOf, Running
  <1>9. StaleOnlyIfTainted'
    BY <1>2, <1>3 DEF FreshInv, StaleOnlyIfTainted
  <1>10. QED
    BY <1>2, <1>6, <1>7, <1>8, <1>9 DEF FreshInv

\* The steps that are not a task's own keep the invariant.
LEMMA OtherFresh ==
    ASSUME FreshInv,
           \/ Truncate \/ CatalogCommit \/ CatalogPublish \/ EditRows
           \/ \E r \in Replicas : HandleEvent(r) \/ KillSubscriber(r) \/ Subscribe(r)
           \/ RedisFails \/ RedisRecovers
           \/ \E p \in Tasks : KillTask(p)
    PROVE  FreshInv'
  <1> USE DEF catalogVars, genVars, files
  <1>1. TypeOK /\ TypeOK'
    BY OtherTypes DEF FreshInv
  <1>2. CASE Truncate
    BY <1>1, <1>2, BumpFresh DEF Truncate
  <1>3. ASSUME NEW r \in Replicas, HandleEvent(r)
        PROVE  FreshInv'
    BY <1>1, <1>3, BumpFresh DEF HandleEvent
  <1>4. CASE CatalogCommit \/ EditRows
    <2>1. /\ now'.conf >= now.conf /\ now'.rows >= now.rows
          /\ now \in Version /\ now' \in Version
      <3>1. now \in Version
        BY <1>1 DEF TypeOK
      <3>2. now' \in {[now EXCEPT !.conf = @ + 1], [now EXCEPT !.rows = @ + 1]}
        BY <1>4 DEF CatalogCommit, EditRows
      <3>3. QED
        BY <3>1, <3>2 DEF Version
    <2>2. /\ UNCHANGED << gen, highest, floor, tainted >>
          /\ promised' = promised /\ task' = task /\ blobs' = blobs
      BY <1>4 DEF CatalogCommit, EditRows
    <2>3. promised \in Version /\ \A g \in 0 .. highest : floor[g] \in Version
      BY <1>1 DEF TypeOK
    <2>4. \A v \in Version : AtLeast(now, v) => AtLeast(now', v)
      BY <2>1 DEF Version, AtLeast
    <2>5. FloorInv'
      BY <2>2, <2>3, <2>4 DEF FreshInv, FloorInv
    <2>6. QED
      BY <1>1, <2>2, <2>5
         DEF FreshInv, RepeatInv, ServeInvOf, SeedInvOf, Running, StaleOnlyIfTainted
  <1>5. ASSUME NEW p \in Tasks, KillTask(p)
        PROVE  FreshInv'
    <2>1. task' = [task EXCEPT ![p] = IdleTask]
          /\ UNCHANGED << gen, highest, floor, tainted >>
          /\ now' = now /\ promised' = promised /\ blobs' = blobs
      BY <1>5 DEF KillTask, PutLeft
    <2>2. \A q \in Tasks : task'[q] = task[q] \/ task'[q] = IdleTask
      BY <1>1, <2>1 DEF TypeOK
    <2>3. 0 \in 0 .. highest
      BY <1>1 DEF TypeOK
    <2>4. \A q \in Servers : ServeInvOf(q)'
      BY <2>1, <2>2, <2>3 DEF FreshInv, ServeInvOf, IdleTask, Tasks
    <2>5. \A q \in Seeders : SeedInvOf(q)'
      BY <2>1, <2>2, <2>3 DEF FreshInv, SeedInvOf, Running, IdleTask, Tasks
    <2>6. FloorInv' /\ RepeatInv' /\ StaleOnlyIfTainted'
      BY <2>1 DEF FreshInv, FloorInv, RepeatInv, AtLeast, StaleOnlyIfTainted
    <2>7. QED
      BY <1>1, <2>4, <2>5, <2>6 DEF FreshInv
  <1>6. ASSUME /\ UNCHANGED << gen, highest, floor, tainted >>
               /\ now' = now /\ promised' = promised
               /\ task' = task /\ blobs' = blobs
        PROVE  FreshInv'
    BY <1>1, <1>6 DEF FreshInv, FloorInv, RepeatInv, AtLeast, ServeInvOf, SeedInvOf,
                      Running, StaleOnlyIfTainted
  <1>7. CASE \/ CatalogPublish \/ RedisFails
             \/ \E r \in Replicas : KillSubscriber(r) \/ Subscribe(r)
    BY <1>6, <1>7 DEF CatalogPublish, RedisFails, KillSubscriber, Subscribe
  <1>8. CASE RedisRecovers
    <2>1. UNCHANGED << now, promised, task, blobs >>
      BY <1>8 DEF RedisRecovers
    <2>2. /\ highest' = highest /\ floor' = floor /\ RepeatInv'
          /\ tainted \subseteq tainted'
      BY <1>1, <1>8, RecoverProps DEF FreshInv
    <2>3. FloorInv' /\ StaleOnlyIfTainted'
      BY <2>1, <2>2 DEF FreshInv, FloorInv, StaleOnlyIfTainted, AtLeast
    <2>4. \A p \in Servers : ServeInvOf(p)'
      BY <2>1, <2>2 DEF FreshInv, ServeInvOf
    <2>5. \A p \in Seeders : SeedInvOf(p)'
      BY <2>1, <2>2 DEF FreshInv, SeedInvOf, Running
    <2>6. QED
      BY <1>1, <2>2, <2>3, <2>4, <2>5 DEF FreshInv
  <1>9. QED
    BY <1>2, <1>3, <1>4, <1>5, <1>7, <1>8

\* The initial states satisfy the invariant.
LEMMA InitFresh == Init => FreshInv
  <1> SUFFICES ASSUME Init
               PROVE  FreshInv
    OBVIOUS
  <1>1. /\ now = NoVersion /\ promised = NoVersion /\ gen = 0 /\ highest = 0 /\ tainted = {}
        /\ floor = [g \in {0} |-> NoVersion] /\ blobs = {}
        /\ \A p \in Tasks : task[p] = IdleTask
    BY DEF Init
  <1>2. 0 .. highest = {0} /\ RepeatInv
    BY <1>1 DEF RepeatInv
  <1>3. \A p \in Tasks : task[p].pc = "idle" /\ task[p].gen = 0
    BY <1>1, IdleTaskIdle
  <1>4. FloorInv
    BY <1>1, <1>2 DEF FloorInv, AtLeast, NoVersion
  <1>5. \A p \in Servers : ServeInvOf(p)
    BY <1>2, <1>3 DEF ServeInvOf, Tasks
  <1>6. \A p \in Seeders : SeedInvOf(p)
    BY <1>2, <1>3 DEF SeedInvOf, Running, Tasks
  <1>7. QED
    BY InitTypes, <1>1, <1>2, <1>4, <1>5, <1>6 DEF FreshInv, StaleOnlyIfTainted

\* Every step keeps the invariant.
LEMMA NextFresh == FreshInv /\ [Next]_vars => FreshInv'
  <1> SUFFICES ASSUME FreshInv, [Next]_vars
               PROVE  FreshInv'
    OBVIOUS
  <1>1. CASE \E p \in Servers : ServeKey(p) \/ ServeStep(p)
    BY <1>1, ServeFresh
  <1>2. CASE \E p \in Seeders : SeedStart(p) \/ SeedStep(p)
    BY <1>2, SeedFresh
  <1>3. CASE UNCHANGED vars
    BY <1>3, NextTypes DEF vars, FreshInv, FloorInv, RepeatInv, AtLeast, ServeInvOf, SeedInvOf,
                Running, StaleOnlyIfTainted
  <1>4. CASE \/ Truncate \/ CatalogCommit \/ CatalogPublish \/ EditRows
             \/ \E r \in Replicas :
                   HandleEvent(r) \/ KillSubscriber(r) \/ Subscribe(r)
             \/ RedisFails \/ RedisRecovers
             \/ \E p \in Tasks : KillTask(p)
    BY <1>4, OtherFresh
  <1>5. QED
    BY <1>1, <1>2, <1>3, <1>4 DEF Next

\* FreshInv is an invariant of the tile cache.
LEMMA FreshInvariant == Spec => []FreshInv
  <1>1. QED
    BY InitFresh, NextFresh, PTL DEF Spec

\* A stored tile is never older than its generation, because serve_tile computes
\* its key before it renders: unless a seed was running when that generation
\* began, or Redis had lost its data and the counter came by it again.
THEOREM StoredTilesFresh == Spec => []StaleOnlyIfTainted
  <1>1. FreshInv => StaleOnlyIfTainted
    BY DEF FreshInv
  <1>2. QED
    BY <1>1, FreshInvariant, PTL

-----------------------------------------------------------------------------
(* Freshness of the answers.                                               *)

\* A step of a request keeps AnswerInv and PromiseInv.
LEMMA ServePromise ==
    ASSUME FreshInv, AnswerInv, PromiseInv, NEW p \in Servers,
           ServeKey(p) \/ ServeStep(p)
    PROVE  AnswerInv' /\ PromiseInv'
  <1> USE DEF othersOfTask, catalogVars, genVars, files, Goto, Tasks
  <1>1. TypeOK /\ task[p] \in Task /\ ServeInvOf(p)
    BY DEF FreshInv, TypeOK
  <1>2. /\ UNCHANGED << gen, highest, floor, tainted >>
        /\ budget' = budget /\ promised' = promised /\ redisUp' = redisUp
    BY DEF ServeKey, ServeStep, ServeGet, ServeResolve, ServeRender, ServeError,
           ServeOpen, ServeWrite, ServePutFails, ServeReturn
  <1>3. \A q \in Tasks \ {p} : task'[q] = task[q]
    BY <1>1 DEF TypeOK, ServeKey, ServeStep, ServeGet, ServeResolve, ServeRender,
           ServeError, ServeOpen, ServeWrite, ServePutFails, ServeReturn
  <1> DEFINE Fresh == AtLeast(task'[p].ver, floor[task'[p].gen])
             Kept  == task'[p].gen = task[p].gen /\ task'[p].since = task[p].since
  <1>4. ASSUME task'[p].pc = "done" /\ task'[p].gen \notin tainted => Fresh,
               \/ task'[p].pc = "idle"
               \/ Running(p) /\ Kept
               \/ task'[p].gen = Generation /\ task'[p].since = promised
        PROVE  AnswerInv' /\ PromiseInv'
    <2>1. AnswerInv'
      BY <1>2, <1>3, <1>4 DEF AnswerInv, AtLeast
    <2>2. budget.outages = MaxOutages => Generation = gen
      BY DEF PromiseInv, Generation
    <2>3. PromiseInv'
      BY <1>2, <1>3, <1>4, <2>2 DEF PromiseInv, AtLeast, Running
    <2>4. QED
      BY <2>1, <2>3
  <1>5. CASE ServeKey(p)
    <2>1. PICK t \in Tiles :
            task' = [task EXCEPT ![p] = [IdleTask EXCEPT !.pc = "get",
                       !.tile = t, !.gen = Generation, !.since = promised]]
      BY <1>5 DEF ServeKey
    <2>2. /\ task'[p].pc = "get"
          /\ task'[p].gen = Generation /\ task'[p].since = promised
      BY <1>1, <2>1 DEF TypeOK, IdleTask
    <2>3. QED
      BY <1>4, <2>2
  <1>6. CASE ServeGet(p)
    <2>1. Running(p)
      BY <1>6 DEF ServeGet, Running
    <2>2. CASE task' = [task EXCEPT ![p].pc = "resolve"]
      <3>1. task'[p].pc = "resolve" /\ Kept
        BY <1>1, <2>2 DEF TypeOK, Task
      <3>2. QED
        BY <1>4, <2>1, <3>1
    <2>3. ASSUME NEW b \in BlobsAt(task[p].tile, task[p].gen),
                 task' = [task EXCEPT ![p].pc = "done", ![p].ver = b.ver,
                                      ![p].content = b.content]
          PROVE  AnswerInv' /\ PromiseInv'
      <3>1. task'[p].ver = b.ver /\ Kept
        BY <1>1, <2>3 DEF TypeOK, Task
      <3>2. b \in blobs /\ b.gen = task[p].gen
        BY DEF BlobsAt
      <3>3. b.gen \notin tainted => AtLeast(b.ver, floor[b.gen])
        BY <3>2 DEF FreshInv, StaleOnlyIfTainted
      <3>4. QED
        BY <1>4, <2>1, <3>1, <3>2, <3>3
    <2>4. QED
      BY <1>6, <2>2, <2>3 DEF ServeGet
  <1>7. CASE ServeResolve(p) \/ ServeRender(p) \/ ServeOpen(p)
    <2>1. Running(p) /\ Kept /\ task'[p].pc \in {"render", "open", "write"}
      BY <1>1, <1>7 DEF ServeResolve, ServeRender, ServeOpen, TypeOK, Task, Running
    <2>2. QED
      BY <1>4, <2>1
  <1>8. CASE ServeError(p) \/ ServeReturn(p)
    <2>1. task'[p].pc = "idle"
      BY <1>1, <1>8 DEF ServeError, ServeReturn, TypeOK, Task, IdleTask
    <2>2. QED
      BY <1>4, <2>1
  <1>9. CASE ServeWrite(p) \/ ServePutFails(p)
    <2>1. /\ Running(p) /\ Kept /\ task'[p].ver = task[p].ver
          /\ task[p].pc \in {"open", "write"}
      BY <1>1, <1>9 DEF ServeWrite, ServePutFails, TypeOK, Task, Running
    <2>2. QED
      BY <1>1, <1>4, <2>1 DEF ServeInvOf, AtLeast
  <1>10. QED
    BY <1>5, <1>6, <1>7, <1>8, <1>9 DEF ServeStep

\* A bump keeps AnswerInv and PromiseInv: the new generation claims what is
\* committed now, which is at least what any truncate was promised.
LEMMA BumpPromise ==
    ASSUME FreshInv, AnswerInv, PromiseInv, BumpGeneration,
           task' = task, promised' \in {promised, now},
           redisUp' = redisUp, budget'.outages = budget.outages
    PROVE  AnswerInv' /\ PromiseInv'
  <1>1. TypeOK /\ FloorInv /\ \A p \in Servers : task[p].gen \in 0 .. highest
    BY DEF FreshInv, ServeInvOf
  <1>2. /\ tainted \subseteq tainted'
        /\ \A g \in 0 .. highest : floor'[g] = floor[g]
        /\ redisUp /\ gen = highest => gen' = highest' /\ floor'[gen'] = now
    BY <1>1, BumpProps DEF TypeOK
  <1>3. AtLeast(now, promised) /\ AtLeast(now, now)
    BY <1>1 DEF FloorInv, TypeOK, Version, AtLeast
  <1>4. AnswerInv'
    BY <1>1, <1>2 DEF AnswerInv, AtLeast
  <1>5. budget'.outages = MaxOutages =>
          /\ redisUp /\ gen' = highest'
          /\ floor'[gen'] = now /\ AtLeast(now, promised')
    BY <1>2, <1>3 DEF PromiseInv
  <1>6. PromiseInv'
    BY <1>1, <1>2, <1>5 DEF PromiseInv, AtLeast, Running
  <1>7. QED
    BY <1>4, <1>6

\* The other steps keep AnswerInv and PromiseInv.
LEMMA OtherPromise ==
    ASSUME FreshInv, AnswerInv, PromiseInv,
           \/ Truncate \/ CatalogCommit \/ CatalogPublish \/ EditRows
           \/ \E r \in Replicas : HandleEvent(r) \/ KillSubscriber(r) \/ Subscribe(r)
           \/ RedisFails \/ RedisRecovers
           \/ \E p \in Tasks : KillTask(p)
    PROVE  AnswerInv' /\ PromiseInv'
  <1> USE DEF catalogVars, genVars, files
  <1>1. TypeOK /\ budget.outages \in Nat /\ MaxOutages \in Nat
        /\ budget \in [truncates : Nat, outages : Nat, crashes : Nat]
    BY BoundsAssumption DEF FreshInv, TypeOK
  <1>2. CASE Truncate
    <2>1. budget'.outages = budget.outages
      BY <1>1, <1>2 DEF Truncate
    <2>2. QED
      BY <1>2, <2>1, BumpPromise DEF Truncate
  <1>3. ASSUME NEW r \in Replicas, HandleEvent(r)
        PROVE  AnswerInv' /\ PromiseInv'
    BY <1>3, BumpPromise DEF HandleEvent
  <1>4. ASSUME UNCHANGED << gen, highest, floor, tainted >>, promised' = promised,
               \A p \in Tasks : task'[p] = task[p] \/ task'[p] = IdleTask,
               \/ budget'.outages = budget.outages /\ redisUp' = redisUp
               \/ budget'.outages = budget.outages - 1
               \/ budget'.outages = budget.outages /\ ~redisUp
        PROVE  AnswerInv' /\ PromiseInv'
    <2>1. AnswerInv'
      BY <1>4, IdleTaskIdle DEF AnswerInv, AtLeast, Tasks
    <2>2. budget'.outages <= MaxOutages
      BY <1>1, <1>4 DEF PromiseInv
    <2>3. budget'.outages = MaxOutages =>
            budget.outages = MaxOutages /\ redisUp' = redisUp /\ redisUp
      BY <1>1, <1>4 DEF PromiseInv
    <2>4. PromiseInv'
      BY <1>4, <2>2, <2>3, IdleTaskIdle DEF PromiseInv, AtLeast, Running, Tasks
    <2>5. QED
      BY <2>1, <2>4
  <1>5. CASE CatalogCommit \/ CatalogPublish \/ EditRows
             \/ \E r \in Replicas : Subscribe(r)
    BY <1>4, <1>5 DEF CatalogCommit, CatalogPublish, EditRows, Subscribe
  <1>6. CASE RedisFails
    <2>1. budget'.outages = budget.outages - 1
      BY <1>1, <1>6 DEF RedisFails
    <2>2. QED
      BY <1>4, <1>6, <2>1 DEF RedisFails
  <1>7. CASE RedisRecovers
    <2>1. /\ task' = task /\ budget' = budget /\ floor' = floor
          /\ tainted \subseteq tainted'
      BY <1>1, <1>7, RecoverProps DEF RedisRecovers
    <2>2. AnswerInv'
      BY <2>1 DEF AnswerInv, AtLeast
    <2>3. budget.outages # MaxOutages
      BY <1>7 DEF RedisRecovers, PromiseInv
    <2>4. PromiseInv'
      BY <2>1, <2>3 DEF PromiseInv
    <2>5. QED
      BY <2>2, <2>4
  <1>8. ASSUME NEW r \in Replicas, KillSubscriber(r)
        PROVE  AnswerInv' /\ PromiseInv'
    <2>1. budget'.outages = budget.outages
      BY <1>1, <1>8 DEF KillSubscriber
    <2>2. QED
      BY <1>4, <1>8, <2>1 DEF KillSubscriber
  <1>9. ASSUME NEW p \in Tasks, KillTask(p)
        PROVE  AnswerInv' /\ PromiseInv'
    <2>1. budget'.outages = budget.outages
      BY <1>1, <1>9 DEF KillTask
    <2>2. \A q \in Tasks : task'[q] = task[q] \/ task'[q] = IdleTask
      BY <1>1, <1>9 DEF KillTask, TypeOK
    <2>3. QED
      BY <1>4, <1>9, <2>1, <2>2 DEF KillTask
  <1>10. QED
    BY <1>2, <1>3, <1>5, <1>6, <1>7, <1>8, <1>9

\* A step of a seed run touches nothing AnswerInv and PromiseInv speak of.
LEMMA SeedPromise ==
    ASSUME FreshInv, AnswerInv, PromiseInv, NEW p \in Seeders,
           SeedStart(p) \/ SeedStep(p)
    PROVE  AnswerInv' /\ PromiseInv'
  <1> USE DEF othersOfTask, catalogVars, genVars, files, Goto, Tasks
  <1>1. TypeOK
    BY DEF FreshInv
  <1>2. /\ UNCHANGED << gen, highest, floor, tainted >>
        /\ budget' = budget /\ promised' = promised /\ redisUp' = redisUp
    BY DEF SeedStart, SeedStep, SeedRender, SeedKey, SeedOpen, SeedWrite,
           SeedPutFails, SeedReturn
  <1>3. \A q \in Servers : task'[q] = task[q]
    BY <1>1, TasksAssumption
       DEF TypeOK, SeedStart, SeedStep, SeedRender, SeedKey, SeedOpen,
           SeedWrite, SeedPutFails, SeedReturn, NextSeedTile
  <1>4. QED
    BY <1>2, <1>3 DEF AnswerInv, PromiseInv, AtLeast, Running

\* Whatever Redis' past, the answers respect the untainted generations; and
\* while it has always answered, that generation respects every truncate
\* acknowledged before the request came in.
THEOREM AnswersFresh == Spec => []FreshUnlessSeedOrOutage
  <1> DEFINE Inv == FreshInv /\ AnswerInv /\ PromiseInv
  <1>1. Init => Inv
    <2> SUFFICES ASSUME Init
                 PROVE  Inv
      OBVIOUS
    <2>1. \A p \in Servers : task[p].pc = "idle"
      BY DEF Init, IdleTask, Tasks
    <2>2. /\ budget.outages = MaxOutages /\ redisUp /\ gen = highest
          /\ floor[gen] = NoVersion /\ promised = NoVersion
      BY DEF Init
    <2>3. PromiseInv
      BY <2>1, <2>2, BoundsAssumption
         DEF PromiseInv, Running, AtLeast, NoVersion
    <2>4. QED
      BY <2>1, <2>3, InitFresh DEF AnswerInv
  <1>2. Inv /\ [Next]_vars => Inv'
    <2> SUFFICES ASSUME FreshInv, AnswerInv, PromiseInv, [Next]_vars
                 PROVE  AnswerInv' /\ PromiseInv'
      BY NextFresh
    <2>1. CASE \E p \in Servers : ServeKey(p) \/ ServeStep(p)
      BY <2>1, ServePromise
    <2>2. CASE \E p \in Seeders : SeedStart(p) \/ SeedStep(p)
      BY <2>2, SeedPromise
    <2>3. CASE UNCHANGED vars
      BY <2>3 DEF vars, AnswerInv, PromiseInv, AtLeast, Running
    <2>4. CASE \/ Truncate \/ CatalogCommit \/ CatalogPublish \/ EditRows
               \/ \E r \in Replicas :
                     HandleEvent(r) \/ KillSubscriber(r) \/ Subscribe(r)
               \/ RedisFails \/ RedisRecovers
               \/ \E p \in Tasks : KillTask(p)
      BY <2>4, OtherPromise
    <2>5. QED
      BY <2>1, <2>2, <2>3, <2>4 DEF Next
  <1>3. Inv => FreshUnlessSeedOrOutage
    <2> SUFFICES ASSUME Inv, budget.outages = MaxOutages, NEW p \in Servers,
                        task[p].pc = "done", task[p].gen \notin tainted
                 PROVE  AtLeast(task[p].ver, task[p].since)
      BY DEF FreshUnlessSeedOrOutage
    <2>1. AtLeast(task[p].ver, floor[task[p].gen])
      BY DEF AnswerInv
    <2>2. AtLeast(floor[task[p].gen], task[p].since)
      BY DEF PromiseInv, Running
    <2>3. /\ task[p].ver \in Version /\ task[p].since \in Version
          /\ floor[task[p].gen] \in Version
      BY DEF FreshInv, TypeOK, ServeInvOf, Tasks, Task
    <2>4. QED
      BY <2>1, <2>2, <2>3 DEF AtLeast, Version
  <1>4. QED
    BY <1>1, <1>2, <1>3, PTL DEF Spec

-----------------------------------------------------------------------------
(* Whole tiles.                                                            *)

\* A step that leaves the files alone, opens none and marks what it abandons.
LEMMA FilesKept ==
    ASSUME PutInv, blobs' = blobs, marred \subseteq marred',
           \A q \in Tasks :
             /\ task'[q].pc = "write" => task[q].pc = "write" /\ Key(q)' = Key(q)
             /\ task[q].pc = "write" => task'[q].pc = "write" \/ Key(q) \in marred'
    PROVE  PutInv'
  <1>1. ASSUME NEW b \in blobs', b.content # "whole", << b.tile, b.gen >> \notin marred'
        PROVE  Writers(<< b.tile, b.gen >>)' # {}
    <2>1. PICK q \in Tasks : task[q].pc = "write" /\ Key(q) = << b.tile, b.gen >>
      BY <1>1 DEF PutInv, WholeUnlessContended, Writers
    <2>2. task'[q].pc = "write" /\ Key(q)' = << b.tile, b.gen >>
      BY <1>1, <2>1
    <2>3. q \in Writers(<< b.tile, b.gen >>)'
      BY <2>2 DEF Writers
    <2>4. QED
      BY <2>3
  <1>2. WholeUnlessContended'
    BY <1>1 DEF WholeUnlessContended
  <1>3. QED
    BY <1>2 DEF PutInv

\* A writer that opens a file alone finds it empty and its key unmarked; one
\* that opens it next to another marks it.
LEMMA OpenKeepsPut ==
    ASSUME TypeOK, PutInv, NEW p \in Tasks, PutOpen(p), task[p].pc = "open",
           task' = [task EXCEPT ![p].pc = "write"]
    PROVE  PutInv'
  <1> DEFINE new == [tile |-> task[p].tile, gen |-> task[p].gen,
                     ver |-> task[p].ver, content |-> "empty"]
  <1>1. /\ task'[p].pc = "write" /\ Key(p)' = Key(p)
        /\ \A q \in Tasks : q # p => task'[q] = task[q] /\ Key(q)' = Key(q)
    BY DEF TypeOK, Task, Key
  <1>2. /\ << new.tile, new.gen >> = Key(p) /\ new.content = "empty"
        /\ blobs' = {b \in blobs : << b.tile, b.gen >> # Key(p)} \cup {new}
    BY DEF PutOpen, BlobsAt, Key
  <1>3. \A key : key # Key(p) => (key \in marred' <=> key \in marred)
    BY DEF PutOpen
  <1>4. Key(p) \notin marred' => \A q \in Tasks : task[q].pc = "write" => Key(q) # Key(p)
    BY DEF PutOpen, Writers
  <1> HIDE DEF new
  <1>5. \A b, c \in blobs' : b.tile = c.tile /\ b.gen = c.gen => b = c
    BY <1>2 DEF PutInv
  <1>6. ASSUME NEW q \in Tasks, NEW r \in Tasks, q # r, task'[q].pc = "write",
               task'[r].pc = "write", Key(q)' = Key(r)'
        PROVE  Key(q)' \in marred'
    <2>1. CASE Key(q)' = Key(p)
      BY <1>1, <1>4, <1>6, <2>1
    <2>2. CASE Key(q)' # Key(p)
      BY <1>1, <1>3, <1>6, <2>2 DEF PutInv
    <2>3. QED
      BY <2>1, <2>2
  <1>7. ASSUME NEW q \in Tasks, NEW b \in blobs', task'[q].pc = "write",
               << b.tile, b.gen >> = Key(q)', Key(q)' \notin marred'
        PROVE  b.content = "empty"
    <2>1. CASE b = new
      BY <1>2, <2>1
    <2>2. CASE b # new
      BY <1>1, <1>2, <1>3, <1>7, <2>2 DEF PutInv
    <2>3. QED
      BY <2>1, <2>2
  <1>8. ASSUME NEW b \in blobs', b.content # "whole", << b.tile, b.gen >> \notin marred'
        PROVE  Writers(<< b.tile, b.gen >>)' # {}
    <2>1. CASE b = new
      BY <1>1, <1>2, <2>1 DEF Writers
    <2>2. CASE b # new
      <3>1. b \in blobs /\ << b.tile, b.gen >> # Key(p) /\ << b.tile, b.gen >> \notin marred
        BY <1>2, <1>3, <1>8, <2>2
      <3>2. PICK q \in Tasks : task[q].pc = "write" /\ Key(q) = << b.tile, b.gen >>
        BY <1>8, <3>1 DEF PutInv, WholeUnlessContended, Writers
      <3>3. q \in Writers(<< b.tile, b.gen >>)'
        BY <1>1, <3>1, <3>2 DEF Writers
      <3>4. QED
        BY <3>3
    <2>3. QED
      BY <2>1, <2>2
  <1>9. QED
    BY <1>5, <1>6, <1>7, <1>8 DEF PutInv, WholeUnlessContended

\* A writer whose key is not marked finds its file empty and leaves it whole.
LEMMA WriteKeepsPut ==
    ASSUME TypeOK, PutInv, NEW p \in Tasks, PutWrite(p), task[p].pc = "write",
           task'[p].pc # "write",
           \A q \in Tasks : q # p => task'[q] = task[q]
    PROVE  PutInv'
  <1>1. PICK old \in blobs, mixed \in {FALSE, TRUE} :
          /\ << old.tile, old.gen >> = Key(p)
          /\ mixed => old.content # "empty"
          /\ blobs' = (blobs \ {old}) \cup
               {[tile |-> old.tile, gen |-> old.gen,
                 ver |-> IF mixed THEN Older(old.ver, task[p].ver) ELSE task[p].ver,
                 content |-> IF mixed THEN "mixed" ELSE "whole"]}
    BY DEF PutWrite, BlobsAt, Key
  <1>2. PICK new : /\ << new.tile, new.gen >> = Key(p)
                   /\ new.tile = old.tile /\ new.gen = old.gen
                   /\ ~mixed => new.content = "whole"
                   /\ blobs' = (blobs \ {old}) \cup {new}
    BY <1>1
  <1>3. marred' = marred
    BY DEF PutWrite
  <1>4. \A q \in Tasks : task'[q].pc = "write" =>
          q # p /\ task[q].pc = "write" /\ Key(q)' = Key(q)
    BY DEF Key
  <1>5. \A b \in blobs : << b.tile, b.gen >> = Key(p) => b = old
    BY <1>1 DEF PutInv
  <1>6. Key(p) \notin marred => new.content = "whole"
    BY <1>1, <1>2 DEF PutInv
  <1>7. \A b, c \in blobs' : b.tile = c.tile /\ b.gen = c.gen => b = c
    BY <1>1, <1>2, <1>5 DEF PutInv
  <1>8. \A q, r \in Tasks :
          q # r /\ task'[q].pc = "write" /\ task'[r].pc = "write" /\ Key(q)' = Key(r)'
             => Key(q)' \in marred'
    BY <1>3, <1>4 DEF PutInv
  <1>9. ASSUME NEW q \in Tasks, NEW b \in blobs', task'[q].pc = "write",
               << b.tile, b.gen >> = Key(q)', Key(q)' \notin marred'
        PROVE  b.content = "empty"
    <2>1. q # p /\ task[q].pc = "write" /\ Key(q) = << b.tile, b.gen >> /\ Key(q) \notin marred
      BY <1>3, <1>4, <1>9
    <2>2. Key(q) # Key(p)
      BY <2>1 DEF PutInv
    <2>3. b \in blobs
      BY <1>2, <2>1, <2>2
    <2>4. QED
      BY <2>1, <2>3 DEF PutInv
  <1>10. ASSUME NEW b \in blobs', b.content # "whole", << b.tile, b.gen >> \notin marred'
         PROVE  Writers(<< b.tile, b.gen >>)' # {}
    <2>1. b \in blobs /\ b # old
      BY <1>2, <1>3, <1>6, <1>10
    <2>2. PICK q \in Tasks : task[q].pc = "write" /\ Key(q) = << b.tile, b.gen >>
      BY <1>3, <1>10, <2>1 DEF PutInv, WholeUnlessContended, Writers
    <2>3. q # p
      BY <1>5, <2>1, <2>2
    <2>4. q \in Writers(<< b.tile, b.gen >>)'
      BY <2>2, <2>3 DEF Writers, Key
    <2>5. QED
      BY <2>4
  <1>11. QED
    BY <1>7, <1>8, <1>9, <1>10 DEF PutInv, WholeUnlessContended

\* A task that ends or goes on without having written marks the file it had open.
LEMMA LeftKeepsPut ==
    ASSUME PutInv, NEW p \in Tasks, PutLeft(p), task'[p].pc # "write",
           \A q \in Tasks : q # p => task'[q] = task[q]
    PROVE  PutInv'
  <1>1. /\ blobs' = blobs /\ marred \subseteq marred'
        /\ task[p].pc = "write" => Key(p) \in marred'
    BY DEF PutLeft
  <1>2. \A q \in Tasks :
          /\ task'[q].pc = "write" => task[q].pc = "write" /\ Key(q)' = Key(q)
          /\ task[q].pc = "write" => task'[q].pc = "write" \/ Key(q) \in marred'
    BY <1>1 DEF Key
  <1>3. QED
    BY <1>1, <1>2, FilesKept

\* The steps of requests and seeds.
LEMMA TaskKeepsPut ==
    ASSUME TypeOK, PutInv, NEW p \in Tasks,
           \/ p \in Servers /\ (ServeKey(p) \/ ServeStep(p))
           \/ p \in Seeders /\ (SeedStart(p) \/ SeedStep(p))
           \/ KillTask(p)
    PROVE  PutInv'
  <1>1. task \in [Tasks -> Task] /\ task[p] \in Task
    BY DEF TypeOK
  <1>2. \A q \in Tasks : q # p => task'[q] = task[q]
    BY <1>1 DEF ServeKey, ServeStep, ServeGet, ServeResolve, ServeRender, ServeError,
                ServeOpen, ServeWrite, ServePutFails, ServeReturn, SeedStart, SeedStep,
                SeedRender, SeedKey, SeedOpen, SeedWrite, SeedPutFails, SeedReturn,
                NextSeedTile, Goto, KillTask
  <1>3. CASE ServeOpen(p) \/ SeedOpen(p)
    BY <1>3, OpenKeepsPut DEF ServeOpen, SeedOpen, Goto
  <1>4. CASE ServeWrite(p) \/ SeedWrite(p)
    <2>1. task'[p].pc # "write"
      BY <1>1, <1>4 DEF ServeWrite, SeedWrite, NextSeedTile, Task
    <2>2. PutWrite(p) /\ task[p].pc = "write"
      BY <1>4 DEF ServeWrite, SeedWrite
    <2>3. QED
      BY <1>2, <2>1, <2>2, WriteKeepsPut
  <1>5. CASE ServePutFails(p) \/ SeedPutFails(p) \/ KillTask(p)
    <2>1. task'[p].pc # "write"
      BY <1>1, <1>5, IdleTaskIdle
      DEF ServePutFails, SeedPutFails, KillTask, NextSeedTile, Task
    <2>2. PutLeft(p)
      BY <1>5 DEF ServePutFails, SeedPutFails, KillTask
    <2>3. QED
      BY <1>2, <2>1, <2>2, LeftKeepsPut
  <1>6. CASE \/ ServeKey(p) \/ ServeGet(p) \/ ServeResolve(p) \/ ServeRender(p)
             \/ ServeError(p) \/ ServeReturn(p)
             \/ SeedStart(p) \/ SeedRender(p) \/ SeedKey(p) \/ SeedReturn(p)
    <2>1. task[p].pc # "write" /\ UNCHANGED << blobs, marred >>
      BY <1>6 DEF ServeKey, ServeGet, ServeResolve, ServeRender, ServeError, ServeReturn,
                  SeedStart, SeedRender, SeedKey, SeedReturn, files
    <2>2. task'[p].pc # "write"
      <3>1. CASE ServeKey(p) \/ ServeGet(p) \/ ServeResolve(p) \/ ServeRender(p)
        <4>1. CASE ServeKey(p)
          <5>1. PICK t \in Tiles :
                  task' = [task EXCEPT ![p] = [IdleTask EXCEPT !.pc = "get", !.tile = t,
                                                 !.gen = Generation, !.since = promised]]
            BY <4>1 DEF ServeKey
          <5>2. QED
            BY <1>1, <5>1, IdleTaskType DEF Task
        <4>2. CASE ServeGet(p)
          <5>1. \/ task' = [task EXCEPT ![p].pc = "resolve"]
                \/ \E b \in blobs :
                     task' = [task EXCEPT ![p].pc = "done", ![p].ver = b.ver,
                                          ![p].content = b.content]
            BY <4>2 DEF ServeGet, BlobsAt, Goto
          <5>2. CASE task' = [task EXCEPT ![p].pc = "resolve"]
            BY <1>1, <5>2 DEF Task
          <5>3. ASSUME NEW b \in blobs,
                       task' = [task EXCEPT ![p].pc = "done", ![p].ver = b.ver,
                                            ![p].content = b.content]
                PROVE  task'[p].pc = "done"
            BY <1>1, <5>3 DEF Task
          <5>4. QED
            BY <5>1, <5>2, <5>3
        <4>3. CASE ServeResolve(p)
          BY <1>1, <4>3 DEF ServeResolve, Task
        <4>4. CASE ServeRender(p)
          BY <1>1, <4>4 DEF ServeRender, Task
        <4>5. QED
          BY <3>1, <4>1, <4>2, <4>3, <4>4
      <3>2. CASE ServeError(p) \/ ServeReturn(p) \/ SeedReturn(p)
        <4>1. task' = [task EXCEPT ![p].pc = "idle"] \/ task' = [task EXCEPT ![p] = IdleTask]
          BY <3>2 DEF ServeError, ServeReturn, SeedReturn, Goto
        <4>2. QED
          BY <1>1, <4>1, IdleTaskIdle DEF Task
      <3>3. CASE SeedStart(p) \/ SeedKey(p)
        BY <1>1, <3>3 DEF SeedStart, SeedKey, Task
      <3>4. CASE SeedRender(p)
        <4>1. PICK t \in Tiles, todo \in SUBSET Tiles :
                \/ task' = [task EXCEPT ![p].pc = "key", ![p].tile = t, ![p].ver.rows = now.rows]
                \/ task' = [task EXCEPT ![p].todo = todo]
          BY <1>1, <3>4 DEF SeedRender, Task
        <4>2. CASE task' = [task EXCEPT ![p].todo = todo]
          BY <1>1, <2>1, <4>2 DEF Task
        <4>3. CASE task' = [task EXCEPT ![p].pc = "key", ![p].tile = t, ![p].ver.rows = now.rows]
          BY <1>1, <4>3 DEF Task
        <4>4. QED
          BY <4>1, <4>2, <4>3
      <3>5. QED
        BY <1>6, <3>1, <3>2, <3>3, <3>4
    <2>3. \A q \in Tasks :
            /\ task'[q].pc = "write" => task[q].pc = "write" /\ Key(q)' = Key(q)
            /\ task[q].pc = "write" => task'[q].pc = "write" \/ Key(q) \in marred'
      BY <1>2, <2>1, <2>2 DEF Key
    <2>4. QED
      BY <2>1, <2>3, FilesKept
  <1>7. QED
    BY <1>3, <1>4, <1>5, <1>6 DEF ServeStep, SeedStep

\* Who reads a tile nobody is writing, and whose last lone writer finished
\* undisturbed, reads all of it: put truncates before it writes, and two writers
\* or a failed one are the only way to half a tile (Cache::put).
THEOREM TilesAreWhole == Spec => []WholeUnlessContended
  <1>1. Init => TypeOK /\ PutInv
    <2> SUFFICES ASSUME Init PROVE PutInv
      BY InitTypes
    <2>1. blobs = {} /\ \A p \in Tasks : task[p].pc = "idle"
      BY IdleTaskIdle DEF Init
    <2>2. QED
      BY <2>1 DEF PutInv, WholeUnlessContended
  <1>2. TypeOK /\ PutInv /\ [Next]_vars => (TypeOK /\ PutInv)'
    <2> SUFFICES ASSUME TypeOK, PutInv, [Next]_vars PROVE PutInv'
      BY NextTypes
    <2>1. CASE \/ \E p \in Servers : ServeKey(p) \/ ServeStep(p)
               \/ \E p \in Seeders : SeedStart(p) \/ SeedStep(p)
               \/ \E p \in Tasks : KillTask(p)
      BY <2>1, TaskKeepsPut DEF Tasks
    <2>2. CASE UNCHANGED << blobs, marred, task >>
      BY <2>2, FilesKept DEF Key
    <2>3. CASE \/ Truncate \/ CatalogCommit \/ CatalogPublish \/ EditRows
               \/ \E r \in Replicas :
                     HandleEvent(r) \/ KillSubscriber(r) \/ Subscribe(r)
               \/ RedisFails \/ RedisRecovers
      BY <2>2, <2>3 DEF Truncate, CatalogCommit, CatalogPublish, EditRows, HandleEvent,
                        KillSubscriber, Subscribe, RedisFails, RedisRecovers, files
    <2>4. QED
      BY <2>1, <2>2, <2>3 DEF Next, vars
  <1>3. PutInv => WholeUnlessContended
    BY DEF PutInv
  <1>4. QED
    BY <1>1, <1>2, <1>3, PTL DEF Spec
-----------------------------------------------------------------------------
(* Handled events.                                                         *)

\* A step of a request or a seed reads no more than is committed, and stores
\* what it has read.
LEMMA TaskKeepsCatchUp ==
    ASSUME TypeOK, CatchUpInv, NEW p \in Tasks,
           \/ p \in Servers /\ (ServeKey(p) \/ ServeStep(p))
           \/ p \in Seeders /\ (SeedStart(p) \/ SeedStep(p))
    PROVE  CatchUpInv'
  <1>1. /\ task \in [Tasks -> Task] /\ task[p] \in Task /\ blobs \subseteq Blob
        /\ now \in Version /\ AtLeast(now, task[p].ver)
        /\ \A b \in blobs : b.ver \in Version /\ AtLeast(now, b.ver)
    BY DEF TypeOK, CatchUpInv, Blob
  <1>2. UNCHANGED << now, toPublish, inbox, subscribed, redisUp, gen, highest, floor, budget >>
    BY DEF ServeKey, ServeStep, ServeGet, ServeResolve, ServeRender, ServeError,
           ServeOpen, ServeWrite, ServePutFails, ServeReturn, SeedStart, SeedStep,
           SeedRender, SeedKey, SeedOpen, SeedWrite, SeedPutFails, SeedReturn,
           othersOfTask, catalogVars, genVars
  <1>3. AtLeast(now, task'[p].ver)
    <2>1. CASE \/ ServeKey(p) \/ ServeReturn(p) \/ SeedReturn(p)
      <3>1. \/ task' = [task EXCEPT ![p] = IdleTask]
            \/ \E t \in Tiles, g \in Nat, since \in Version :
                  task' = [task EXCEPT ![p] = [IdleTask EXCEPT !.pc = "get", !.tile = t,
                                                 !.gen = g, !.since = since]]
        BY <2>1, GenerationType DEF ServeKey, ServeReturn, SeedReturn, TypeOK
      <3>2. task'[p].ver = IdleTask.ver
        BY <1>1, <3>1, IdleTaskType DEF Task
      <3>3. task'[p].ver = NoVersion
        BY <3>2 DEF IdleTask
      <3>4. QED
        BY <1>1, <3>3 DEF NoVersion, AtLeast, Version
    <2>2. CASE ServeGet(p)
      <3>1. CASE Goto(p, "resolve")
        BY <1>1, <3>1 DEF Goto, Task
      <3>2. CASE ~Goto(p, "resolve")
        <4>1. PICK b \in blobs : task' = [task EXCEPT ![p].pc = "done", ![p].ver = b.ver,
                                                      ![p].content = b.content]
          BY <2>2, <3>2 DEF ServeGet, BlobsAt
        <4>2. task'[p].ver = b.ver
          BY <1>1, <4>1 DEF Task
        <4>3. QED
          BY <1>1, <4>2
      <3>3. QED
        BY <3>1, <3>2
    <2>3. CASE ServeResolve(p) \/ SeedStart(p)
      <3>1. task'[p].ver = [task[p].ver EXCEPT !.conf = now.conf]
        BY <1>1, <2>3 DEF ServeResolve, SeedStart, Task
      <3>2. QED
        BY <1>1, <3>1 DEF AtLeast, Version, Task
    <2>4. CASE ServeRender(p) \/ SeedRender(p)
      <3>1. PICK t \in Tiles, todo \in SUBSET Tiles :
              \/ task' = [task EXCEPT ![p].pc = "open", ![p].ver.rows = now.rows]
              \/ task' = [task EXCEPT ![p].pc = "key", ![p].tile = t,
                                      ![p].ver.rows = now.rows]
              \/ task' = [task EXCEPT ![p].todo = todo]
        BY <1>1, <2>4 DEF ServeRender, SeedRender, Task
      <3>2. \/ task'[p].ver = [task[p].ver EXCEPT !.rows = now.rows]
            \/ task'[p].ver = task[p].ver
        BY <1>1, <3>1 DEF Task
      <3>3. QED
        BY <1>1, <3>2 DEF AtLeast, Version, Task
    <2>5. CASE \/ ServeError(p) \/ ServeOpen(p) \/ ServeWrite(p) \/ ServePutFails(p)
               \/ SeedKey(p) \/ SeedOpen(p) \/ SeedWrite(p) \/ SeedPutFails(p)
      <3>1. task'[p].ver = task[p].ver
        BY <1>1, <2>5 DEF ServeError, ServeOpen, ServeWrite, ServePutFails, SeedKey,
                          SeedOpen, SeedWrite, SeedPutFails, NextSeedTile, Goto, Task
      <3>2. QED
        BY <1>1, <3>1
    <2>6. QED
      BY <2>1, <2>2, <2>3, <2>4, <2>5 DEF ServeStep, SeedStep
  <1>4. \A q \in Tasks : q # p => task'[q] = task[q]
    BY <1>1 DEF ServeKey, ServeStep, ServeGet, ServeResolve, ServeRender, ServeError,
                ServeOpen, ServeWrite, ServePutFails, ServeReturn, SeedStart, SeedStep,
                SeedRender, SeedKey, SeedOpen, SeedWrite, SeedPutFails, SeedReturn,
                NextSeedTile, Goto
  <1>5. ASSUME NEW b \in blobs'
        PROVE  AtLeast(now, b.ver)
    <2>1. CASE PutOpen(p)
      BY <1>1, <1>5, <2>1, PutOpenProps
    <2>2. CASE PutWrite(p)
      <3>1. \/ b \in blobs \/ b.ver = task[p].ver
            \/ \E old \in blobs : b.ver = Older(old.ver, task[p].ver)
        BY <1>5, <2>2, PutWriteProps
      <3>2. CASE \E old \in blobs : b.ver = Older(old.ver, task[p].ver)
        BY <1>1, <3>2 DEF Older, AtLeast, Version, Task
      <3>3. QED
        BY <1>1, <3>1, <3>2
    <2>3. CASE blobs' = blobs
      BY <1>1, <1>5, <2>3
    <2>4. PutOpen(p) \/ PutWrite(p) \/ blobs' = blobs
      BY DEF ServeKey, ServeStep, ServeGet, ServeResolve, ServeRender, ServeError,
             ServeOpen, ServeWrite, ServePutFails, ServeReturn, SeedStart, SeedStep,
             SeedRender, SeedKey, SeedOpen, SeedWrite, SeedPutFails, SeedReturn,
             PutLeft, files
    <2>5. QED
      BY <2>1, <2>2, <2>3, <2>4
  <1>6. (\A q \in Tasks : AtLeast(now, task[q].ver))'
    BY <1>2, <1>3, <1>4 DEF CatchUpInv, AtLeast
  <1>7. (\A b \in blobs : AtLeast(now, b.ver))'
    BY <1>2, <1>5 DEF AtLeast
  <1>8. QED
    BY <1>2, <1>6, <1>7 DEF CatchUpInv

\* A bump leaves no change waiting: what the new generation may show is committed.
LEMMA BumpKeepsCatchUp ==
    ASSUME TypeOK, CatchUpInv, BumpGeneration,
           UNCHANGED << now, toPublish, subscribed, redisUp, files, task >>,
           inbox' \in [Replicas -> Nat],
           budget' = budget \/ budget' = [budget EXCEPT !.truncates = @ - 1]
    PROVE  CatchUpInv'
  <1>1. budget'.outages = budget.outages /\ budget'.crashes = budget.crashes
    BY DEF TypeOK
  <1>2. redisUp /\ gen = highest => floor'[gen'] = now /\ gen' = highest'
    BY BumpProps
  <1>3. /\ (\A q \in Tasks : AtLeast(now, task[q].ver))'
        /\ (\A b \in blobs : AtLeast(now, b.ver))'
    BY DEF CatchUpInv, AtLeast, files
  <1>4. ASSUME redisUp, gen = highest, NEW r \in Replicas
        PROVE  now'.conf <= floor'[gen'].conf + toPublish' + inbox'[r]
    BY <1>2, <1>4 DEF TypeOK, Version
  <1>5. QED
    BY <1>1, <1>2, <1>3, <1>4 DEF CatchUpInv

\* What is committed waits to be published, and then for every subscriber.
LEMMA OtherKeepsCatchUp ==
    ASSUME TypeOK, CatchUpInv,
           \/ Truncate \/ CatalogCommit \/ CatalogPublish \/ EditRows
           \/ \E r \in Replicas : HandleEvent(r) \/ KillSubscriber(r) \/ Subscribe(r)
           \/ RedisFails \/ RedisRecovers
           \/ \E p \in Tasks : KillTask(p)
    PROVE  CatchUpInv'
  <1>1. /\ now \in Version /\ toPublish \in Nat /\ inbox \in [Replicas -> Nat]
        /\ subscribed \in [Replicas -> BOOLEAN] /\ gen \in 0 .. highest
        /\ floor \in [0 .. highest -> Version] /\ floor[gen] \in Version
        /\ task \in [Tasks -> Task] /\ blobs \subseteq Blob
        /\ budget \in [truncates : Nat, outages : Nat, crashes : Nat]
    BY DEF TypeOK
  <1>2. CASE Truncate
    BY <1>1, <1>2, BumpKeepsCatchUp DEF Truncate, catalogVars
  <1>3. CASE \E r \in Replicas : HandleEvent(r)
    <2>1. PICK r \in Replicas : HandleEvent(r)
      BY <1>3
    <2>2. inbox' \in [Replicas -> Nat]
      BY <1>1, <2>1 DEF HandleEvent
    <2>3. QED
      BY <2>1, <2>2, BumpKeepsCatchUp DEF HandleEvent
  <1>4. CASE CatalogCommit \/ EditRows
    <2>1. /\ now' \in Version /\ AtLeast(now', now)
          /\ now'.conf - now.conf = toPublish' - toPublish
      <3>1. \/ now' = [now EXCEPT !.conf = @ + 1] /\ toPublish' = toPublish + 1
            \/ now' = [now EXCEPT !.rows = @ + 1] /\ toPublish' = toPublish
        BY <1>4 DEF CatalogCommit, EditRows
      <3>2. now \in Version /\ toPublish \in Nat
        BY <1>1
      <3>3. now' \in Version
        BY <3>1, <3>2 DEF Version
      <3>4. CASE now' = [now EXCEPT !.conf = @ + 1] /\ toPublish' = toPublish + 1
        BY <3>2, <3>3, <3>4 DEF AtLeast, Version
      <3>5. CASE now' = [now EXCEPT !.rows = @ + 1] /\ toPublish' = toPublish
        BY <3>2, <3>3, <3>5 DEF AtLeast, Version
      <3>6. QED
        BY <3>1, <3>3, <3>4, <3>5
    <2>2. UNCHANGED << inbox, subscribed, redisUp, gen, highest, floor, blobs, task, budget >>
      BY <1>4 DEF CatalogCommit, EditRows, genVars, files
    <2>3. \A v \in Version : AtLeast(now, v) => AtLeast(now', v)
      BY <1>1, <2>1 DEF AtLeast, Version
    <2>4. /\ (\A q \in Tasks : AtLeast(now, task[q].ver))'
          /\ (\A b \in blobs : AtLeast(now, b.ver))'
      BY <1>1, <2>2, <2>3 DEF CatchUpInv, Task, Blob
    <2>5. toPublish' \in Nat
      BY <1>1, <1>4 DEF CatalogCommit, EditRows
    <2>6. ASSUME NEW r \in Replicas, now.conf <= floor[gen].conf + toPublish + inbox[r]
          PROVE  now'.conf <= floor[gen].conf + toPublish' + inbox[r]
      <3>1. inbox[r] \in Nat /\ floor[gen].conf \in Nat /\ now.conf \in Nat /\ now'.conf \in Nat
        BY <1>1, <2>1 DEF Version
      <3>2. /\ now'.conf - now.conf = toPublish' - toPublish
            /\ toPublish \in Nat /\ toPublish' \in Nat
        BY <1>1, <2>1, <2>5
      <3>3. QED
        BY <2>6, <3>1, <3>2
    <2>7. QED
      BY <2>2, <2>4, <2>6 DEF CatchUpInv
  <1>5. CASE CatalogPublish
    <2>1. UNCHANGED << now, subscribed, redisUp, gen, highest, floor, blobs, task, budget >>
      BY <1>5 DEF CatalogPublish, genVars, files
    <2>2. ASSUME NEW r \in Replicas, subscribed[r]
          PROVE  toPublish' + inbox'[r] = toPublish + inbox[r]
      BY <1>1, <1>5, <2>2 DEF CatalogPublish
    <2>3. toPublish' \in Nat /\ inbox' \in [Replicas -> Nat]
      BY <1>1, <1>5 DEF CatalogPublish
    <2>4. ASSUME NEW r \in Replicas, subscribed[r],
                 now.conf <= floor[gen].conf + toPublish + inbox[r]
          PROVE  now.conf <= floor[gen].conf + toPublish' + inbox'[r]
      <3>1. /\ inbox[r] \in Nat /\ inbox'[r] \in Nat
            /\ floor[gen].conf \in Nat /\ now.conf \in Nat
        BY <1>1, <2>3 DEF Version
      <3>2. /\ toPublish' + inbox'[r] = toPublish + inbox[r]
            /\ toPublish \in Nat /\ toPublish' \in Nat
        BY <1>1, <2>2, <2>3, <2>4
      <3>3. QED
        BY <2>4, <3>1, <3>2
    <2>5. QED
      BY <2>1, <2>4 DEF CatchUpInv, AtLeast
  <1>6. CASE RedisFails \/ \E r \in Replicas : Subscribe(r)
    <2>1. UNCHANGED << now, toPublish, inbox, gen, highest, floor, blobs, task >>
      BY <1>6 DEF RedisFails, Subscribe, catalogVars, genVars, files
    <2>2. /\ budget'.outages <= budget.outages /\ budget'.crashes = budget.crashes
          /\ budget'.outages = budget.outages => (redisUp => redisUp')
          /\ \A r \in Replicas : subscribed[r] => subscribed'[r]
          /\ budget'.outages \in Nat
      BY <1>1, <1>6 DEF RedisFails, Subscribe, catalogVars
    <2>3. MaxOutages \in Nat /\ budget.outages <= MaxOutages
      BY BoundsAssumption DEF CatchUpInv
    <2>4. budget'.outages <= MaxOutages
          /\ (budget'.outages = MaxOutages => budget.outages = MaxOutages)
          /\ (budget'.outages = MaxOutages => budget'.outages = budget.outages)
      BY <1>1, <2>2, <2>3
    <2>5. QED
      BY <2>1, <2>2, <2>4 DEF CatchUpInv, AtLeast
  <1>7. CASE (\E r \in Replicas : KillSubscriber(r)) \/ (\E p \in Tasks : KillTask(p))
    <2>1. /\ budget'.outages = budget.outages /\ budget'.crashes = budget.crashes - 1
          /\ UNCHANGED << now, redisUp, gen, highest >>
      BY <1>1, <1>7 DEF KillSubscriber, KillTask, catalogVars, genVars
    <2>2. budget'.crashes < MaxCrashes
      BY <1>1, <2>1, BoundsAssumption DEF CatchUpInv
    <2>3. blobs' = blobs /\ \A q \in Tasks : task'[q] \in {task[q], IdleTask}
      BY <1>1, <1>7 DEF KillSubscriber, KillTask, PutLeft, files
    <2>4. AtLeast(now, IdleTask.ver)
      BY <1>1 DEF IdleTask, NoVersion, AtLeast, Version
    <2>5. /\ (\A q \in Tasks : AtLeast(now, task[q].ver))'
          /\ (\A b \in blobs : AtLeast(now, b.ver))'
      BY <2>1, <2>3, <2>4 DEF CatchUpInv, AtLeast
    <2>6. /\ budget'.outages <= MaxOutages /\ budget'.crashes <= MaxCrashes
          /\ budget'.outages = MaxOutages => redisUp' /\ gen' = highest'
          /\ budget'.crashes # MaxCrashes
      BY <1>1, <2>1, <2>2, BoundsAssumption DEF CatchUpInv
    <2>7. QED
      BY <2>5, <2>6 DEF CatchUpInv
  <1>8. CASE RedisRecovers
    <2>1. /\ UNCHANGED << now, subscribed, blobs, task, budget >>
          /\ ~redisUp /\ redisUp' = TRUE
      BY <1>8 DEF RedisRecovers, catalogVars, files
    <2>2. budget.outages # MaxOutages
      BY <2>1 DEF CatchUpInv
    <2>3. QED
      BY <2>1, <2>2 DEF CatchUpInv, AtLeast
  <1>9. QED
    BY <1>2, <1>3, <1>4, <1>5, <1>6, <1>7, <1>8

\* The safety half of "edit a layer in catalog, its tiles drop": without outages
\* and crashes, and unless a seed was running, the tiles that can be reached show
\* the last change as soon as one subscriber has handled every event. What is
\* left to TLC is that one will (EditsReachTiles).
THEOREM HandledChangesAreShown == Spec => []HandledChangesShow
  <1>1. Init => CatchUpInv
    <2> SUFFICES ASSUME Init PROVE CatchUpInv
      OBVIOUS
    <2>1. \A p \in Tasks : task[p].ver = NoVersion
      BY DEF Init, IdleTask
    <2>2. now = NoVersion /\ floor[gen] = NoVersion /\ blobs = {}
      BY DEF Init
    <2>3. QED
      BY <2>1, <2>2, BoundsAssumption DEF Init, CatchUpInv, AtLeast, NoVersion
  <1>2. TypeOK /\ CatchUpInv /\ [Next]_vars => CatchUpInv'
    <2> SUFFICES ASSUME TypeOK, CatchUpInv, [Next]_vars PROVE CatchUpInv'
      OBVIOUS
    <2>1. CASE \/ \E p \in Servers : ServeKey(p) \/ ServeStep(p)
               \/ \E p \in Seeders : SeedStart(p) \/ SeedStep(p)
      BY <2>1, TaskKeepsCatchUp DEF Tasks
    <2>2. CASE UNCHANGED vars
      BY <2>2 DEF vars, CatchUpInv, AtLeast
    <2>3. CASE \/ Truncate \/ CatalogCommit \/ CatalogPublish \/ EditRows
               \/ \E r \in Replicas :
                     HandleEvent(r) \/ KillSubscriber(r) \/ Subscribe(r)
               \/ RedisFails \/ RedisRecovers
               \/ \E p \in Tasks : KillTask(p)
      BY <2>3, OtherKeepsCatchUp
    <2>4. QED
      BY <2>1, <2>2, <2>3 DEF Next
  <1>3. FreshInv /\ CatchUpInv => HandledChangesShow
    <2> SUFFICES ASSUME FreshInv, CatchUpInv,
                        budget.outages = MaxOutages, budget.crashes = MaxCrashes,
                        toPublish = 0, NEW r \in Replicas, inbox[r] = 0,
                        gen \notin tainted, NEW b \in blobs, b.gen = gen
                 PROVE  b.ver.conf = now.conf
      BY DEF HandledChangesShow, ReachableBlobsCurrent
    <2>1. /\ now \in Version /\ b.ver \in Version
          /\ gen \in Nat /\ floor[gen] \in Version
      BY DEF FreshInv, TypeOK, Blob
    <2>2. b.ver.conf >= floor[gen].conf
      BY DEF FreshInv, StaleOnlyIfTainted, AtLeast
    <2>3. now.conf <= floor[gen].conf
      BY <2>1 DEF CatchUpInv, Version
    <2>4. now.conf >= b.ver.conf
      BY DEF CatchUpInv, AtLeast
    <2>5. QED
      BY <2>1, <2>2, <2>3, <2>4 DEF Version
  <1>4. FreshInv => TypeOK
    BY DEF FreshInv
  <1>5. QED
    BY <1>1, <1>2, <1>3, <1>4, FreshInvariant, PTL DEF Spec
=============================================================================
