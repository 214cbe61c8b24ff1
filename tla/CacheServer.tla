----------------------------- MODULE CacheServer -----------------------------
(***************************************************************************)
(* One holder process of Riverpass, its disk and its files table:          *)
(*   - the HTTP handlers (oss_cache_main.go: HttpRead, TryReadFromCache),  *)
(*   - the batch writer and the garbage collector of CacheManager          *)
(*     (cache_manager.go),                                                 *)
(*   - PhyBH and its hot-swap loop (physical_blob_handler.go),             *)
(*   - restarts of the process (PhyBH.New) after it dies or is killed.     *)
(*                                                                         *)
(* A step is one statement on the table, one critical section, or one file *)
(* operation; between two of them every other actor may run.               *)
(*                                                                         *)
(* Data is abstract: a blob is <<file, version of the origin's content>>,  *)
(* every blob has size 1 and a triplet without blobs has size 0, so that   *)
(* totalBytes, CurOff and the two thresholds count blobs.                  *)
(***************************************************************************)
EXTENDS FilesTable, TripletLru, Sequences

CONSTANTS
    LargeFiles,   \* files whose payload is above K_triplet_large_threshold
    Readers,      \* concurrent GET /getFile requests
    BatchSize,    \* F_num_batch_write
    CloseAt,      \* K_triplet_closing_threshold, in blobs
    Capacity,     \* F_CACHE_MAX_SIZE, in blobs
    MaxDrift,     \* BOUND: totalBytes is followed down to -MaxDrift, a binary
                  \* file up to Capacity + MaxDrift blobs
    Faults,       \* the failures explored: "db" a statement fails, "origin" the
                  \* origin cannot be reached, "crash" the process is killed,
                  \* "stall" LoopHotSwap is suspended for F_cache_purge_waiting_ms
    NoFile, NoReader

Workers == 1..BatchSize

ASSUME ServerAssumption ==
    /\ IsFiniteSet(Files)
    /\ LargeFiles \subseteq Files
    /\ BatchSize \in Nat \ {0}
    /\ CloseAt \in Nat /\ Capacity \in Nat /\ MaxDrift \in Nat /\ MaxVersion \in Nat
    /\ Faults \subseteq {"db", "origin", "crash", "stall"}
    /\ NoFile \notin Files /\ NoReader \notin Readers

VARIABLES
    \* outside the process
    origin,   \* [Files -> Versions]: what the object store serves now
    table,    \* the oss_files table
    files,    \* ids of the triplets whose idx, mf and bin files are on disk
    mode,     \* state byte at the head of a triplet's idx file
    index,    \* blobs a triplet's idx file lists, and its RefMap in the process
    bin,      \* blobs in a triplet's binary file
    \* the process
    up,       \* the process serves
    mtx,      \* the reader that holds OssHolderServer.mtx
    rd,       \* a request in TryReadFromCache
    wQueue,   \* CacheManager.wQueue; writeItemMap is the set of its elements
    job,      \* dowloadAndWriteCache in each goroutine of the current batch
    open,     \* keys of PhyBH.OpenTplt.dict
    closed,   \* PhyBH.ClosedTplt
    large,    \* PhyBH.LargeObjTplt
    total,    \* PhyBH.totalBytes
    swap,     \* LoopHotSwap's round
    purge,    \* CacheManager.purgeItemMap
    pQueue,   \* elements of CacheManager.pQueue, which is never shortened
    sweep,    \* PurgeTriplet goroutines of the round that holds pMtx
    \* history
    doomed    \* triplets an eviction has chosen

diskVars == <<files, mode, index, bin>>
pbhVars == <<open, closed, large, total, swap>>
gcVars == <<purge, pQueue, sweep, doomed>>
vars == <<origin, table, diskVars, up, mtx, rd, wQueue, job, pbhVars, gcVars>>

-----------------------------------------------------------------------------
Blobs == Files \X Versions

IdleReader == [pc |-> "idle", file |-> NoFile, etag |-> 0,
               tri |-> NoTriplet, ver |-> 0, win |-> "none"]
IdleJob == [pc |-> "idle", file |-> NoFile, ver |-> 0, tri |-> NoTriplet]
IdleSwap == [pc |-> "scan", fresh |-> {}, old |-> {}, cur |-> NoTriplet]

ReaderPcs == {"idle", "list", "create", "enqueue", "stale", "check", "get", "read"}
JobPcs == {"idle", "fetch", "admit", "pick", "resolve", "bin", "idx", "seal",
           "failed", "full", "evict"}

(* A request and a job at work are about a file. *)
Requests == {q \in [pc : ReaderPcs, file : Files \cup {NoFile}, etag : Versions,
                    tri : TripletIds, ver : Versions, win : {"none", "open", "last", "over"}] :
               q.pc # "idle" => q.file \in Files}
Jobs == {j \in [pc : JobPcs, file : Files \cup {NoFile}, ver : Versions, tri : TripletIds] :
           j.pc # "idle" => j.file \in Files}
Swaps == [pc : {"scan", "publish", "close", "retire"},
          fresh : SUBSET Triplets, old : SUBSET Triplets, cur : TripletIds]

TypeOK ==
    /\ origin \in [Files -> Versions]
    /\ table \in FilesTables
    /\ files \subseteq Triplets
    /\ mode \in [Triplets -> {"open", "closed", "large"}]
    /\ index \in [Triplets -> SUBSET Blobs]
    /\ bin \in [Triplets -> Nat]
    /\ up \in BOOLEAN
    /\ mtx \in Readers \cup {NoReader}
    /\ rd \in [Readers -> Requests]
    /\ wQueue \in Seq(Files)
    /\ job \in [Workers -> Jobs]
    /\ open \subseteq Triplets
    /\ closed \in LruCache
    /\ large \in LruCache
    /\ total \in Int
    /\ swap \in Swaps
    /\ purge \in [TripletIds -> {"no", "waiting", "ripe"}]
    /\ pQueue \subseteq TripletIds
    /\ sweep \subseteq TripletIds
    /\ doomed \subseteq TripletIds

-----------------------------------------------------------------------------
(* Triplet files. *)

(* A random uuid: an id nothing refers to any more stands for a new one. *)
Fresh(t) ==
    /\ t \in Triplets \ (files \cup open \cup sweep \cup swap.fresh \cup swap.old)
    /\ LruForgot(closed, t) /\ LruForgot(large, t)
    /\ \A f \in Files : t \notin {table[f].owner, table[f].tri}
    /\ \A w \in Workers : job[w].tri # t
    /\ \A r \in Readers : rd[r].tri # t
    /\ purge[t] = "no"

(* Triplet.New for ids without files: IndexHeader.create and MFHeader.create
   write theirs; the binary file comes with the first blob. *)
CreateTriplets(ids, m) ==
    /\ files' = files \cup ids
    /\ mode' = [t \in Triplets |-> IF t \in ids THEN m ELSE mode[t]]
    /\ index' = [t \in Triplets |-> IF t \in ids THEN {} ELSE index[t]]
    /\ bin' = [t \in Triplets |-> IF t \in ids THEN 0 ELSE bin[t]]
    /\ pQueue' = pQueue \ ids
    /\ doomed' = doomed \ ids

(* DeleteTripletFilesOnDisk: bin, idx and mf; the rest of a triplet's state
   means nothing without them, but for the RefMap of one still in OpenTplt. *)
DeleteTripletFilesOnDisk(ids) ==
    /\ files' = files \ ids
    /\ mode' = [t \in Triplets |-> IF t \in ids THEN "open" ELSE mode[t]]
    /\ index' = [t \in Triplets |-> IF t \in ids \ open THEN {} ELSE index[t]]
    /\ bin' = [t \in Triplets |-> IF t \in ids THEN 0 ELSE bin[t]]

(* Bytes on disk of the triplets in ids. *)
SizeOnDisk(ids) == Cardinality(UNION {{t} \X (1..bin[t]) : t \in ids})

-----------------------------------------------------------------------------
(* The process dies: a panic outside an HTTP handler, a Fatal, or a kill. *)
Die ==
    /\ up' = FALSE
    /\ mtx' = NoReader
    /\ rd' = [r \in Readers |-> IdleReader]
    /\ wQueue' = <<>>
    /\ job' = [w \in Workers |-> IdleJob]
    /\ open' = {} /\ closed' = LruNew /\ large' = LruNew /\ total' = 0
    /\ swap' = IdleSwap
    /\ purge' = [t \in TripletIds |-> "no"] /\ pQueue' = {} /\ sweep' = {}
    /\ UNCHANGED <<origin, table, diskVars, doomed>>

Kill == "crash" \in Faults /\ up /\ Die

(* IndexHeader.load takes the state byte of each idx file that is there; the
   others are created, as open. *)
StateLoaded(ids) == [t \in Triplets |-> IF t \in ids THEN mode[t] ELSE "open"]

(* The orders in which the ids of a set may be listed. *)
Orders(ids) ==
    {s \in [1..Cardinality(ids) -> ids] : \A i, j \in DOMAIN s : s[i] = s[j] => i = j}

(* PhyBH.New and CacheManager.New: pending rows are deleted, triplet files no
   row owns are deleted, every owner is loaded by its state byte (created as
   an open triplet when its files are gone), and one open triplet is ensured.
   The orphans' bin, idx and mf go; a binary file without its idx file is not
   found by the scan of idx names and stays. *)
Restart ==
    /\ ~up
    /\ LET tbl == DeleteAllPendingFileInDB(table)
           owners == ListTripleIdOfAllFiles(tbl) \cap Triplets
           kept == owners \cap files
           Loaded(m) == {t \in owners : StateLoaded(kept)[t] = m}
       IN  \E new \in IF Loaded("open") = {} THEN {{t} : t \in Triplets \ owners} ELSE {{}} :
           \E c \in Orders(Loaded("closed")), l \in Orders(Loaded("large")) :
             /\ up' = TRUE
             /\ table' = tbl
             /\ files' = owners \cup new
             /\ mode' = StateLoaded(kept)
             /\ index' = [t \in Triplets |-> IF t \in kept THEN index[t] ELSE {}]
             /\ bin' = [t \in Triplets |-> IF t \in (files \ owners) \cup new THEN 0 ELSE bin[t]]
             /\ open' = Loaded("open") \cup new
             /\ closed' = LruLoaded(c, Cardinality(Loaded("closed")))
             /\ large' = LruLoaded(l, Cardinality(Loaded("large")))
             /\ total' = SizeOnDisk(kept)
             /\ doomed' = doomed \cap owners
    /\ UNCHANGED <<origin, mtx, rd, wQueue, job, swap, purge, pQueue, sweep>>

-----------------------------------------------------------------------------
(* A GET request. *)

Reader(r, pc) == up /\ rd[r].pc = pc

Goto(r, pc) == rd' = [rd EXCEPT ![r].pc = pc]

Answer(r) == rd' = [rd EXCEPT ![r] = IdleReader]

OnlyReaders == UNCHANGED <<origin, table, diskVars, up, wQueue, job, pbhVars, gcVars>>

(* Mutated: the url parameter is not kept. *)
HttpReadUnnamed(r, f) ==
    /\ Reader(r, "idle")
    /\ rd' = [rd EXCEPT ![r] = [IdleReader EXCEPT !.pc = "list", !.etag = origin[f]]]
    /\ UNCHANGED mtx /\ OnlyReaders

(* HttpRead asks the origin for the current etag first. *)
HttpRead(r, f) ==
    /\ Reader(r, "idle")
    /\ rd' = [rd EXCEPT ![r] = [IdleReader EXCEPT !.pc = "list", !.file = f,
                                                  !.etag = origin[f]]]
    /\ UNCHANGED mtx /\ OnlyReaders

(* TryReadFromCache takes mtx and lists the row. When the query fails it
   returns at once, and mtx stays locked. *)
ListFails(r) ==
    /\ "db" \in Faults
    /\ Reader(r, "list") /\ mtx = NoReader
    /\ mtx' = r
    /\ Answer(r) /\ OnlyReaders

(* Mutated: the row is looked up without holding mtx afterwards. *)
ListMissUnlocked(r) ==
    /\ Reader(r, "list") /\ mtx = NoReader
    /\ table[rd[r].file].state = "absent"
    /\ Goto(r, "create") /\ UNCHANGED mtx /\ OnlyReaders

ListMiss(r) ==
    /\ Reader(r, "list") /\ mtx = NoReader
    /\ table[rd[r].file].state = "absent"
    /\ mtx' = r
    /\ Goto(r, "create") /\ OnlyReaders

ListPending(r) ==
    /\ Reader(r, "list") /\ mtx = NoReader
    /\ table[rd[r].file].state = "pending"
    /\ Answer(r) /\ UNCHANGED mtx /\ OnlyReaders

(* Mutated: any row that exists is read, whatever its state. *)
ListReadyUnchecked(r) ==
    /\ Reader(r, "list") /\ mtx = NoReader
    /\ LET row == table[rd[r].file] IN
         /\ row.state # "absent"
         /\ rd' = [rd EXCEPT ![r].tri = row.tri, ![r].ver = row.ver,
                             ![r].pc = IF row.etag # rd[r].etag THEN "stale" ELSE "check"]
    /\ UNCHANGED mtx /\ OnlyReaders

(* A READY row is remembered: its token is what the request reads or, under
   another etag, what it writes back. *)
ListReady(r) ==
    /\ Reader(r, "list") /\ mtx = NoReader
    /\ LET row == table[rd[r].file] IN
         /\ row.state = "ready"
         /\ rd' = [rd EXCEPT ![r].tri = row.tri, ![r].ver = row.ver,
                             ![r].pc = IF row.etag # rd[r].etag THEN "stale" ELSE "check"]
    /\ UNCHANGED mtx /\ OnlyReaders

CreateFileForCache(r) ==
    /\ Reader(r, "create")
    /\ table' = CreateFileWithFidInDB(table, rd[r].file, rd[r].etag)
    /\ Goto(r, "enqueue")
    /\ UNCHANGED <<origin, diskVars, up, mtx, wQueue, job, pbhVars, gcVars>>

(* The error return under mtx. *)
CreateFails(r) ==
    /\ "db" \in Faults
    /\ Reader(r, "create")
    /\ Answer(r) /\ UNCHANGED mtx /\ OnlyReaders

Queued == {wQueue[i] : i \in DOMAIN wQueue}

(* Mutated: the Unlock that belongs after a miss is missing. *)
EnqueueWriteReqLocked(r) ==
    /\ Reader(r, "enqueue")
    /\ wQueue' = IF rd[r].file \in Queued THEN wQueue ELSE Append(wQueue, rd[r].file)
    /\ UNCHANGED mtx
    /\ Answer(r)
    /\ UNCHANGED <<origin, table, diskVars, up, job, pbhVars, gcVars>>

(* EnqueueWriteReq and, after a miss, the Unlock that follows it. *)
EnqueueWriteReq(r) ==
    /\ Reader(r, "enqueue")
    /\ wQueue' = IF rd[r].file \in Queued THEN wQueue ELSE Append(wQueue, rd[r].file)
    /\ mtx' = IF mtx = r THEN NoReader ELSE mtx
    /\ Answer(r)
    /\ UNCHANGED <<origin, table, diskVars, up, job, pbhVars, gcVars>>

(* Mutated: the row takes the request's etag and stays READY. *)
MarkStaleKeepsReady(r) ==
    /\ Reader(r, "stale")
    /\ table' = UpdateFilemetaAndStateInDB(table, rd[r].file, rd[r], "ready")
    /\ Goto(r, "enqueue")
    /\ UNCHANGED <<origin, diskVars, up, mtx, wQueue, job, pbhVars, gcVars>>

(* The row goes back to PENDING with the request's etag. *)
MarkStale(r) ==
    /\ Reader(r, "stale")
    /\ table' = UpdateFilemetaAndStateInDB(table, rd[r].file, rd[r], "pending")
    /\ Goto(r, "enqueue")
    /\ UNCHANGED <<origin, diskVars, up, mtx, wQueue, job, pbhVars, gcVars>>

(* The result of the UPDATE is ignored. *)
MarkStaleFails(r) ==
    /\ "db" \in Faults
    /\ Reader(r, "stale")
    /\ Goto(r, "enqueue") /\ UNCHANGED mtx /\ OnlyReaders

(* Less than F_cache_purge_waiting_ms + 1 since before the row was listed:
   milliseconds are cut off, and the test is "> 500". *)
CheckWindow(r) ==
    /\ Reader(r, "check") /\ rd[r].win # "over"
    /\ rd' = [rd EXCEPT ![r].pc = "get", ![r].win = "none"]
    /\ UNCHANGED mtx /\ OnlyReaders

CheckLate(r) ==
    /\ Reader(r, "check")
    /\ Answer(r) /\ UNCHANGED mtx /\ OnlyReaders

(* PhyBH.Get: the prefix of the token says which caches to look in. *)
Host(f, t) == IF f \in LargeFiles
              THEN IF t \in large.dict THEN "large" ELSE "none"
              ELSE IF t \in open THEN "open"
              ELSE IF t \in closed.dict THEN "closed" ELSE "none"

Get(r) ==
    /\ Reader(r, "get")
    /\ LET f == rd[r].file
           t == rd[r].tri
           host == Host(f, t)
       IN  /\ closed' = IF host = "closed" THEN LruGet(closed, t) ELSE closed
           /\ large' = IF host = "large" THEN LruGet(large, t) ELSE large
           /\ IF host # "none" /\ <<f, rd[r].ver>> \in index[t]
              THEN Goto(r, "read")
              ELSE Answer(r)
    /\ UNCHANGED <<origin, table, diskVars, up, mtx, wQueue, job, open, total, swap, gcVars>>

(* BinHeader.Get opens the binary file by name. *)
ReadBlob(r) ==
    /\ Reader(r, "read") /\ rd[r].tri \in files
    /\ Answer(r) /\ UNCHANGED mtx /\ OnlyReaders

ReadBlobFatal(r) == Reader(r, "read") /\ rd[r].tri \notin files /\ Die

-----------------------------------------------------------------------------
(* The batch writer. *)

Worker(w, pc) == up /\ job[w].pc = pc

GotoJob(w, pc) == job' = [job EXCEPT ![w].pc = pc]

EndJob(w) == job' = [job EXCEPT ![w] = IdleJob]

OnlyJobs == UNCHANGED <<origin, table, diskVars, up, mtx, rd, wQueue, pbhVars, gcVars>>

Smaller(a, b) == IF a < b THEN a ELSE b

(* Mutated: the next name is taken as soon as one goroutine is free. *)
LoopBatchWriteUnwaited ==
    /\ up /\ wQueue # <<>>
    /\ \E w \in Workers :
         /\ job[w].pc = "idle"
         /\ job' = [job EXCEPT ![w].pc = "fetch", ![w].file = wQueue[1]]
    /\ wQueue' = SubSeq(wQueue, 2, Len(wQueue))
    /\ UNCHANGED <<origin, table, diskVars, up, mtx, rd, pbhVars, gcVars>>

(* loopBatchWrite waits for the whole batch before it takes the next one. *)
LoopBatchWrite ==
    /\ up /\ wQueue # <<>>
    /\ \A w \in Workers : job[w].pc = "idle"
    /\ LET numToFetch == Smaller(BatchSize, Len(wQueue)) IN
         /\ job' = [w \in Workers |->
                      IF w <= numToFetch
                      THEN [IdleJob EXCEPT !.pc = "fetch", !.file = wQueue[w]]
                      ELSE IdleJob]
         /\ wQueue' = SubSeq(wQueue, numToFetch + 1, Len(wQueue))
    /\ UNCHANGED <<origin, table, diskVars, up, mtx, rd, pbhVars, gcVars>>

(* CheckUrl and DownLoad. *)
DownLoad(w) ==
    /\ Worker(w, "fetch")
    /\ job' = [job EXCEPT ![w].pc = "admit", ![w].ver = origin[job[w].file]]
    /\ OnlyJobs

(* The url is gone or unreachable, or the object is as large as the cache or
   has no body: return, and nothing else. It takes no failure, only such an
   object. *)
FetchFails(w) ==
    /\ Worker(w, "fetch")
    /\ EndJob(w) /\ OnlyJobs

(* http.Get in DownLoad panics on an error, in a goroutine nobody recovers. *)
DownLoadPanics(w) == "origin" \in Faults /\ Worker(w, "fetch") /\ Die

(* PhyBH.Put reserves the space under PhyBH.mtx. *)
Admit(w) ==
    /\ Worker(w, "admit")
    /\ 1 <= Capacity - total /\ total >= -MaxDrift
    /\ total' = total + 1
    /\ GotoJob(w, "pick")
    /\ UNCHANGED <<origin, table, diskVars, up, mtx, rd, wQueue, open, closed, large, swap, gcVars>>

(* Mutated: a full cache is tried again, and nobody evicts. *)
CacheFullRetries(w) ==
    /\ Worker(w, "admit")
    /\ 1 > Capacity - total
    /\ UNCHANGED vars

(* Mutated: the "cache full" return forgets to roll the row back. *)
CacheFullKeepsRow(w) ==
    /\ Worker(w, "admit")
    /\ 1 > Capacity - total
    /\ GotoJob(w, "evict") /\ OnlyJobs

CacheFull(w) ==
    /\ Worker(w, "admit")
    /\ 1 > Capacity - total
    /\ GotoJob(w, "full") /\ OnlyJobs

(* A large object gets a triplet of its own, in the cache before its blob. *)
PutLarge(w) ==
    /\ Worker(w, "pick") /\ job[w].file \in LargeFiles
    /\ \E t \in Triplets :
         /\ Fresh(t)
         /\ CreateTriplets({t}, "large")
         /\ large' = LruPut(large, t)
         /\ job' = [job EXCEPT ![w].pc = "bin", ![w].tri = t]
    /\ UNCHANGED <<origin, table, up, mtx, rd, wQueue, open, closed, total, swap, purge, sweep>>

(* dict.Range stops at the first key it visits, whichever that is. *)
PickOpen(w) ==
    /\ Worker(w, "pick") /\ job[w].file \notin LargeFiles
    /\ \E t \in open : job' = [job EXCEPT ![w].pc = "resolve", ![w].tri = t]
    /\ OnlyJobs

(* OpenTplt.Get(pick) *)
ResolvePick(w) ==
    /\ Worker(w, "resolve") /\ job[w].tri \in open
    /\ GotoJob(w, "bin") /\ OnlyJobs

(* The pick left the open triplets meanwhile: a nil triplet is used. *)
ResolvePanics(w) == Worker(w, "resolve") /\ job[w].tri \notin open /\ Die

(* BinHeader.Put appends, and creates the file when there is none. *)
PutBin(w) ==
    /\ Worker(w, "bin")
    /\ job[w].tri \in Triplets => bin[job[w].tri] < Capacity + MaxDrift
    /\ bin' = [bin EXCEPT ![job[w].tri] = @ + 1]
    /\ GotoJob(w, "idx")
    /\ UNCHANGED <<origin, table, files, mode, index, up, mtx, rd, wQueue, pbhVars, gcVars>>

(* IndexHeader.Put, whose in-memory state no Close ever reaches, MFHeader.Put,
   and the totals: the blob's size replaces the reservation. *)
PutIdx(w) ==
    /\ Worker(w, "idx") /\ job[w].tri \in files
    /\ index' = [index EXCEPT ![job[w].tri] = @ \cup {<<job[w].file, job[w].ver>>}]
    /\ GotoJob(w, "seal")
    /\ UNCHANGED <<origin, table, files, mode, bin, up, mtx, rd, wQueue, pbhVars, gcVars>>

(* The idx file was purged: flush cannot open it. The reservation goes back. *)
PutIdxFails(w) ==
    /\ Worker(w, "idx") /\ job[w].tri \notin files
    /\ total' = total - 1
    /\ GotoJob(w, "failed")
    /\ UNCHANGED <<origin, table, diskVars, up, mtx, rd, wQueue, open, closed, large, swap, gcVars>>

SealFileAtCache(w) ==
    /\ Worker(w, "seal") /\ CanCommit(table, job[w].file)
    /\ table' = CommitCacheFileInDB(table, job[w].file, job[w].tri, job[w].ver)
    /\ EndJob(w)
    /\ UNCHANGED <<origin, diskVars, up, mtx, rd, wQueue, pbhVars, gcVars>>

(* The error of the commit is logged. *)
SealFails(w) ==
    /\ Worker(w, "seal")
    /\ "db" \in Faults \/ ~CanCommit(table, job[w].file)
    /\ EndJob(w) /\ OnlyJobs

(* Where a job goes once its row was, or was not, rolled back. *)
AfterRollback(w) == IF job[w].pc = "full" THEN GotoJob(w, "evict") ELSE EndJob(w)

RollbackFileInDB(w) ==
    /\ Worker(w, "failed") \/ Worker(w, "full")
    /\ table' = DeletePendingFileWithFIdInDB(table, job[w].file)
    /\ AfterRollback(w)
    /\ UNCHANGED <<origin, diskVars, up, mtx, rd, wQueue, pbhVars, gcVars>>

RollbackFails(w) ==
    /\ "db" \in Faults
    /\ Worker(w, "failed") \/ Worker(w, "full")
    /\ AfterRollback(w) /\ OnlyJobs

-----------------------------------------------------------------------------
(* Eviction and the garbage collector. *)

(* GetTailNameForEvict: small triplets first. *)
NothingToEvict == closed.size <= 0 /\ large.size <= 0
EvictSmall == closed.size > 0
Victim == IF EvictSmall THEN LruTail(closed) ELSE LruTail(large)
DropVictim ==
    /\ closed' = IF EvictSmall THEN LruDropTail(closed) ELSE closed
    /\ large' = IF EvictSmall THEN large ELSE LruDropTail(large)

(* Mutated: the id is timed but never queued. *)
EnqueueDeletionReqUnqueued(w) ==
    /\ Worker(w, "evict") /\ sweep = {} /\ ~NothingToEvict
    /\ DropVictim
    /\ table' = DeleteFileWithTripleIdInDB(table, Victim)
    /\ purge' = [purge EXCEPT ![Victim] = "waiting"]
    /\ doomed' = doomed \cup {Victim}
    /\ EndJob(w)
    /\ UNCHANGED <<origin, diskVars, up, mtx, rd, wQueue, open, total, swap, pQueue, sweep>>

(* EnqueueDeletionReq under pMtx: the tail leaves the list, the rows it owns
   leave the table, and the purge clock starts. A request that listed one of
   those rows before has its window running. *)
EnqueueDeletionReq(w) ==
    /\ Worker(w, "evict") /\ sweep = {} /\ ~NothingToEvict
    /\ DropVictim
    /\ table' = DeleteFileWithTripleIdInDB(table, Victim)
    /\ purge' = [purge EXCEPT ![Victim] = "waiting"]
    /\ pQueue' = pQueue \cup {Victim}
    /\ doomed' = doomed \cup {Victim}
    /\ rd' = [r \in Readers |->
                IF rd[r].pc = "check" /\ rd[r].tri = Victim /\ Victim \notin doomed
                THEN [rd[r] EXCEPT !.win = "open"] ELSE rd[r]]
    /\ EndJob(w)
    /\ UNCHANGED <<origin, diskVars, up, mtx, wQueue, open, total, swap, sweep>>

EvictNothing(w) ==
    /\ Worker(w, "evict") /\ sweep = {} /\ NothingToEvict
    /\ EndJob(w) /\ OnlyJobs

(* The DELETE fails: the tail has left the list already, and is not queued. *)
EvictFails(w) ==
    /\ "db" \in Faults
    /\ Worker(w, "evict") /\ sweep = {} /\ ~NothingToEvict
    /\ DropVictim
    /\ EndJob(w)
    /\ UNCHANGED <<origin, table, diskVars, up, mtx, rd, wQueue, open, total, swap, gcVars>>

InWindow(r, t) == rd[r].tri = t /\ rd[r].win = "open"

(* F_cache_purge_waiting_ms have passed since the eviction of t: the collector
   tests "< 500". The requests that took their time less than a millisecond
   before the eviction took its own still pass CheckWindow, until 501 ms; for
   the others the window is over. Between moving a triplet to ClosedTplt and
   dropping it from OpenTplt the swapper writes one byte: it takes that long
   only when it is suspended. *)
PurgeWaitOver(t) ==
    /\ purge[t] = "waiting"
    /\ swap.pc = "retire" => "stall" \in Faults
    /\ purge' = [purge EXCEPT ![t] = "ripe"]
    /\ \E late \in SUBSET {r \in Readers : InWindow(r, t)} :
         rd' = [r \in Readers |->
                  IF InWindow(r, t)
                  THEN [rd[r] EXCEPT !.win = IF r \in late THEN "last" ELSE "over"]
                  ELSE rd[r]]
    /\ UNCHANGED <<origin, table, diskVars, up, mtx, wQueue, job, pbhVars, pQueue, sweep, doomed>>

(* Mutated: the purge does not wait for the requests in their window. *)
LoopGarbageCollectionAtOnce ==
    /\ up /\ sweep = {}
    /\ \E t \in TripletIds : purge[t] # "no"
    /\ sweep' = pQueue
    /\ purge' = [t \in TripletIds |-> "no"]
    /\ UNCHANGED <<origin, table, diskVars, up, mtx, rd, wQueue, job, pbhVars, pQueue, doomed>>

(* A round over pQueue, which starts only when purgeItemMap is not empty. An
   id that left the map has the zero time there: it is purged again. *)
LoopGarbageCollection ==
    /\ up /\ sweep = {}
    /\ \E t \in TripletIds : purge[t] # "no"
    /\ LET due == {t \in pQueue : purge[t] # "waiting"} IN
         /\ due # {}
         /\ sweep' = due
         /\ purge' = [t \in TripletIds |-> IF t \in due THEN "no" ELSE purge[t]]
    /\ UNCHANGED <<origin, table, diskVars, up, mtx, rd, wQueue, job, pbhVars, pQueue, doomed>>

PurgeTriplet(t) ==
    /\ t \in sweep
    /\ closed' = LruDelete(closed, t)
    /\ large' = LruDelete(large, t)
    /\ DeleteTripletFilesOnDisk({t})
    /\ total' = total - SizeOnDisk({t} \cap Triplets)
    /\ sweep' = sweep \ {t}
    /\ UNCHANGED <<origin, table, up, mtx, rd, wQueue, job, open, swap,
                   purge, pQueue, doomed>>

-----------------------------------------------------------------------------
(* LoopHotSwap. *)

SwapAt(pc) == up /\ swap.pc = pc

(* Mutated: the files of a replacement are not there yet when it is used. *)
ScanOpenTripletsUnmade ==
    /\ SwapAt("scan")
    /\ LET full == {t \in open : bin[t] > CloseAt} IN
         /\ full # {}
         /\ \E ids \in SUBSET Triplets :
              /\ Cardinality(ids) = Cardinality(full)
              /\ \A t \in ids : Fresh(t)
              /\ swap' = [pc |-> "publish", fresh |-> ids, old |-> full, cur |-> NoTriplet]
    /\ UNCHANGED <<origin, table, diskVars, up, mtx, rd, wQueue, job, open, closed, large, total,
                   gcVars>>

(* Open triplets above the threshold get a replacement each. *)
ScanOpenTriplets ==
    /\ SwapAt("scan")
    /\ LET full == {t \in open : bin[t] > CloseAt} IN
         /\ full # {}
         /\ \E ids \in SUBSET Triplets :
              /\ Cardinality(ids) = Cardinality(full)
              /\ \A t \in ids : Fresh(t)
              /\ CreateTriplets(ids, "open")
              /\ swap' = [pc |-> "publish", fresh |-> ids, old |-> full, cur |-> NoTriplet]
    /\ UNCHANGED <<origin, table, up, mtx, rd, wQueue, job, open, closed, large, total,
                   purge, sweep>>

(* Mutated: the replacements are opened and never put into OpenTplt. *)
PublishNothing ==
    /\ SwapAt("publish")
    /\ swap' = [swap EXCEPT !.pc = "close", !.fresh = {}]
    /\ UNCHANGED <<origin, table, diskVars, up, mtx, rd, wQueue, job, open, closed, large, total,
                   gcVars>>

PublishTriplets ==
    /\ SwapAt("publish")
    /\ open' = open \cup swap.fresh
    /\ swap' = [swap EXCEPT !.pc = "close", !.fresh = {}]
    /\ UNCHANGED <<origin, table, diskVars, up, mtx, rd, wQueue, job, closed, large, total, gcVars>>

(* Mutated: the full triplet is retired without entering ClosedTplt. *)
CloseTripletUncached(t) ==
    /\ SwapAt("close") /\ t \in swap.old
    /\ swap' = [swap EXCEPT !.pc = "retire", !.cur = t]
    /\ UNCHANGED <<origin, table, diskVars, up, mtx, rd, wQueue, job, open, closed, large, total,
                   gcVars>>

CloseTriplet(t) ==
    /\ SwapAt("close") /\ t \in swap.old
    /\ closed' = LruPut(closed, t)
    /\ swap' = [swap EXCEPT !.pc = "retire", !.cur = t]
    /\ UNCHANGED <<origin, table, diskVars, up, mtx, rd, wQueue, job, open, large, total, gcVars>>

(* IdxHeader.Close writes the state byte, then the triplet leaves OpenTplt. *)
RetireTriplet ==
    /\ SwapAt("retire") /\ swap.cur \in files
    /\ mode' = [mode EXCEPT ![swap.cur] = "closed"]
    /\ open' = open \ {swap.cur}
    /\ swap' = IF swap.old = {swap.cur}
               THEN IdleSwap
               ELSE [swap EXCEPT !.pc = "close", !.old = @ \ {swap.cur}, !.cur = NoTriplet]
    /\ UNCHANGED <<origin, table, files, index, bin, up, mtx, rd, wQueue, job, closed, large,
                   total, gcVars>>

(* The triplet is already in ClosedTplt: it may have been evicted and purged. *)
RetirePanics == SwapAt("retire") /\ swap.cur \notin files /\ Die

-----------------------------------------------------------------------------
(* The object at the origin is replaced. *)
OriginUpdate(f) ==
    /\ origin[f] < MaxVersion
    /\ origin' = [origin EXCEPT ![f] = @ + 1]
    /\ UNCHANGED <<table, diskVars, up, mtx, rd, wQueue, job, pbhVars, gcVars>>

Init ==
    /\ origin = [f \in Files |-> 0]
    /\ table = EmptyTable
    /\ files = {}
    /\ mode = [t \in Triplets |-> "open"]
    /\ index = [t \in Triplets |-> {}]
    /\ bin = [t \in Triplets |-> 0]
    /\ up = FALSE
    /\ mtx = NoReader
    /\ rd = [r \in Readers |-> IdleReader]
    /\ wQueue = <<>>
    /\ job = [w \in Workers |-> IdleJob]
    /\ open = {} /\ closed = LruNew /\ large = LruNew /\ total = 0
    /\ swap = IdleSwap
    /\ purge = [t \in TripletIds |-> "no"]
    /\ pQueue = {} /\ sweep = {} /\ doomed = {}

ReaderStep(r) ==
    \/ ListFails(r) \/ ListMiss(r) \/ ListPending(r) \/ ListReady(r)
    \/ CreateFileForCache(r) \/ CreateFails(r) \/ EnqueueWriteReq(r)
    \/ MarkStale(r) \/ MarkStaleFails(r)
    \/ CheckWindow(r) \/ CheckLate(r) \/ Get(r) \/ ReadBlob(r) \/ ReadBlobFatal(r)

WorkerStep(w) ==
    \/ DownLoad(w) \/ FetchFails(w) \/ DownLoadPanics(w)
    \/ Admit(w) \/ CacheFull(w) \/ PutLarge(w)
    \/ PickOpen(w) \/ ResolvePick(w) \/ ResolvePanics(w)
    \/ PutBin(w) \/ PutIdx(w) \/ PutIdxFails(w)
    \/ SealFileAtCache(w) \/ SealFails(w)
    \/ RollbackFileInDB(w) \/ RollbackFails(w)
    \/ EnqueueDeletionReq(w) \/ EvictNothing(w) \/ EvictFails(w)

SwapStep ==
    \/ ScanOpenTriplets \/ PublishTriplets
    \/ \E t \in Triplets : CloseTriplet(t)
    \/ RetireTriplet \/ RetirePanics

Next ==
    \/ Restart \/ Kill
    \/ \E r \in Readers, f \in Files : HttpRead(r, f)
    \/ \E r \in Readers : ReaderStep(r)
    \/ LoopBatchWrite
    \/ \E w \in Workers : WorkerStep(w)
    \/ \E t \in TripletIds : PurgeWaitOver(t)
    \/ LoopGarbageCollection
    \/ \E t \in TripletIds : PurgeTriplet(t)
    \/ SwapStep
    \/ \E f \in Files : OriginUpdate(f)

Spec == Init /\ [][Next]_vars

(* Goroutines that can run do: the two loops, each job of a batch, each purge
   and the swapper. A request waits for mtx, and sync.Mutex hands itself to a
   waiter after 1 ms (its starvation mode), hence SF. Nothing obliges a client
   to ask, the origin to change, the process to die or an operator to restart
   it. *)
Fairness ==
    /\ \A r \in Readers : SF_vars(ReaderStep(r))
    /\ WF_vars(LoopBatchWrite)
    /\ \A w \in Workers : WF_vars(WorkerStep(w))
    /\ \A t \in TripletIds : WF_vars(PurgeWaitOver(t)) /\ WF_vars(PurgeTriplet(t))
    /\ WF_vars(LoopGarbageCollection)
    /\ WF_vars(SwapStep)

FairSpec == Spec /\ Fairness

-----------------------------------------------------------------------------
(* Safety. *)

(* A file is downloaded by at most one goroutine at a time, and waits at most
   once in the queue, although a request for it may come at any moment: the
   queue is deduplicated, and loopBatchWrite waits for its batch. *)
NoDuplicateDownload ==
    /\ \A i, j \in DOMAIN wQueue : wQueue[i] = wQueue[j] => i = j
    /\ \A v, w \in Workers :
         job[v].pc # "idle" /\ job[w].pc # "idle" /\ job[v].file = job[w].file => v = w

(* OssHolderServer.mtx makes list-and-create one step among requests: the row
   a request is about to INSERT does not exist. *)
CreateFindsNoRow ==
    \A r \in Readers : Reader(r, "create") => table[rd[r].file].state = "absent"

(* Someone is going to settle a PENDING row: it is queued, being written, or
   the request that made it PENDING is about to queue it. *)
Driven(f) ==
    \/ f \in Queued
    \/ \E w \in Workers : job[w].file = f /\ job[w].pc \notin {"idle", "evict"}
    \/ \E r \in Readers : rd[r].file = f /\ rd[r].pc = "enqueue"

(* Nobody is: every request is answered "not found" until the next start. *)
Stranded(f) == up /\ table[f].state = "pending" /\ ~Driven(f)

(* A row is stranded by three exits of its own job, and by nothing else: the
   object was not fetched, or the commit or the rollback failed. Not by another
   request's requeue or etag, a full cache, an eviction, a purged triplet, an
   error return under mtx, or a start. *)
OnlyFailedExitsStrand ==
    [][\A f \in Files :
         Stranded(f)' => Stranded(f) \/ \E w \in Workers :
                                          /\ job[w].file = f
                                          /\ FetchFails(w) \/ SealFails(w) \/ RollbackFails(w)]_vars

(* A READY row is owned by the triplet its token names, so that deleting by
   owner finds it; and unless an eviction has chosen that triplet, its files
   exist and list the blob, through swaps, crashes and restarts. *)
Backed(f, v, t) == t \in doomed \/ (t \in files /\ <<f, v>> \in index[t])

ReadyRowBacked ==
    \A f \in Files : table[f].state = "ready" =>
        /\ table[f].owner = table[f].tri
        /\ Backed(f, table[f].ver, table[f].tri)

(* rand.Intn and the nil pick of PhyBH.Put need an open triplet. *)
OpenTripletAvailable == up => open # {}

(* The two 500 ms waits fit together up to a millisecond: a request that took
   its time a millisecond or more before the eviction of the triplet it listed
   does not pass its check when the files are gone. (One that took it later,
   "last", may pass and make ReadBlobFatal possible, as may one that is slow
   after its check or that listed a row committed after the eviction.) *)
WindowProtectsReader ==
    \A r \in Readers : Reader(r, "check") /\ rd[r].win = "open" => rd[r].tri \in files

(* Through swaps, evictions and restarts a READY row's triplet is in the cache
   PhyBH.Get looks in: it enters ClosedTplt before it leaves OpenTplt, and
   leaves every cache only once an eviction has chosen it. *)
ReadyRowReachable ==
    up => \A f \in Files : table[f].state = "ready" =>
            table[f].tri \in doomed \/ Host(f, table[f].tri) # "none"

(* A READY row that names an evicted triplet is one that a goroutine committed
   after the eviction: no eviction, purge, swap or restart leaves one behind. *)
LateRow(f) == table[f].state = "ready" /\ table[f].tri \in doomed

OnlyLateCommitsDangle ==
    [][\A f \in Files :
         LateRow(f)' => LateRow(f) \/ \E w \in Workers : job[w].file = f /\ SealFileAtCache(w)]_vars

(* Where the process dies by itself, an eviction or a retirement was there
   first: a request opens a binary file that is gone, or the swapper loses the
   files under its hands, only when an eviction chose the triplet, and a Put's
   pick is nil only when the swapper retired it to ClosedTplt. (The eviction
   may be older than the request's lookup, when the row was committed after it;
   OnlyLateCommitsDangle is about those.) No swap, clean-up, stale list pointer
   or repeated purge takes files that are still in use. *)
DeathsExplained ==
    /\ \A r \in Readers : Reader(r, "read") => rd[r].tri \in files \cup doomed
    /\ \A w \in Workers : Worker(w, "resolve") => job[w].tri \in open \cup closed.dict \cup doomed
    /\ SwapAt("retire") => swap.cur \in files \cup doomed

-----------------------------------------------------------------------------
(* Liveness, while the process lives. *)

(* No file is PENDING and in somebody's hands for ever: it is sealed, its row
   is rolled back, or an exit of OnlyFailedExitsStrand gives it up. *)
PendingResolves ==
    \A f \in Files :
        up /\ table[f].state = "pending" ~> ~up \/ table[f].state # "pending" \/ Stranded(f)

(* Every request is answered. *)
RequestsAnswered == \A r \in Readers : rd[r].pc # "idle" ~> rd[r].pc = "idle"

(* An evicted triplet gives its disk space back. *)
EvictedIsPurged == \A t \in Triplets : up /\ purge[t] # "no" ~> ~up \/ t \notin files

-----------------------------------------------------------------------------
(* What the documents say, and the code does not keep. *)

(* "Then purge all records in files DB, then remove the tail": no READY row
   names a triplet whose files are gone. *)
NoDanglingRow ==
    \A f \in Files : table[f].state = "ready" => table[f].tri \in files

(* "'100' means cache size 100MB": the blobs on disk fit the cache, with
   writers, evictions and purges adjusting totalBytes at the same time. *)
DiskWithinCapacity ==
    SizeOnDisk(files) <= Capacity

(* "Etag of OSS object": content older than the etag it is kept under is
   about to be fetched again. *)
StaleContentIsRefetched ==
    up => \A f \in Files :
        table[f].state = "ready" /\ table[f].ver < table[f].etag => Driven(f)
=============================================================================
