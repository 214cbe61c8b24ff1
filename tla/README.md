# Riverpass in TLA+

Riverpass is a file cache in front of an object store. A client asks a holder
process for a url; the holder answers from its disk, or answers "not found"
and fetches the object in the background so that a later request finds it.
What is on disk survives a restart: a MySQL table says which file is in which
*triplet* (an index, a manifest and a binary file that share an id), and the
triplets of the disk are loaded again at start-up.

This directory specifies the holder, model-checks it with TLC on small
instances, and proves its main safety properties with TLAPS. Source paths below
are relative to `src/`; `holder` stands for `server/holder/src`.

## 1. Inventory

| Component | State | Operations | Talks to |
|---|---|---|---|
| HTTP handler, `holder/oss_cache_main.go` | `OssHolderServer.mtx`; per request: url, etag, row listed, time of the listing | `HttpRead`, `TryReadFromCache`, `CreateFileForCache` | origin (etag), files table, `CacheManager.EnqueueWriteReq`, `PhyBH.Get` |
| Cache manager, `holder/cache_ops` | `wQueue`, `writeItemMap`, `pQueue`, `purgeItemMap`, the batch under way | `EnqueueWriteReq`, `loopBatchWrite`, `dowloadAndWriteCache`, `EnqueueDeletionReq`, `loopGarbageCollection`, seal and rollback | origin (content), `PhyBH.Put`, `PurgeTriplet`, files table |
| Physical blob handler, `holder/blob_handler/physical_blob_handler.go` | `OpenTplt`, `ClosedTplt`, `LargeObjTplt`, `totalBytes`, the swap round | `New`, `Put`, `Get`, `PurgeTriplet`, `GetTailNameForEvict`, `LoopHotSwap` | triplets, LRUs, disk |
| LRU, `holder/blob_handler/lru.go` | dictionary, doubly linked list, size | `Get`, `Put`, `GetCurTailNameForEvict`, `DeleteFromCache` | |
| Triplet files, `blob_index.go`, `blob_binary.go`, `blob_manifest.go` | state byte and entries of idx, appended blobs of bin, log of mf | `New`/`create`/`load`, `Put`, `Get`, `Close`, flush | disk |
| Files table, `holder/db_ops/files_db.go` | rows of `oss_files` | one SQL statement or transaction each | MySQL |
| Connections, `files_db.go`, `db_common.go` | counting semaphore over a handle | `GetConn`, `ReleaseConn`, `GetConnWithRetry` | MySQL |
| Chunked files, `holder/file_handler`, `blobs_db.go`, `common/range_code` | segments table, list of ranges in a file's row | `WriteAt`, `Close`, `ReadAt`, collision and coverage of ranges | `PhyBH.Put` and `Get`, both tables; called by test programs, not by the HTTP handler |
| 4K encoding, `blob_binary.go`, `persistence_format.go` | none | split and join of chunks, `GetPayloadSize` | |
| Ids, tokens, hashes, `common/util` | none | `GenerateTriId`, `GenerateBlobToken`, `GetTripletIdFromToken`, md5 | |
| Configuration, logging, client programs | | | not modelled |

What makes it hard, and what has to be true of it in spite of that:

* **Requests.** Goroutines of `net/http` run `TryReadFromCache` at once. The
  lookup of a row and its INSERT must be one step among requests
  (`CreateFindsNoRow`); an error return must not keep the mutex
  (`RequestsAnswered`); a row that says PENDING must have someone who settles it,
  since every later request trusts it and does nothing: three exits of a download
  break this, and they must be the only ones (`OnlyFailedExitsStrand`,
  `PendingResolves`). A row read under the mutex is used after the unlock: its
  blob must still be there, which two waits of 500 ms on either side of an
  eviction guarantee up to a millisecond (`WindowProtectsReader`).
* **Writes.** A batch of goroutines downloads, appends and commits, while
  requests queue more work; no file may be in two of their hands
  (`NoDuplicateDownload`). What a commit promises must be on disk and stay there
  through swaps, purges, crashes and starts (`ReadyRowBacked`), and in the cache
  that reads look in (`ReadyRowReachable`). What a goroutine, a request or the swapper
  works with is freed under its hands by evictions and retirements only (`DeathsExplained`). Content that is outdated when it is
  committed has to be fetched again (`StaleContentIsRefetched`).
* **Eviction.** The tail leaves the LRU, its rows leave the table, and half a
  second later a collector removes its files, while writers still append to it.
  What it frees must be what was charged (`DiskWithinCapacity`, and for the
  error paths of a write `AccountsBalance`), rows must not
  outlive it (`NoDanglingRow`; what does is a late commit, `OnlyLateCommitsDangle`), what is evicted must get purged
  (`EvictedIsPurged`), and must not take the wrong triplet (next point).
* **The LRU lists.** Three locks meet in them: requests share one, a `Put` and a
  purge hold it alone, and the pointers have another, which an eviction takes by itself.
  The order of use must survive what overlaps (`OrderKept`, `TailIsOldest`), no triplet may drop out of the list unnoticed (`NothingLost`), and readers must not keep a
  `Put` out for ever (`PutReturns`).
* **Hot swap.** A background loop replaces full open triplets. A write needs an
  open triplet at any moment (`OpenTripletAvailable`). `Close` works on a copy of
  the index header, so a writer that holds the triplet goes on appending to it;
  what it stores must be kept like any other blob.
* **Restarts.** The process dies from a panic outside a handler, a `Fatal` or a
  kill, at any statement and in the middle of a file operation, and the next start
  reconciles table and disk: a blob a READY row names is still readable unless it is
  empty (`ReadyReadable`), the start does not trip over files that were never finished
  (`OwnersLoadable`), and every triplet with an index is known; what stays behind
  unknown is only a binary file that a `Put` made again after a purge (`NoOrphanLeft`).
* **Chunked files.** Writers of one file commit chunks in any order; the ranges in
  the file's row and the rows of the segments table are two accounts of the same
  thing (`RangesSorted`, `SegmentsMatchRanges`), and together they must amount to a file whose bytes
  are written once and whose end is sealed without a hole (`WritesOnce`). The goroutines of a read share a
  variable without a lock (`ReadsAreWhole`, `ReadsSucceed`).
* **The whole.** A client sees a cache: an answer is content that the origin served under that
  url and that one writer stored, and the cache never falls back to content
  older than what it held (`ImplementsPersistentCache`, `ContentNeverGoesBack`, `FetchedIsNewest`).

The full list, each at its line, is `hazards` in `PROJECT.json`, with the
properties aimed at each or the reason none is.

## 2. Modules

```
                   ┌─ LruList ── MCLruList (TLC)
TripletIds ── TripletLru ──┐
     └─────── FilesTable ──┴─ CacheServer ── MCCacheServer (TLC)
                   │               └─ CacheImplements ── MCCacheImplements (TLC)
                   │                        │ INSTANCE
                   │                  PersistentCache
                   └─ TripletStore ── MCTripletStore (TLC)
ChunkedFiles ── MCChunkedFiles (TLC)
     │ INSTANCE
WriteOnceFile

TripletLruProofs, FilesTableProofs ── CacheServerProofs ── CacheImplementsProofs
       │     └─ TripletStoreProofs    PersistentCacheProofs ────┘
       └─ LruListProofs    ChunkedFilesProofs                                             (TLAPS)
```

* **TripletIds**: the names of triplets; `NoTriplet` is the empty string.
* **TripletLru**: `LruCache` as a value, at the level of `prev` and `next`.
  `deleteNode`, `addToHead` and `moveToHead` are the assignments of the code. The pointers are
  kept because the code's `GetCurTailNameForEvict` leaves the evicted node in
  `dict` with its old neighbours: a sequence could not express what a later
  `Get` or `DeleteFromCache` then does to the list. `Collect` resets nodes nothing points at
  (the Go collector), which only merges states.
* **LruList**: one `LruCache` and the goroutines in it, lock by lock: `RLock`, lookup,
  `deleteNode` and `addToHead` of `Get`; `Put` from its wait for the lock to
  `dict.Store`, with `size++` as a load and a store; `GetCurTailNameForEvict` with its
  `size--`; the purge. It says until when
  the list is right and complete, and so when `CacheServer`, where each operation is one step, may trust the list.
* **FilesTable**: a row is state, owner, etag, and the triplet and content
  version its token names; every statement is a function from the table to the
  table, made a step by the action that runs it. A row that is gone stays gone
  under UPDATE; `CommitCacheFileInDB` looks at neither the row's state nor its etag.
* **CacheServer**: all of a holder that runs: handlers, batch writer, collector,
  `PhyBH` and its swapper, the disk, the table, the origin, and the death and
  start of the process. An action is one statement on the table, one critical section
  or one file operation; between any two, every other goroutine may run.
* **PersistentCache**: what a holder promises, without triplets, rows, queues or
  mutexes: each file is fetched by one writer at a time from what the origin serves then,
  kept until the cache loses it, and answered from what is kept; a crash loses what is under way.
* **CacheImplements**: the refinement mapping from `CacheServer`: what is kept is the
  version of a READY row, what is being written are the goroutines between
  `DownLoad` and the commit, what is about to be answered are the requests past their
  lookup. `newest`, the version a row was last READY with, and `kept`, all it was ever READY with, are history variables.
* **TripletStore**: the files of the triplets in bytes, and the start-up that
  reconciles them with the files table. It has `PhyBH.New` statement by statement, `Put` with its
  reservation, its three appends and its error returns, and the swapper; evictions and
  purges are `CacheServer`'s, but for what a `Put` that picked its triplet before a purge still does to the
  disk after it (`AppendAfterPurge`: the file it makes is `Stray`).
* **ChunkedFiles**: `FileWriter.WriteAt` and `Close`, `FileReader.ReadAt` and its
  goroutines, and the statements of `blobs_db.go`.
* **WriteOnceFile**: what such a file promises, without segments, tokens or lists: a byte is
  written once, a blob holds one chunk of one file, a file is sealed when its bytes have no gap, a crash takes
  unsealed files only. `Promise` in `ChunkedFiles` maps a file's list of ranges to its bytes.

Correspondence of the state of `CacheServer`:

| Variable | Code |
|---|---|
| `origin` | what the object store serves: a version number per file |
| `table` | `oss_files` |
| `files` | triplets whose files exist; `mode` the idx state byte; `index` the blobs idx lists, which are also those of `RefMap` as long as the process has the triplet open (a purge leaves that map alone, so a request may still find a blob of a purged triplet in it and die on the binary file); `bin` the number of blobs in the binary file |
| `up` | the process is past `init` and serves |
| `mtx` | `OssHolderServer.mtx`: the request that locked it |
| `rd[r]` | the locals and program counter of a request: `list` (before Lock), `create`, `enqueue`, `stale`, `check` (before the 500 ms test), `get`, `read`; `win` is its window: `none`, `open`, `last` (in its last millisecond), `over` |
| `wQueue` | `CacheManager.wQueue`; `writeItemMap` always has the same elements |
| `job[w]` | the locals and program counter of `dowloadAndWriteCache` in goroutine `w` of the batch: `fetch`, `admit`, `pick`, `resolve`, `bin`, `idx`, `seal`, `failed`, `full`, `evict` |
| `open`, `closed`, `large`, `total` | `OpenTplt`, `ClosedTplt`, `LargeObjTplt`, `totalBytes` |
| `swap` | `LoopHotSwap`'s locals: `scan`, `publish`, `close`, `retire` |
| `purge` | `purgeItemMap`: `no` entry, `waiting` (less than 500 ms old), `ripe` |
| `pQueue`, `sweep` | `pQueue`; the `PurgeTriplet` goroutines of a round, which holds `pMtx` until they are done |
| `doomed` | history, read by properties and by the window bookkeeping only: triplets an eviction has chosen |

State of `TripletStore`:

| Variable | Code |
|---|---|
| `table` | `oss_files`; the version in a row stands for the blob id of its token |
| `idx[t]`, `mf[t]`, `bin[t]` | the three files: `none`, `blank` (killed in creation), `ok`, `broken` (a short append took the bracket); state byte and entries; entries; size and the blobs at their offsets |
| `at`, `todo`, `owners` | the statement of `PhyBH.New`, the triplets its loop still has to visit, what `ListTripleIdOfAllFiles` returned |
| `open`, `closed`, `large`, `curOff`, `total` | keys of the three caches, `BinHeader.CurOff`, `totalBytes` |
| `job[w]` | `PhyBH.Put` in a goroutine of the batch: `reserve`, `pick`, `bin`, `idx`, `mf`, `seal`, `rollback`; `grown` is `increaseBytes` |
| `closing` | `idToClose` of `LoopHotSwap` |
| `puts`, `kills` | bounds |
| `drift` | history: bytes on disk that no counter was told of since the start |

State of `ChunkedFiles`:

| Variable | Code |
|---|---|
| `file` | a file's row: state and `RngCodeList` |
| `segs` | the segments table; PENDING means a partial token |
| `stored` | the blobs `PhyBH.Get` finds |
| `wr[w]` | `WriteAt` in a writer: `put`, `commit` |
| `rd[r]` | `ReadAt` in a reader: goroutines that have not read their piece (`todo`), that have and have not tested `err` (`waiting`), the shared `err` and `tmpErr`, the bytes copied (`got`). `want`, the bytes committed when it listed the segments, and `failed`, whether a piece failed, are history |

State of `LruList`: `lru` is the cache as in `TripletLru`; `get[r]`, `put` and `evict` are program counters with the key and the
`size` loaded; `victims` are the ids the collector holds. History: `order` is the keys by their last `addToHead`,
`moved` the victims since whose eviction the list has changed, and `clashed` that one of the four steps was
taken after which `OrderKept` asks nothing.

Decisions that shape the models:

* *Data.* A blob is its file and the version of the content; all blobs have
  size 1, an empty triplet size 0, so `totalBytes`, `CurOff` and the thresholds
  count blobs. Whether an object is large is a property of the file. This is
  `CacheServer`; `TripletStore` has sizes in bytes, with the code's constants.
* *Steps.* `EnqueueDeletionReq` (tail, DELETE, clock start) is one step, as is
  `PurgeTriplet` and the whole start-up (which `TripletStore` takes apart); the first runs under `pMtx` from end to
  end. `LruGet` is one step here although `moveToHead` takes its lock
  twice; `LruList` has the two. `OpenTplt` is a set: `Put` of the code takes the first key a `sync.Map`
  range visits, so any open triplet may be picked.
* *Time.* Only two clocks matter, and only their order: a request takes its time
  before it lists its row, and an eviction starts the purge clock when it deletes the row.
  A request that listed the row of a triplet before that triplet's eviction has
  its window `open`. Both sides cut off milliseconds: a request passes its check until 501 ms after its time, and
  a purge may begin 500 ms after the eviction's. So `PurgeWaitOver` takes every open window of the triplet to `over`,
  which no longer passes, or to `last`, which still may: the request took its time less than a millisecond before the
  eviction. `WindowProtectsReader` is about the windows that are `open`; a `last` one finds the triplet gone in `Get`, or its
  binary file gone in `ReadBlobFatal`. A request may always be too late (`CheckLate`). Between `ClosedTplt.Put` and the write of the state byte
  the swapper does one file write; that this takes 500 ms is the
  failure `stall`.
* *Ids.* A random uuid is new; `Fresh` takes an id nothing refers to any
  more for a new one, so a few model values are enough for behaviours of any length.
* *Failures* are the constant `Faults`: a statement fails (`db`), the origin cannot be reached
  (`origin`: a download that cannot be made panics), the process is killed (`crash`), the swapper is suspended
  (`stall`). A run states which it allows. A job that fetches nothing (`FetchFails`) needs
  no failure: an object as large as the cache or an empty answer is enough, so every run has it. A panic in a handler is recovered by `net/http` and
  ends the request; elsewhere it is `Die`. `TripletStore` has its own: `kill` at any step and in the
  middle of a creation, a removal or a write of a binary file, `disk` (a short write),
  `db`; `ChunkedFiles`: `full`, `lost` (the triplet of a blob is evicted), `kill`.
* *Triplet files.* A short append to an index or a manifest overwrites the closing bracket: the file
  keeps its size in the model and is no JSON from then on, which is all a later start can
  tell. A failed write of a binary file is Fatal in the code. A kill does not cut an append of 252
  bytes in two, but may cut the write of a blob.
* *The race in ReadAt.* `err` belongs to all goroutines of a read; each assigns it, tests it, and assigns
  it to `tmpErr`. Either of the last two reads may see the goroutine's own value or
  the last one assigned.
* *Chunks and starts.* `CommitFileInDB` leaves the owners column alone, so no row names the triplets of
  a chunked file, and a start deletes them as orphans unless they also hold a cached
  file: after a death any part of `stored` may be left.

## 3. Runs

The MC modules add symmetry, which only runs without liveness properties use.

| Run | Instance | Shows |
|---|---|---|
| `faults` | 1 file, 2 requests, 1 update, all four failures | `TypeOK`, `CreateFindsNoRow`, `WindowProtectsReader`, `OpenTripletAvailable`, `DeathsExplained`, `OnlyFailedExitsStrand` |
| `writers` | a small and a large file, 2 goroutines, kills at any step | `NoDuplicateDownload`, `ReadyRowBacked`, `ReadyRowReachable`, `DeathsExplained`, `OnlyLateCommitsDangle` |
| `liveness` | 1 file, 2 requests, 1 update, fairness | `CacheServer` implements `PersistentCache` (`ImplementsPersistentCache`), `ContentNeverGoesBack`, `FetchedIsNewest`; `PendingResolves`, `RequestsAnswered`, `EvictedIsPurged` when statements succeed |
| `storage` | 2 files, 2 writers, 3 blobs, 3 triplets, up to 3 failures, writes after a purge | `TypeOK`, `ReadyReadable`, `OwnersLoadable`, `NoOrphanLeft`, `AccountsBalance` |
| `chunks` | a file of 3 bytes, 3 chunks, 2 writers, 1 reader, full caches, evictions, kills | `TypeOK`, `RangesSorted`, `SegmentsMatchRanges`, `ReadsAreWhole`; `ChunkedFiles` implements `WriteOnceFile` (`WritesOnce`) |
| `late_seal` | 2 files, 2 goroutines | violates `NoDanglingRow`: a goroutine commits after the triplet it wrote to was evicted and purged |
| `capacity` | 2 files, 2 goroutines | violates `DiskWithinCapacity`: a purge and a write subtract the same blob |
| `stale` | 1 file, 2 requests, 2 updates | violates `StaleContentIsRefetched`: old content is sealed under the newest etag, and the fetch queued for it ends without a commit |
| `locked` | failing statement, fairness | violates `RequestsAnswered`: two error returns keep the mutex |
| `order` | 2 triplets, 2 requests, 2 evictions, fairness | `TypeOK`, `OrderKept`, `NothingLost`, `PutReturns` |
| `overlap` | 2 triplets, 2 requests, no eviction | violates `TailIsOldest`: two requests move one triplet to the head at once |
| `boundary` | as `chunks`, no failure | violates `ReadsSucceed`: a read that begins where a chunk ends fails |

The six violations are disagreements between the code and what its documents,
comments, tests or log messages say; `findings` in `PROJECT.json` quotes the lines.
`RequestsAnswered` holds without failures and not with them, which `locked` shows. That every PENDING row has someone to settle
it holds in neither case: `FetchFails`, `SealFails` and `RollbackFails` end a job and leave its row PENDING until the next start, and
the first takes no failure, only an object as large as the cache or an empty one. `OnlyFailedExitsStrand` says that nothing
else does, and `PendingResolves` that a row which is not given up so is settled. `DeathsExplained` is in two runs, because
the swapper loses its files (`RetirePanics`) only under `stall`, in `faults`, and a picked triplet goes away before a
`Put` looks it up (`ResolvePanics`) only with two writers, in `writers`. In `stale` the fetch that could
repair the row ends in `FetchFails`; a full cache has the same effect, since `RollbackFileInDB` leaves a READY row alone. A definition whose comment begins with
"Mutated" is not part of the model: it is the plausible bug its property is
tested against, listed under `mutants`.

**Bounds.**

* `CacheServer`: `Capacity`, `CloseAt` (blobs), `MaxVersion` (updates at the
  origin), `MaxDrift` (how far below zero `totalBytes` is followed, and above
  `Capacity` a binary file), and the sizes of the sets. `CloseAt = 0` makes every
  triplet with a blob full, `Capacity = 1` makes the second blob evict the first, and
  three triplets let one be open, one closed or being purged, and one a replacement:
  every actor meets every other within these bounds. `liveness` has two triplets, so that the
  replacement waits for a purge; that refinement under failures is shown by its proof.
* `TripletStore`: `MaxVersion` (blobs), `MaxKills` (failures), the lengths 0, 3928 and 3929:
  an object without a chunk, with one, and with one byte more, which is also the one that
  is large. `F_CACHE_MAX_SIZE = 14000` lets two such writes be admitted and refuses a
  third. Three blobs are what it takes to write one, tear one and write another after the start
  at the wrong offset, if there were one. The run uses the aligned layout, which has the boundaries.
* `ChunkedFiles`: three bytes give every way two ranges lie to each other (apart, touching, overlapping,
  nested, equal) and three chunks every order of insertion. `MaxLost` bounds the blobs an eviction may take.

* `LruList`: two triplets are first and last of the list; two requests meet in one triplet or in neighbours, and two
  evictions empty it or take a triplet twice. `MaxEvictions` is 0 in `overlap`, so that what goes wrong there is the requests' own doing.

Deadlock is not checked in the runs of `LruList`, where everything may have been put and nobody asks, and in two others: in `locked` the system really
stops, and a `storage` instance that has used up its blobs and failures rests, because the idle
rounds of `LoopHotSwap` are no steps.

**Fairness** (`Fairness` of `CacheServer`, used by `liveness` and `locked`). Every background loop,
each goroutine of a batch and each purge is weakly fair: Go's scheduler runs what can run.
The steps of a request are strongly fair: a request waits for a
mutex that others take again and again, and `sync.Mutex` hands itself to a
waiter after 1 ms (its starvation mode). Nothing obliges a client to ask, the
origin to change, the process to die or an operator to start it; therefore the
liveness properties are about the time the process stays up. `LruList` (`order`): each
request inside `Get`, the `Put` under way and the eviction under way are weakly fair, nobody has to call; that a waiting
writer keeps new readers out is what `sync.RWMutex` documents.

## 4. Proofs

`tlapm` checks every step. The assumptions on `CacheServer` are `TripletsAssumption`,
`SentinelsAssumption` and `ServerAssumption`: finite sets of triplets and files, at least one
goroutine, natural limits. The number of requests is arbitrary. `ChunkedFiles` has
`ChunksAssumption` (a natural length, finitely many blobs; any number of writers, readers and files), `TripletStore` has
`StoreAssumption` (finitely many files and writers, natural limits and lengths; either layout, any thresholds, any
faults), `LruList` has `LruListAssumption` (a natural number of evictions; any triplets and any requests),
`PersistentCache` needs none.

* `TypeCorrect` (`CacheServerProofs`): `Spec => []TypeOK`. The lemmas of `TripletLruProofs` and
  `FilesTableProofs` give the type of every helper; `ReaderTypes`, `WorkerTypes`,
  `SwapTypes`, `RestartType` and `LoopTypes` go through the actions.
* `NoDuplicates`: `NoDuplicateDownload` is inductive with
  `TypeOK`. `JobsKeepTheirFiles` and `QueueSteps` reduce all other steps to "no
  goroutine starts" and "one file that is not queued is queued"; `BatchNoDuplicate` is the step of
  `loopBatchWrite`, which needs that the batch before is over.
* `ReadyRowsBacked`: `ReadyRowBacked` is not inductive. `BackedInv` adds that a
  process that is down has no goroutines (`Down`), that whatever the collector holds was chosen by an eviction
  (`PurgedAreDoomed`), and that a goroutine about to commit already has its blob
  listed (`SealBacked`). `BackedStays` says that no step but a start disturbs a
  listed blob in a triplet in use; `RestartKeepsBacked` is the start.
* `CreatesAreMisses`: the strengthening `CreatorHoldsMtx` says that a request
  about to INSERT holds `mtx` and its row is absent; `AbsentRowSteps` that only an INSERT
  makes a row appear.
* `OpenAvailable`: `SwapKeepsOne` follows the round of `LoopHotSwap`: published
  replacements are apart from what is retired, and there is at least one.
* `StrandedByExits`: a row is stranded by `FetchFails`, `SealFails` or `RollbackFails` of its own job only, under any
  failures. `PendingRowSteps` says how a row becomes PENDING, and `QueuedIsTaken`, `WorkerSettles` and `RequestQueues` that each
  kind of driver hands its file to the next, settles the row, or abandons it by one of the three (`Abandons`).
* `WindowsProtect`: `Windows` says that an open window belongs to a triplet whose files are there and whose
  purge clock is still running, and that before an eviction the triplet a
  request listed has its files; `WaitOverSteps` is the end of a wait, after which no window of the triplet is `open`. It rests on `BackedInv` for the row that is listed.
* `ReadyRowsReachable`: `ReachInv` adds to `BackedInv` that
  a triplet's state byte agrees with the kind of file in it (`Kind`: this is what a
  start goes by), that what a goroutine writes to is in the right cache
  (`JobPlaced`), and that the swapper drops from `OpenTplt` only what is in
  `ClosedTplt` or chosen by an eviction (`SwapPlaced`). `CacheSteps` says what
  the three caches can lose in a step, `RestartPlaces` that a start puts every
  READY row's triplet back; it needs that an order of n distinct ids names all n
  (`OrderNamesAll`).
* `LateCommitsOnly`: a row becomes READY, or READY with another triplet, by a commit only (`ReadyRowSteps`), only an
  eviction chooses a triplet (`DoomedSteps`), and it deletes its rows by owner, which by `BackedInv` is the triplet they name.
  So run `late_seal` shows the one way a row comes to dangle, not one of several.
* `DeathsAreExplained`: the lookups that panic or are Fatal find nothing only for the reasons that `DeathsExplained` names. Besides
  `ReachInv` it needs `ReaderFound` and `PickFound` (what a request or a `Put` found is
  where it was or evicted since), `OpenUntouched` (no list pointer, no purge clock and no purge under way has the id of
  an open triplet or of a replacement: the stale pointers of the LRU are why this takes a lemma for each
  list operation, `ForgottenStays`, `LoadedForgets`), and `CurFound` (the triplet in the swapper's hands
  has its files or was chosen by an eviction). `RestartUntouched` is the start.

* `ListKeepsOrder`, `ListLosesNothing`, `UnspoiltTailIsOldest` (`LruListProofs`): `IInv` is the types, `CallerInv` (what the
  callers' locks guarantee), `OrderInv` (keys of the order are keys of the dictionary, once each) and, until one of the four steps
  that set `clashed`, `Unspoilt`: the pointers are the order in both directions (`Linked`); a node between
  `deleteNode` and `addToHead` belongs to one request and to no list (`HandsApart`); a victim not yet
  purged still has the tail sentinel and the present last node as neighbours, so that unlinking it again
  changes nothing (`VictimsApart`); a new key is not evicted before it is linked (`NewKeyApart`); and every
  triplet is accounted for (`AllKept`). `LinkedDelete` and `LinkedAdd` are
  the two assignments of `deleteNode` and `addToHead` on a list of any length. The theorems show that the
  four steps are all that can spoil a list, with any number of requests; `UnspoiltTailIsOldest` is the
  claim of the design document under that condition, and run `overlap` is its failure without it.

* `KeepsNewest`, `NeverGetsOlder`, `AnswersKept` (`PersistentCacheProofs`): in
  the abstract cache what is kept is the newest version ever kept, and what is on its way is between
  it and the origin's (`NewestKept`, inductive with the types). An answer is a version that was kept: `HistoryHolds` is that what is
  kept is in the history `kept`, which only grows (`HistoryStep`), so a request that saw a version keeps it in view.
* `Implements` (`CacheImplementsProofs`): `CacheServer` refines `PersistentCache`. The lemmas `Abstract...`
  state each abstract step by its effect on the mapped variables; `NewestStays`,
  `RowsLost`, `WritingStays`, `ViewStays` and their like say what a change of the table, of a job or of a
  request does to the mapping; `ReaderSim`, `WorkerSim`, `LoopSim` and `RestartSim` go through the actions.
  It needs `TypeOK`, `NoDuplicateDownload` (or two goroutines would write one file), and
  `Remembers`: `newest` and `kept` agree with every READY row.
* `NeverGoesBack`: `ContentNeverGoesBack` is `NeverOlder` of the abstract cache,
  carried over by the refinement. Proved on `CacheServer` alone it would need an
  invariant over origin, rows, goroutines and requests; the abstract cache has it in three conjuncts.
* `FetchedAlwaysNewest`: `FetchedIsNewest` is `NewestKept` and `AnswersWereKept` of the abstract cache, carried over the same way.
* `SortedAlways` (`ChunkedFilesProofs`): `InsertSorts` says that a range which collides with none of a
  sorted list, put into the slot `InsertRangeCodeList` stops at, leaves it sorted; only `CommitBlob` changes a list.
* `TablesAgree`: `InsertAdds` gives the ranges of the longer list, and `MatchStep` follows both tables through each step.
* `WholeReads`: `OnCourse` says of a read under way, none of whose pieces has failed, that `err` and `tmpErr`
  are nil, and that every byte wanted is copied or will be by a goroutine that is not done
  (`StillComes`). `WindowCovers` is its base: by `TablesAgree` the segments a read lists cover the committed bytes of its window.
* `BytesAreWrittenOnce`: `ChunkedFiles` refines `WriteOnceFile`. `CommitWrites` needs that the blob of a commit is in no list yet: `OneSegment` and
  `OwnSegments` say that a blob is in one segment and that the PENDING segment of a writer is its own. `CloseSeals` needs that a
  list whose neighbours meet has no hole (`CoverageIsGapless`), which is an induction over the list; `Open`,
  that for every offset there is a last range that ends before it, takes its place as an invariant that insertion
  keeps (`InsertOpens`). It also says that `InsertRangeCodeList` always finds a place. `DieCrashes` is the restart.
* `StoreTypes`, `ReadyRowsReadable`, `OwnersAreLoadable`, `NoOrphans` (`TripletStoreProofs`) follow from `FilesInv`, whose
  parts are: `DiskSound`, what the files are at any time, between two processes as well (no index, no bytes in the
  binary file but those of a `Put` after a purge: this is the order of `DeleteTripletFilesOnDisk`, and `StrayBin` the exception); `RowsBacked`, what a READY row can rely on;
  `PhaseSound`, what `todo` and `owners` still hold at each statement of `PhyBH.New`; `PlacedSound`, that `CurOff` is the
  length of the file of every loaded triplet; and `JobsSound`, what a `Put` under way has already written and that no
  two have the same blob. A commit makes a row READY from what `JobsSound` says of its job; a start keeps it because
  `PhaseSound` keeps owners out of the clean-up.
* `AccountsAlwaysBalance`: `Balance` says what `totalBytes` stands for at every moment of a start and of a write, the
  size of all triplets that were found or loaded plus the part of each reservation not yet written. A step changes
  one summand of each sum (`SizeMoves`, `HeldMoves`) or adds empty triplets (`SizesJoin`); `StartBalance`
  and `PutBalance` go through the actions. The lemmas about `Sum` rest on `SubsetInduction`, an induction
  whose predicate is a set of subsets, which the provers can instantiate: `SumUnfolds` and `FoldExists` connect it to
  the `MapThenSumSet` of the community modules.

**Only model-checked**: the liveness properties (`PendingResolves`, `RequestsAnswered`, `EvictedIsPurged`, `PutReturns`),
which are out of the prover's reach as is `ENABLED`, and the six violations, which are counterexamples. Every
safety property of the passing runs, invariant, action property or refinement, is a theorem.

## 5. Not modelled

* Parsing and formatting of requests and answers, logging, configuration, checksums (constant in the code), the client
  programs, SQL schema creation. `ListFileFromDB`, `ListFileAndOwnersFromDB`, `UpdateFilemetaAndOwnerInDB`, the deletion log and
  `IndexHeader.Delete` have no caller.
* A list that two requests have corrupted (`LruList`, run `overlap`) inside the whole holder: `CacheServer` takes `LruGet` as one
  step, as it is already at the size TLC can finish. What stale neighbours do to a list after an eviction is in both.
* The semaphore of `GetConn`: every statement gives its slot back when the call that sends it
  returns, on every path, so no order of the modelled steps depends on it. What is
  left is a minute of backoff and a `Fatal`, and the models let the process die at any step.
* Start numbers of chunks of ten digits and more: `ToDbEntry` pads to nine, and
  the table then sorts them as text. A segment's key is its start here.
* The unaligned layout in a run: `GetPayloadSize` has both, and a configuration can choose it.
* The read of a blob in bytes. `TripletStore` says what a read would find (`Readable`, `Empty`) and has no step for it; a READY row of an
  object without bytes has no header to find in the aligned layout, and reading it is Fatal in the code.
* Recovery from an index or manifest without JSON: there is none in the code. `LoadPanics` is
  every later start; nothing in the repository promises otherwise.
