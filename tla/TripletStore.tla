---------------------------- MODULE TripletStore ----------------------------
(***************************************************************************)
(* The files of the triplets, byte by byte where bytes count, and the      *)
(* start-up that reconciles them with the files table:                     *)
(*   - PhyBH.New and Put, Triplet.New (physical_blob_handler.go),          *)
(*   - the index, binary and manifest files (blob_index.go,                *)
(*     blob_binary.go, blob_manifest.go) and GetPayloadSize.               *)
(*                                                                         *)
(* A step is one statement on the table, one file written under the lock   *)
(* of its header, or one triplet created, loaded or removed. Inside a      *)
(* file operation only a kill interferes: KillIn... are its half-done      *)
(* results. Evictions and purges are CacheServer's: a purged triplet is    *)
(* Fresh again, and AppendAfterPurge is what a Put that had picked it      *)
(* before the purge still does to the disk.                                *)
(*                                                                         *)
(* The version of a row stands for the blob id of its token: every Put     *)
(* draws a new one, and 0 is the blob of a Put after a purge.              *)
(***************************************************************************)
EXTENDS FilesTable, FiniteSetsExt

CONSTANTS
    Writers,       \* goroutines of a batch
    Lengths,       \* lengths of an object, in bytes
    F_4K_Align,
    LargeAbove,    \* K_triplet_large_threshold
    CloseAbove,    \* K_triplet_closing_threshold
    F_CACHE_MAX_SIZE,
    Faults,        \* "kill" at any step, "disk" a short write, "db" a statement fails
    MaxKills,      \* BOUND on kills and failed statements and writes
    NoFile

ASSUME StoreAssumption ==
    /\ IsFiniteSet(Files) /\ IsFiniteSet(Writers)
    /\ MaxVersion \in Nat /\ MaxKills \in Nat
    /\ Lengths \subseteq Nat
    /\ F_4K_Align \in BOOLEAN
    /\ LargeAbove \in Nat /\ CloseAbove \in Nat /\ F_CACHE_MAX_SIZE \in Nat
    /\ Faults \subseteq {"kill", "disk", "db"}
    /\ NoFile \notin Files

VARIABLES
    \* persistent
    table,    \* oss_files
    idx,      \* index files: well-formedness, state byte, entries
    mf,       \* manifest files: well-formedness, number of entries
    bin,      \* binary files: size and the blobs in it
    \* the process
    at,       \* where the process is: down, a statement of PhyBH.New, or serving
    todo,     \* triplets its current loop of PhyBH.New still has to visit
    owners,   \* what ListTripleIdOfAllFiles returned
    open, closed, large,   \* keys of the three caches
    curOff,   \* BinHeader.CurOff
    total,    \* PhyBH.totalBytes
    job,      \* PhyBH.Put in each writer
    closing,  \* LoopHotSwap: triplets it is about to close
    \* bounds and history
    puts,     \* the number of blobs so far, at most MaxVersion
    kills,    \* failures so far, at most MaxKills
    drift     \* bytes on disk that no counter was told of since the start

diskVars == <<idx, mf, bin>>
cacheVars == <<open, closed, large, curOff>>
vars == <<table, diskVars, at, todo, owners, cacheVars, total, job, closing, puts, kills, drift>>

-----------------------------------------------------------------------------
(* Sizes. *)

F_BLOBID_SIZE == 128
F_CONTENT_SIZE == 4096 - F_BLOBID_SIZE - 8 - 32
K_index_entry_len == 252
K_mf_entry_len == 202

GetPayloadSize(len) ==
    IF F_4K_Align
    THEN 4096 * ((len + F_CONTENT_SIZE - 1) \div F_CONTENT_SIZE)
    ELSE F_BLOBID_SIZE + 8 + len

MaxAllocSize(len) == 8 + GetPayloadSize(len) + K_index_entry_len + K_mf_entry_len + 4

(* A log of n entries: the first has no leading ",\n". *)
LogSize(n, entryLen) == IF n = 0 THEN 0 ELSE n * entryLen - 2

Growth(n, entryLen) == LogSize(n + 1, entryLen) - LogSize(n, entryLen)

(* The state byte and "\n[\n]"; "[\n]". A file killed or full in the middle of
   its creation is "blank"; a failed append leaves its size, and no JSON. *)
IdxSize(t) == IF idx[t].st \in {"none", "blank"} THEN 0
              ELSE 5 + LogSize(Cardinality(idx[t].entries), K_index_entry_len)
MfSize(t) == IF mf[t].st \in {"none", "blank"} THEN 0 ELSE 3 + LogSize(mf[t].n, K_mf_entry_len)

TripletSize(t) == IdxSize(t) + MfSize(t) + bin[t].size

SizeOf(ids) == MapThenSumSet(TripletSize, ids)

-----------------------------------------------------------------------------
NoIdx == [st |-> "none", state |-> "open", entries |-> {}]
NoMf == [st |-> "none", n |-> 0]
NoBin == [size |-> 0, blobs |-> {}]
IdleJob == [pc |-> "idle", file |-> NoFile, blob |-> 0, len |-> 0,
            tri |-> NoTriplet, off |-> 0, grown |-> 0]

Idxs == [st : {"none", "blank", "ok", "broken"}, state : {"open", "closed", "large"},
         entries : SUBSET [blob : Versions, off : Nat]]
Mfs == [st : {"none", "blank", "ok", "broken"}, n : Nat]
Bins == [size : Nat, blobs : SUBSET [blob : Versions, off : Nat, len : Lengths]]
Jobs == [pc : {"idle", "reserve", "pick", "bin", "idx", "mf", "seal", "rollback"},
         file : Files \cup {NoFile}, blob : Versions, len : Lengths \cup {0},
         tri : TripletIds, off : Nat, grown : Nat]

TypeOK ==
    /\ table \in FilesTables
    /\ idx \in [TripletIds -> Idxs]
    /\ mf \in [TripletIds -> Mfs]
    /\ bin \in [TripletIds -> Bins]
    /\ at \in {"down", "pending", "list", "clean", "load", "up"}
    /\ todo \subseteq TripletIds
    /\ owners \subseteq TripletIds
    /\ open \subseteq TripletIds /\ closed \subseteq TripletIds /\ large \subseteq Triplets
    /\ curOff \in [TripletIds -> Nat]
    /\ total \in Int
    /\ job \in [Writers -> Jobs]
    /\ closing \subseteq TripletIds
    /\ puts \in Versions /\ kills \in 0..MaxKills /\ drift \in Nat

-----------------------------------------------------------------------------
(* Triplet files. *)

(* A random uuid: nothing on disk or in the table has it. *)
Fresh(t) ==
    /\ t \in Triplets
    /\ idx[t] = NoIdx /\ mf[t] = NoMf /\ bin[t] = NoBin
    /\ \A f \in Files : t \notin {table[f].owner, table[f].tri}

(* IndexHeader.create and MFHeader.create; the binary file comes with the
   first blob. *)
Created(state) == [idx |-> [NoIdx EXCEPT !.st = "ok", !.state = state],
                   mf |-> [NoMf EXCEPT !.st = "ok"]]

EmptyTripletSize == 5 + 3

CreateTriplets(ids, state) ==
    /\ idx' = [t \in TripletIds |-> IF t \in ids THEN Created(state).idx ELSE idx[t]]
    /\ mf' = [t \in TripletIds |-> IF t \in ids THEN Created(state).mf ELSE mf[t]]
    /\ curOff' = [t \in TripletIds |-> IF t \in ids THEN 0 ELSE curOff[t]]
    /\ UNCHANGED bin

(* DeleteTripletFilesOnDisk. *)
DeleteTripletFilesOnDisk(t) ==
    /\ bin' = [bin EXCEPT ![t] = NoBin]
    /\ idx' = [idx EXCEPT ![t] = NoIdx]
    /\ mf' = [mf EXCEPT ![t] = NoMf]

(* Mutated: the index is removed before the binary file. *)
RemovalCutShortIdxFirst(t) ==
    /\ idx' = [idx EXCEPT ![t] = NoIdx]
    /\ bin' \in {bin, [bin EXCEPT ![t] = NoBin]}
    /\ UNCHANGED mf

(* What is left when the removal of bin, then idx, then mf is cut short. *)
RemovalCutShort(t) ==
    /\ bin' = [bin EXCEPT ![t] = NoBin]
    /\ idx' \in {idx, [idx EXCEPT ![t] = NoIdx]}
    /\ UNCHANGED mf

-----------------------------------------------------------------------------
(* The process dies: a panic outside a handler, a Fatal, or a kill. *)
Die ==
    /\ at' = "down"
    /\ todo' = {} /\ owners' = {}
    /\ open' = {} /\ closed' = {} /\ large' = {} /\ curOff' = [t \in TripletIds |-> 0]
    /\ total' = 0 /\ drift' = 0
    /\ job' = [w \in Writers |-> IdleJob]
    /\ closing' = {}
    /\ UNCHANGED <<table, puts>>

Fails(fault) == fault \in Faults /\ kills < MaxKills /\ kills' = kills + 1

Kill == at # "down" /\ Fails("kill") /\ Die /\ UNCHANGED diskVars

-----------------------------------------------------------------------------
(* PhyBH.New, statement by statement. *)

(* ScanLocalFS goes by the names of idx files; a name needs an id. *)
ScanLocalFS ==
    /\ at = "down"
    /\ LET found == {t \in Triplets : idx[t].st # "none"} IN
         /\ todo' = found
         /\ total' = SizeOf(found)
    /\ at' = "pending"
    /\ UNCHANGED <<table, diskVars, owners, cacheVars, job, closing, puts, kills, drift>>

DeletePending ==
    /\ at = "pending"
    /\ table' = DeleteAllPendingFileInDB(table)
    /\ at' = "list"
    /\ UNCHANGED <<diskVars, todo, owners, cacheVars, total, job, closing, puts, kills, drift>>

(* The error is not looked at. *)
DeletePendingFails ==
    /\ at = "pending"
    /\ Fails("db")
    /\ at' = "list"
    /\ UNCHANGED <<table, diskVars, todo, owners, cacheVars, total, job, closing, puts, drift>>

(* Mutated: the owners are listed and the orphans are all that was found. *)
ListOwnersUnused ==
    /\ at = "list"
    /\ owners' = ListTripleIdOfAllFiles(table)
    /\ at' = "clean"
    /\ UNCHANGED <<table, diskVars, todo, cacheVars, total, job, closing, puts, kills, drift>>

ListOwners ==
    /\ at = "list"
    /\ owners' = ListTripleIdOfAllFiles(table)
    /\ todo' = todo \ ListTripleIdOfAllFiles(table)
    /\ at' = "clean"
    /\ UNCHANGED <<table, diskVars, cacheVars, total, job, closing, puts, kills, drift>>

ListOwnersFatal == at = "list" /\ Fails("db") /\ Die /\ UNCHANGED diskVars

DeleteOrphan(t) ==
    /\ at = "clean" /\ t \in todo
    /\ DeleteTripletFilesOnDisk(t)
    /\ total' = total - TripletSize(t)
    /\ todo' = todo \ {t}
    /\ UNCHANGED <<table, at, owners, cacheVars, job, closing, puts, kills, drift>>

KillInDeleteOrphan(t) ==
    at = "clean" /\ t \in todo /\ Fails("kill") /\ RemovalCutShort(t) /\ Die

OrphansGone ==
    /\ at = "clean" /\ todo = {}
    /\ at' = "load" /\ todo' = owners
    /\ UNCHANGED <<table, diskVars, owners, cacheVars, total, job, closing, puts, kills, drift>>

(* Triplet.New for an owner: what is missing is created and not counted, what
   is there must be a state byte and JSON. *)
Loadable(t) == idx[t].st \in {"none", "ok"} /\ mf[t].st \in {"none", "ok"}

LoadAs(t, new, off) ==
    /\ at = "load" /\ t \in todo /\ Loadable(t)
    /\ LET loaded == IF idx[t].st = "none" THEN new.idx ELSE idx[t]
       IN  /\ idx' = [idx EXCEPT ![t] = loaded]
           /\ mf' = [mf EXCEPT ![t] = IF @.st = "none" THEN new.mf ELSE @]
           /\ open' = IF loaded.state = "open" THEN open \cup {t} ELSE open
           /\ closed' = IF loaded.state = "closed" THEN closed \cup {t} ELSE closed
           /\ large' = IF loaded.state = "large" THEN large \cup {t} ELSE large
    /\ curOff' = [curOff EXCEPT ![t] = off]
    /\ drift' = drift + (IF idx[t].st = "none" THEN 5 ELSE 0) + (IF mf[t].st = "none" THEN 3 ELSE 0)
                      + (IF t = NoTriplet THEN TripletSize(t) ELSE 0)
    /\ todo' = todo \ {t}
    /\ UNCHANGED <<table, bin, at, owners, total, job, closing, puts, kills>>

(* Mutated: appends restart at the beginning of the binary file. *)
LoadTripletRewound(t) == LoadAs(t, Created("open"), 0)

(* Mutated: missing files are created as a large object's. *)
LoadTripletLarge(t) == LoadAs(t, Created("large"), bin[t].size)

LoadTriplet(t) == LoadAs(t, Created("open"), bin[t].size)

LoadPanics(t) ==
    /\ at = "load" /\ t \in todo /\ ~Loadable(t)
    /\ Die /\ UNCHANGED <<diskVars, kills>>

Serve ==
    /\ at = "load" /\ todo = {} /\ open # {}
    /\ at' = "up"
    /\ UNCHANGED <<table, diskVars, todo, owners, cacheVars, total, job, closing, puts, kills, drift>>

(* With no open triplet among the owners, a new one is created. *)
ServeWithNewTriplet(t) ==
    /\ at = "load" /\ todo = {} /\ open = {} /\ Fresh(t)
    /\ CreateTriplets({t}, "open")
    /\ open' = {t}
    /\ total' = total + EmptyTripletSize
    /\ at' = "up"
    /\ UNCHANGED <<table, todo, owners, closed, large, job, closing, puts, kills, drift>>

-----------------------------------------------------------------------------
(* Writing an object. *)

OnlyJobs == UNCHANGED <<diskVars, at, todo, owners, cacheVars, closing, kills>>

(* TryReadFromCache misses. *)
Request(f) ==
    /\ at = "up" /\ table[f].state = "absent"
    /\ table' = CreateFileWithFidInDB(table, f, 0)
    /\ UNCHANGED <<job, total, puts, drift>> /\ OnlyJobs

(* dowloadAndWriteCache reaches Put with the object and a new blob id. *)
StartPut(w, f) ==
    /\ at = "up" /\ job[w].pc = "idle" /\ table[f].state = "pending"
    /\ \A v \in Writers : job[v].file # f
    /\ puts < MaxVersion
    /\ \E len \in Lengths :
         job' = [job EXCEPT ![w] = [IdleJob EXCEPT !.pc = "reserve", !.file = f,
                                                   !.blob = puts + 1, !.len = len]]
    /\ puts' = puts + 1
    /\ UNCHANGED <<table, total, drift>> /\ OnlyJobs

Reserve(w) ==
    /\ job[w].pc = "reserve"
    /\ MaxAllocSize(job[w].len) <= F_CACHE_MAX_SIZE - total
    /\ total' = total + MaxAllocSize(job[w].len)
    /\ job' = [job EXCEPT ![w].pc = "pick"]
    /\ UNCHANGED <<table, puts, drift>> /\ OnlyJobs

CacheFull(w) ==
    /\ job[w].pc = "reserve"
    /\ MaxAllocSize(job[w].len) > F_CACHE_MAX_SIZE - total
    /\ job' = [job EXCEPT ![w].pc = "rollback"]
    /\ UNCHANGED <<table, total, puts, drift>> /\ OnlyJobs

RollbackFileInDB(w) ==
    /\ job[w].pc = "rollback"
    /\ table' = DeletePendingFileWithFIdInDB(table, job[w].file)
    /\ job' = [job EXCEPT ![w] = IdleJob]
    /\ UNCHANGED <<total, puts, drift>> /\ OnlyJobs

IsLarge(len) == GetPayloadSize(len) > LargeAbove

PickLarge(w, t) ==
    /\ job[w].pc = "pick" /\ IsLarge(job[w].len) /\ Fresh(t)
    /\ CreateTriplets({t}, "large")
    /\ large' = large \cup {t}
    /\ job' = [job EXCEPT ![w].pc = "bin", ![w].tri = t, ![w].grown = EmptyTripletSize]
    /\ UNCHANGED <<table, at, todo, owners, open, closed, total, closing, puts, kills, drift>>

PickOpen(w) ==
    /\ job[w].pc = "pick" /\ ~IsLarge(job[w].len)
    /\ \E t \in open : job' = [job EXCEPT ![w].pc = "bin", ![w].tri = t]
    /\ UNCHANGED <<table, total, puts, drift>> /\ OnlyJobs

(* BinHeader.Put: O_APPEND writes where the file ends, the entry will say
   CurOff. A failed write is Fatal. *)
PutBin(w) ==
    /\ job[w].pc = "bin"
    /\ LET t == job[w].tri
           size == GetPayloadSize(job[w].len)
       IN  /\ bin' = [bin EXCEPT ![t] =
                        [size |-> @.size + size,
                         blobs |-> @.blobs \cup {[blob |-> job[w].blob, off |-> @.size,
                                                  len |-> job[w].len]}]]
           /\ curOff' = [curOff EXCEPT ![t] = @ + size]
           /\ job' = [job EXCEPT ![w].pc = "idx", ![w].off = curOff[t], ![w].grown = @ + size]
    /\ UNCHANGED <<table, idx, mf, at, todo, owners, open, closed, large, total, closing,
                   puts, kills, drift>>

(* Killed, or out of space, in the middle of the write: some bytes are there. *)
TornPutBin(w) ==
    /\ job[w].pc = "bin" /\ GetPayloadSize(job[w].len) > 0
    /\ Fails("kill") \/ Fails("disk")
    /\ bin' = [bin EXCEPT ![job[w].tri].size = @ + 1]
    /\ Die /\ UNCHANGED <<idx, mf>>

(* IndexHeader.Put. Its in-memory state is never "closed": Close works on a
   copy. *)
PutIdx(w) ==
    /\ job[w].pc = "idx"
    /\ LET t == job[w].tri IN
         /\ idx' = [idx EXCEPT ![t].entries = @ \cup {[blob |-> job[w].blob, off |-> job[w].off]}]
         /\ job' = [job EXCEPT ![w].pc = "mf", ![w].grown =
                      @ + Growth(Cardinality(idx[t].entries), K_index_entry_len)]
    /\ UNCHANGED <<table, mf, bin, at, todo, owners, cacheVars, total, closing, puts, kills, drift>>

(* MFHeader.Put, and the totals: what was written replaces the reservation. *)
PutMf(w) ==
    /\ job[w].pc = "mf"
    /\ LET t == job[w].tri IN
         /\ mf' = [mf EXCEPT ![t].n = @ + 1]
         /\ total' = total + job[w].grown + Growth(mf[t].n, K_mf_entry_len)
                           - MaxAllocSize(job[w].len)
    /\ job' = [job EXCEPT ![w].pc = "seal"]
    /\ UNCHANGED <<table, idx, bin, at, todo, owners, cacheVars, closing, puts, kills, drift>>

(* Mutated: the error return forgets the reservation. *)
GiveUpPutReserved(w) ==
    /\ drift' = drift + job[w].grown
    /\ job' = [job EXCEPT ![w].pc = "rollback"]
    /\ UNCHANGED total

(* A short append took the closing bracket: the reservation goes back, and
   what was written so far stays and is not counted. *)
GiveUpPut(w) ==
    /\ total' = total - MaxAllocSize(job[w].len)
    /\ drift' = drift + job[w].grown
    /\ job' = [job EXCEPT ![w].pc = "rollback"]

PutIdxFails(w) ==
    /\ job[w].pc = "idx" /\ Fails("disk")
    /\ idx' = [idx EXCEPT ![job[w].tri].st = "broken"]
    /\ GiveUpPut(w)
    /\ UNCHANGED <<table, mf, bin, at, todo, owners, cacheVars, closing, puts>>

PutMfFails(w) ==
    /\ job[w].pc = "mf" /\ Fails("disk")
    /\ mf' = [mf EXCEPT ![job[w].tri].st = "broken"]
    /\ GiveUpPut(w)
    /\ UNCHANGED <<table, idx, bin, at, todo, owners, cacheVars, closing, puts>>

(* The triplet's id is read off the token. *)
SealFileAtCache(w) ==
    /\ job[w].pc = "seal" /\ job[w].tri # NoTriplet
    /\ table' = IF CanCommit(table, job[w].file)
                THEN CommitCacheFileInDB(table, job[w].file, job[w].tri, job[w].blob)
                ELSE table
    /\ job' = [job EXCEPT ![w] = IdleJob]
    /\ UNCHANGED <<total, puts, drift>> /\ OnlyJobs

(* A token without a triplet's id does not match: a panic. *)
SealPanics(w) ==
    /\ job[w].pc = "seal" /\ job[w].tri = NoTriplet
    /\ Die /\ UNCHANGED <<diskVars, kills>>

(* A Put that picked its triplet before a purge and writes after it: O_CREATE
   makes a binary file again, idx.flush finds no file to append to, and the
   error return gives the reservation back. *)
AppendAfterPurge(t) ==
    /\ at = "up" /\ Fresh(t) /\ puts < MaxVersion
    /\ \E len \in Lengths :
         bin' = [bin EXCEPT ![t] = [size |-> GetPayloadSize(len),
                                    blobs |-> {[blob |-> 0, off |-> 0, len |-> len]}]]
    /\ puts' = puts + 1
    /\ UNCHANGED <<table, idx, mf, at, todo, owners, cacheVars, total, job, closing, kills, drift>>

-----------------------------------------------------------------------------
(* LoopHotSwap. *)

Full == {t \in open : curOff[t] > CloseAbove}

OpenReplacements ==
    /\ at = "up" /\ closing = {} /\ Full # {}
    /\ \E ids \in SUBSET Triplets :
         /\ Cardinality(ids) = Cardinality(Full)
         /\ \A t \in ids : Fresh(t)
         /\ CreateTriplets(ids, "open")
         /\ open' = open \cup ids
    /\ total' = total + Cardinality(Full) * EmptyTripletSize
    /\ closing' = Full
    /\ UNCHANGED <<table, at, todo, owners, closed, large, job, puts, kills, drift>>

CloseTriplet(t) ==
    /\ t \in closing
    /\ idx' = [idx EXCEPT ![t].state = "closed"]
    /\ closed' = closed \cup {t} /\ open' = open \ {t}
    /\ closing' = closing \ {t}
    /\ UNCHANGED <<table, mf, bin, at, todo, owners, large, curOff, total, job, puts, kills, drift>>

(* A kill or a full disk while a triplet is created: by the swapper, for a large object, or
   by a start. Its idx file may be empty, or the mf file missing or empty. *)
Creating ==
    \/ at = "up" /\ closing = {} /\ Full # {}
    \/ \E w \in Writers : job[w].pc = "pick" /\ IsLarge(job[w].len)
    \/ at = "load" /\ todo = {} /\ open = {}

HalfCreated(t, state) ==
    \/ idx' = [idx EXCEPT ![t] = [NoIdx EXCEPT !.st = "blank", !.state = state]] /\ UNCHANGED mf
    \/ /\ idx' = [idx EXCEPT ![t] = Created(state).idx]
       /\ mf' \in {mf, [mf EXCEPT ![t].st = "blank"]}

KillInCreate(t) ==
    /\ Creating /\ Fresh(t)
    /\ Fails("kill") \/ Fails("disk")
    /\ \E state \in {"open", "large"} : HalfCreated(t, state)
    /\ Die /\ UNCHANGED bin

(* The same, while the missing files of an owner are created. *)
KillInLoad(t) ==
    /\ at = "load" /\ t \in todo /\ idx[t].st = "none"
    /\ Fails("kill") \/ Fails("disk")
    /\ HalfCreated(t, "open")
    /\ Die /\ UNCHANGED bin

-----------------------------------------------------------------------------
Init ==
    /\ table = EmptyTable
    /\ idx = [t \in TripletIds |-> NoIdx]
    /\ mf = [t \in TripletIds |-> NoMf]
    /\ bin = [t \in TripletIds |-> NoBin]
    /\ at = "down" /\ todo = {} /\ owners = {}
    /\ open = {} /\ closed = {} /\ large = {} /\ curOff = [t \in TripletIds |-> 0]
    /\ total = 0
    /\ job = [w \in Writers |-> IdleJob]
    /\ closing = {}
    /\ puts = 0 /\ kills = 0 /\ drift = 0

Start ==
    \/ ScanLocalFS \/ DeletePending \/ DeletePendingFails \/ ListOwners \/ ListOwnersFatal
    \/ OrphansGone \/ Serve
    \/ \E t \in TripletIds :
         DeleteOrphan(t) \/ KillInDeleteOrphan(t) \/ LoadTriplet(t) \/ LoadPanics(t)
         \/ ServeWithNewTriplet(t) \/ KillInLoad(t)

Put(w) ==
    \/ Reserve(w) \/ CacheFull(w) \/ RollbackFileInDB(w)
    \/ PickOpen(w) \/ \E t \in Triplets : PickLarge(w, t)
    \/ PutBin(w) \/ TornPutBin(w) \/ PutIdx(w) \/ PutIdxFails(w)
    \/ PutMf(w) \/ PutMfFails(w) \/ SealFileAtCache(w) \/ SealPanics(w)

Next ==
    \/ Start \/ Kill
    \/ \E f \in Files : Request(f)
    \/ \E w \in Writers, f \in Files : StartPut(w, f)
    \/ \E w \in Writers : Put(w)
    \/ OpenReplacements
    \/ \E t \in TripletIds : CloseTriplet(t)
    \/ \E t \in Triplets : KillInCreate(t) \/ AppendAfterPurge(t)

Spec == Init /\ [][Next]_vars

-----------------------------------------------------------------------------
(* Safety. *)

(* BinHeader.Get finds the blob's own header at the offset the index gives,
   and all of its bytes. *)
Readable(t, blob) ==
    \E e \in idx[t].entries : e.blob = blob /\
        \E b \in bin[t].blobs :
            /\ b.blob = blob /\ b.off = e.off
            /\ GetPayloadSize(b.len) > 0
            /\ b.off + GetPayloadSize(b.len) <= bin[t].size

(* An object without bytes has no block in the aligned layout, so no header
   either: a Get of it meets the end of the file or the header of another
   blob, and is Fatal. *)
Empty(t, blob) == \E b \in bin[t].blobs : b.blob = blob /\ GetPayloadSize(b.len) = 0

(* "if service crashes after bin-flush and idx-flush, data persisted": what a
   READY row names, unless it was stored without a byte, can be read from its
   triplet, whatever was killed, torn, cleaned up and appended since; the
   offset kept in memory and the size of the file never part. *)
ReadyReadable ==
    \A f \in Files : table[f].state = "ready" =>
        Readable(table[f].tri, table[f].ver) \/ Empty(table[f].tri, table[f].ver)

(* A start finds the files of every owner written in full: a kill in the
   middle of a creation never leaves a row that makes the next start panic.
   (An append that fails does, and so may a row without an owner.) *)
OwnersLoadable ==
    \A f \in Files : table[f].state = "ready" =>
        idx[table[f].tri].st \in {"ok", "broken"} /\ mf[table[f].tri].st \in {"ok", "broken"}

Loaded == open \cup closed \cup large

(* What a Put after a purge left: a start does not find it, for it goes by
   the index files, and it is in no total. *)
Stray(t) == \E b \in bin[t].blobs : b.blob = 0

(* A process that serves knows every triplet on disk that has an index, and
   every binary file but the stray ones, however often the clean-up of earlier
   starts was cut short: the removal starts with the binary file and a triplet
   is found by its index. A manifest alone may be left. *)
NoOrphanLeft ==
    at = "up" => \A t \in Triplets \ Loaded :
                    idx[t].st = "none" /\ (bin[t].size = 0 \/ Stray(t))

(* totalBytes: the reservations cover what the writes under way have written,
   and between writes every byte of the triplets in the caches is counted once,
   but those that a failed append or a start without files left behind (drift). *)
AccountsBalance ==
    at = "up" =>
        /\ SizeOf(Loaded) <= total + drift
        /\ (\A w \in Writers : job[w].pc \in {"idle", "reserve", "seal", "rollback"})
             => SizeOf(Loaded) = total + drift
=============================================================================
