------------------------- MODULE CacheServerProofs -------------------------
(* Theorems about CacheServer, for every number of files, triplets, requests  *)
(* and goroutines, every capacity and every set of faults.                    *)
EXTENDS CacheServer, TripletLruProofs, FilesTableProofs, FiniteSetTheorems,
        SequenceTheorems

USE ServerAssumption

-----------------------------------------------------------------------------
(* The records of requests, jobs and swap rounds. *)

(* The version of a file that was never replaced. *)
LEMMA ZeroVersion == 0 \in Versions /\ MaxVersion \in Nat
  BY DEF Versions

(* Nobody is at work in a process that was just started. *)
LEMMA IdleTypes ==
  /\ IdleReader \in Requests
  /\ IdleJob \in Jobs
  /\ IdleSwap \in Swaps
  BY ZeroVersion
  DEF IdleReader, Requests, ReaderPcs, IdleJob, Jobs, JobPcs, IdleSwap, Swaps, TripletIds

(* A request's fields. *)
LEMMA RequestFields ==
  ASSUME NEW q \in Requests
  PROVE  /\ q.pc \in ReaderPcs /\ q.etag \in Versions /\ q.tri \in TripletIds
         /\ q.ver \in Versions /\ q.win \in {"none", "open", "last", "over"}
         /\ q.pc # "idle" => q.file \in Files
  BY DEF Requests

(* A request that moves on, and one whose window moves on. *)
LEMMA RequestMoves ==
  ASSUME NEW q \in Requests, NEW pc \in ReaderPcs, NEW win \in {"none", "open", "last", "over"},
         NEW tri \in TripletIds, NEW ver \in Versions
  PROVE  /\ [q EXCEPT !.win = win] \in Requests
         /\ q.pc # "idle" => /\ [q EXCEPT !.pc = pc] \in Requests
                             /\ [q EXCEPT !.pc = pc, !.win = win] \in Requests
                             /\ [q EXCEPT !.tri = tri, !.ver = ver, !.pc = pc] \in Requests
  BY DEF Requests

(* When a purge wait ends, the open windows of its triplet end, and nothing else
   happens to the requests. *)
LEMMA WaitOverSteps ==
  ASSUME rd \in [Readers -> Requests], NEW t \in TripletIds, PurgeWaitOver(t)
  PROVE  /\ rd' \in [Readers -> Requests]
         /\ \A r \in Readers :
              \/ rd'[r] = rd[r] /\ ~InWindow(r, t)
              \/ /\ InWindow(r, t) /\ rd'[r].win \in {"last", "over"}
                 /\ rd'[r].pc = rd[r].pc /\ rd'[r].file = rd[r].file
                 /\ rd'[r].tri = rd[r].tri /\ rd'[r].ver = rd[r].ver
<1>1. PICK late \in SUBSET {r \in Readers : InWindow(r, t)} :
        rd' = [r \in Readers |->
                 IF InWindow(r, t)
                 THEN [rd[r] EXCEPT !.win = IF r \in late THEN "last" ELSE "over"]
                 ELSE rd[r]]
  BY DEF PurgeWaitOver
<1>2. ASSUME NEW r \in Readers, NEW win \in {"last", "over"}
      PROVE  /\ [rd[r] EXCEPT !.win = win] \in Requests
             /\ [rd[r] EXCEPT !.win = win].win = win
             /\ [rd[r] EXCEPT !.win = win].pc = rd[r].pc
             /\ [rd[r] EXCEPT !.win = win].file = rd[r].file
             /\ [rd[r] EXCEPT !.win = win].tri = rd[r].tri
             /\ [rd[r] EXCEPT !.win = win].ver = rd[r].ver
  <2>1. rd[r] \in Requests
    OBVIOUS
  <2> QED
    BY <2>1 DEF Requests
<1>3. ASSUME NEW r \in Readers
      PROVE  /\ rd'[r] \in Requests
             /\ \/ rd'[r] = rd[r] /\ ~InWindow(r, t)
                \/ /\ InWindow(r, t) /\ rd'[r].win \in {"last", "over"}
                   /\ rd'[r].pc = rd[r].pc /\ rd'[r].file = rd[r].file
                   /\ rd'[r].tri = rd[r].tri /\ rd'[r].ver = rd[r].ver
  <2>1. rd'[r] = IF InWindow(r, t)
                 THEN [rd[r] EXCEPT !.win = IF r \in late THEN "last" ELSE "over"]
                 ELSE rd[r]
    BY <1>1, Zenon
  <2>2. CASE InWindow(r, t)
    <3>1. PICK win \in {"last", "over"} : win = IF r \in late THEN "last" ELSE "over"
      OBVIOUS
    <3>2. rd'[r] = [rd[r] EXCEPT !.win = win]
      BY <2>1, <2>2, <3>1
    <3>3. PICK q : q = [rd[r] EXCEPT !.win = win]
      OBVIOUS
    <3>4. /\ q \in Requests /\ q.win = win
          /\ q.pc = rd[r].pc /\ q.file = rd[r].file /\ q.tri = rd[r].tri /\ q.ver = rd[r].ver
      BY <1>2, <3>3, Zenon
    <3>5. rd'[r] = q
      BY <3>2, <3>3, Zenon
    <3> QED
      BY <2>2, <3>1, <3>4, <3>5
  <2>3. CASE ~InWindow(r, t)
    BY <2>1, <2>3
  <2> QED
    BY <2>2, <2>3
<1>4. rd' \in [Readers -> Requests]
  <2>1. rd' = [r \in Readers |-> rd'[r]]
    BY <1>1, Zenon
  <2> QED
    BY <1>3, <2>1, Zenon
<1> QED
  BY <1>3, <1>4, Zenon

(* Goto and Answer. *)
LEMMA GotoType ==
  ASSUME NEW r \in Readers, NEW pc \in ReaderPcs, rd \in [Readers -> Requests],
         (Goto(r, pc) /\ rd[r].pc # "idle") \/ Answer(r)
  PROVE  rd' \in [Readers -> Requests]
<1>1. CASE Goto(r, pc) /\ rd[r].pc # "idle"
  <2>1. rd' = [rd EXCEPT ![r] = [rd[r] EXCEPT !.pc = pc]]
    BY <1>1 DEF Goto
  <2>2. [rd[r] EXCEPT !.pc = pc] \in Requests
    <3>1. ASSUME NEW q \in Requests, q.pc # "idle"
          PROVE  [q EXCEPT !.pc = pc] \in Requests
      BY <3>1 DEF Requests
    <3> QED
      BY <1>1, <3>1
  <2> QED
    BY <2>1, <2>2
<1>2. CASE Answer(r)
  BY <1>2, IdleTypes DEF Answer
<1> QED
  BY <1>1, <1>2

(* A job's fields. *)
LEMMA JobFields ==
  ASSUME NEW j \in Jobs
  PROVE  /\ j.pc \in JobPcs /\ j.ver \in Versions /\ j.tri \in TripletIds
         /\ j.pc # "idle" => j.file \in Files
  BY DEF Jobs

(* A job that starts, and one that moves on. *)
LEMMA JobMoves ==
  ASSUME NEW j \in Jobs, NEW pc \in JobPcs, NEW f \in Files,
         NEW ver \in Versions, NEW tri \in TripletIds
  PROVE  /\ [j EXCEPT !.pc = pc, !.file = f] \in Jobs
         /\ j.pc # "idle" => /\ [j EXCEPT !.pc = pc] \in Jobs
                             /\ [j EXCEPT !.pc = pc, !.ver = ver] \in Jobs
                             /\ [j EXCEPT !.pc = pc, !.tri = tri] \in Jobs
  BY DEF Jobs

(* GotoJob, EndJob and AfterRollback. *)
LEMMA GotoJobType ==
  ASSUME NEW w \in Workers, NEW pc \in JobPcs, job \in [Workers -> Jobs],
         \/ GotoJob(w, pc) /\ job[w].pc # "idle"
         \/ EndJob(w)
         \/ AfterRollback(w)
  PROVE  job' \in [Workers -> Jobs]
<1>1. ASSUME NEW p \in JobPcs, GotoJob(w, p), job[w].pc # "idle"
      PROVE  job' \in [Workers -> Jobs]
  <2>1. job' = [job EXCEPT ![w] = [job[w] EXCEPT !.pc = p]]
    BY <1>1 DEF GotoJob
  <2>2. [job[w] EXCEPT !.pc = p] \in Jobs
    <3>1. ASSUME NEW j \in Jobs, j.pc # "idle"
          PROVE  [j EXCEPT !.pc = p] \in Jobs
      BY <3>1 DEF Jobs
    <3> QED
      BY <1>1, <3>1
  <2> QED
    BY <2>1, <2>2
<1>2. CASE EndJob(w)
  BY <1>2, IdleTypes DEF EndJob
<1>3. CASE AfterRollback(w)
  <2>1. "evict" \in JobPcs
    BY DEF JobPcs
  <2> QED
    BY <1>1, <1>2, <1>3, <2>1 DEF AfterRollback
<1> QED
  BY <1>1, <1>2, <1>3

(* The bytes of finitely many triplets are finitely many. *)
LEMMA SizeOnDiskType ==
  ASSUME NEW ids \in SUBSET Triplets, bin \in [Triplets -> Nat]
  PROVE  SizeOnDisk(ids) \in Nat
<1> DEFINE blobs(t) == {t} \X (1..bin[t])
           all == {blobs(t) : t \in ids}
<1>1. IsFiniteSet(ids)
  BY TripletsAssumption, FS_Subset
<1>2. IsFiniteSet(all)
  <2>1. [t \in ids |-> blobs(t)] \in Surjection(ids, all)
    BY DEF Surjection
  <2> QED
    BY <1>1, <2>1, FS_Surjection
<1>3. \A s \in all : IsFiniteSet(s)
  <2> SUFFICES ASSUME NEW t \in ids
               PROVE  IsFiniteSet(blobs(t))
    OBVIOUS
  <2>1. IsFiniteSet({t})
    BY FS_Singleton
  <2>2. bin[t] \in Nat
    OBVIOUS
  <2>3. IsFiniteSet(1..bin[t])
    BY <2>2, FS_Interval
  <2> QED
    BY <2>1, <2>3, FS_Product
<1>4. IsFiniteSet(UNION all)
  BY <1>2, <1>3, FS_UNION
<1> QED
  BY <1>4, FS_CardinalityType DEF SizeOnDisk

-----------------------------------------------------------------------------
(* Type correctness. *)

(* The process dies: TypeOK, and the state every later argument starts from. *)
LEMMA DieType ==
  ASSUME TypeOK, Die
  PROVE  TypeOK'
<1> USE DEF TypeOK, Die, diskVars
<1>1. rd' \in [Readers -> Requests] /\ job' \in [Workers -> Jobs] /\ swap' \in Swaps
  BY IdleTypes
<1>2. closed' \in LruCache /\ large' \in LruCache
  BY LruNewType
<1>3. wQueue' \in Seq(Files)
  OBVIOUS
<1>4. purge' \in [TripletIds -> {"no", "waiting", "ripe"}]
  OBVIOUS
<1>5. up' \in BOOLEAN
  OBVIOUS
<1> QED
  BY <1>1, <1>2, <1>3, <1>4, <1>5

(* The files of new triplets, and of removed ones. *)
LEMMA TripletFilesType ==
  ASSUME TypeOK, NEW ids \in SUBSET Triplets, NEW m \in {"open", "closed", "large"},
         CreateTriplets(ids, m) \/ DeleteTripletFilesOnDisk(ids)
  PROVE  /\ files' \subseteq Triplets
         /\ mode' \in [Triplets -> {"open", "closed", "large"}]
         /\ index' \in [Triplets -> SUBSET Blobs]
         /\ bin' \in [Triplets -> Nat]
<1>1. CASE CreateTriplets(ids, m)
  BY <1>1 DEF TypeOK, CreateTriplets
<1>2. CASE DeleteTripletFilesOnDisk(ids)
  BY <1>2 DEF TypeOK, DeleteTripletFilesOnDisk
<1> QED
  BY <1>1, <1>2

(* The steps of a request. *)
LEMMA ReaderTypes ==
  ASSUME TypeOK, NEW r \in Readers, ReaderStep(r)
  PROVE  TypeOK'
<1> USE DEF OnlyReaders, diskVars, pbhVars, gcVars
<1>1. {"create", "enqueue", "stale", "check", "get", "read"} \subseteq ReaderPcs
  BY DEF ReaderPcs
<1>2. rd \in [Readers -> Requests] /\ rd[r] \in Requests /\ MaxVersion \in Nat
  BY DEF TypeOK
<1>3. /\ rd[r].pc # "idle" => rd[r].file \in Files
      /\ rd[r].etag \in Versions /\ rd[r].tri \in TripletIds /\ rd[r].ver \in Versions
  BY <1>2, RequestFields
<1>4. CASE ListFails(r)
  <2>1. rd' \in [Readers -> Requests]
    BY <1>1, <1>2, <1>4, GotoType DEF ListFails
  <2> QED
    BY <1>4, <2>1 DEF ListFails, TypeOK
<1>5. CASE ListMiss(r)
  <2>1. rd' \in [Readers -> Requests]
    BY <1>1, <1>2, <1>5, GotoType DEF ListMiss, Reader
  <2> QED
    BY <1>5, <2>1 DEF ListMiss, TypeOK
<1>6. CASE ListPending(r)
  <2>1. rd' \in [Readers -> Requests]
    BY <1>1, <1>2, <1>6, GotoType DEF ListPending
  <2> QED
    BY <1>6, <2>1 DEF ListPending, TypeOK
<1>7. CASE ListReady(r)
  <2> DEFINE row == table[rd[r].file]
             pc == IF row.etag # rd[r].etag THEN "stale" ELSE "check"
             q == [rd[r] EXCEPT !.tri = row.tri, !.ver = row.ver, !.pc = pc]
  <2>1. rd[r].pc # "idle" /\ rd' = [rd EXCEPT ![r] = q]
    BY <1>2, <1>7 DEF ListReady, Reader
  <2>2. row \in Row
    BY <1>3, <2>1 DEF TypeOK, FilesTables
  <2>3. row.tri \in TripletIds /\ row.ver \in Versions /\ pc \in ReaderPcs
    BY <1>1, <2>2, RowFields
  <2> HIDE DEF row, pc
  <2>4. q \in Requests
    BY <1>2, <2>1, <2>3, RequestMoves
  <2> HIDE DEF q
  <2>5. rd' \in [Readers -> Requests]
    BY <1>2, <2>1, <2>4
  <2> QED
    BY <1>7, <2>5 DEF ListReady, TypeOK
<1>8. CASE CreateFileForCache(r)
  <2>1. rd' \in [Readers -> Requests] /\ rd[r].file \in Files
    BY <1>1, <1>2, <1>3, <1>8, GotoType DEF CreateFileForCache, Reader
  <2>2. table' \in FilesTables
    BY <1>2, <1>3, <1>8, <2>1, CreateType DEF CreateFileForCache, TypeOK
  <2> QED
    BY <1>8, <2>1, <2>2 DEF CreateFileForCache, TypeOK
<1>9. CASE CreateFails(r)
  <2>1. rd' \in [Readers -> Requests]
    BY <1>1, <1>2, <1>9, GotoType DEF CreateFails
  <2> QED
    BY <1>9, <2>1 DEF CreateFails, TypeOK
<1>10. CASE EnqueueWriteReq(r)
  <2>1. rd' \in [Readers -> Requests] /\ rd[r].file \in Files
    BY <1>1, <1>2, <1>3, <1>10, GotoType DEF EnqueueWriteReq, Reader
  <2>2. wQueue' \in Seq(Files)
    BY <1>10, <2>1 DEF EnqueueWriteReq, TypeOK
  <2>3. mtx' \in Readers \cup {NoReader}
    BY <1>10 DEF EnqueueWriteReq, TypeOK
  <2> QED
    BY <1>10, <2>1, <2>2, <2>3 DEF EnqueueWriteReq, TypeOK
<1>11. CASE MarkStale(r)
  <2>1. rd' \in [Readers -> Requests] /\ rd[r].file \in Files
    BY <1>1, <1>2, <1>3, <1>11, GotoType DEF MarkStale, Reader
  <2>2. table' \in FilesTables
    BY <1>3, <1>11, <2>1, UpdateType DEF MarkStale, TypeOK
  <2> QED
    BY <1>11, <2>1, <2>2 DEF MarkStale, TypeOK
<1>12. CASE MarkStaleFails(r)
  <2>1. rd' \in [Readers -> Requests]
    BY <1>1, <1>2, <1>12, GotoType DEF MarkStaleFails, Reader
  <2> QED
    BY <1>12, <2>1 DEF MarkStaleFails, TypeOK
<1>13. CASE CheckWindow(r)
  <2> DEFINE q == [rd[r] EXCEPT !.pc = "get", !.win = "none"]
  <2>1. rd[r].pc # "idle" /\ rd' = [rd EXCEPT ![r] = q]
    BY <1>2, <1>13 DEF CheckWindow, Reader
  <2>2. q \in Requests
    <3>1. ASSUME NEW p \in Requests, p.pc # "idle"
          PROVE  [p EXCEPT !.pc = "get", !.win = "none"] \in Requests
      BY <1>1, <3>1, <1>3, RequestMoves
    <3> QED
      BY <1>2, <2>1, <3>1
  <2> HIDE DEF q
  <2>3. rd' \in [Readers -> Requests]
    BY <1>2, <2>1, <2>2
  <2> QED
    BY <1>13, <2>3 DEF CheckWindow, TypeOK
<1>14. CASE CheckLate(r)
  <2>1. rd' \in [Readers -> Requests]
    BY <1>1, <1>2, <1>14, GotoType DEF CheckLate
  <2> QED
    BY <1>14, <2>1 DEF CheckLate, TypeOK
<1>15. CASE Get(r)
  <2>1. rd[r].pc # "idle" /\ (Goto(r, "read") \/ Answer(r))
    BY <1>15 DEF Get, Reader
  <2>2. rd' \in [Readers -> Requests]
    BY <1>1, <1>2, <2>1, GotoType
  <2>3. closed' \in LruCache /\ large' \in LruCache
    BY <1>15, LruGetType DEF Get, TypeOK
  <2> QED
    BY <1>15, <2>2, <2>3 DEF Get, TypeOK
<1>16. CASE ReadBlob(r)
  <2>1. rd' \in [Readers -> Requests]
    BY <1>1, <1>2, <1>16, GotoType DEF ReadBlob
  <2> QED
    BY <1>16, <2>1 DEF ReadBlob, TypeOK
<1>17. CASE ReadBlobFatal(r)
  BY <1>17, DieType DEF ReadBlobFatal
<1> QED
  BY <1>4, <1>5, <1>6, <1>7, <1>8, <1>9, <1>10, <1>11, <1>12, <1>13, <1>14, <1>15,
     <1>16, <1>17 DEF ReaderStep

(* The steps of a goroutine of the batch. *)
LEMMA WorkerTypes ==
  ASSUME TypeOK, NEW w \in Workers, WorkerStep(w)
  PROVE  TypeOK'
<1> USE DEF OnlyJobs, diskVars, pbhVars, gcVars
<1>1. {"admit", "pick", "resolve", "bin", "idx", "seal", "failed", "full", "evict"}
        \subseteq JobPcs
  BY DEF JobPcs
<1>2. job \in [Workers -> Jobs] /\ job[w] \in Jobs
  BY DEF TypeOK
<1>3. /\ job[w].pc # "idle" => job[w].file \in Files
      /\ job[w].ver \in Versions /\ job[w].tri \in TripletIds
  BY <1>2, JobFields
<1>4. ASSUME NEW pc \in JobPcs, NEW tri \in TripletIds, job[w].pc # "idle",
             job' = [job EXCEPT ![w].pc = pc, ![w].tri = tri]
      PROVE  job' \in [Workers -> Jobs]
  <2> DEFINE j == [job[w] EXCEPT !.pc = pc, !.tri = tri]
  <2>1. job' = [job EXCEPT ![w] = j]
    BY <1>2, <1>4
  <2>2. j \in Jobs
    <3>1. ASSUME NEW i \in Jobs, i.pc # "idle"
          PROVE  [i EXCEPT !.pc = pc, !.tri = tri] \in Jobs
      BY <3>1, <1>4 DEF Jobs
    <3> QED
      BY <1>2, <1>4, <3>1
  <2> HIDE DEF j
  <2> QED
    BY <1>2, <2>1, <2>2
<1>5. CASE DownLoad(w)
  <2> DEFINE v == origin[job[w].file]
             j == [job[w] EXCEPT !.pc = "admit", !.ver = v]
  <2>1. job[w].pc # "idle" /\ job' = [job EXCEPT ![w] = j]
    BY <1>2, <1>5 DEF DownLoad, Worker
  <2>2. v \in Versions
    BY <1>3, <2>1 DEF TypeOK
  <2> HIDE DEF v
  <2>3. j \in Jobs
    <3>1. ASSUME NEW i \in Jobs, i.pc # "idle"
          PROVE  [i EXCEPT !.pc = "admit", !.ver = v] \in Jobs
      BY <1>1, <2>2, <3>1 DEF Jobs
    <3> QED
      BY <1>2, <2>1, <3>1
  <2> HIDE DEF j
  <2>4. job' \in [Workers -> Jobs]
    BY <1>2, <2>1, <2>3
  <2> QED
    BY <1>5, <2>4 DEF DownLoad, TypeOK
<1>6. CASE FetchFails(w)
  <2>1. job' \in [Workers -> Jobs]
    BY <1>1, <1>2, <1>6, GotoJobType DEF FetchFails, Worker
  <2> QED
    BY <1>6, <2>1 DEF FetchFails, TypeOK
<1>7. CASE DownLoadPanics(w)
  BY <1>7, DieType DEF DownLoadPanics
<1>8. CASE Admit(w)
  <2>1. job' \in [Workers -> Jobs]
    BY <1>1, <1>2, <1>8, GotoJobType DEF Admit, Worker
  <2>2. total' \in Int
    BY <1>8 DEF Admit, TypeOK
  <2> QED
    BY <1>8, <2>1, <2>2 DEF Admit, TypeOK
<1>9. CASE CacheFull(w)
  <2>1. job' \in [Workers -> Jobs]
    BY <1>1, <1>2, <1>9, GotoJobType DEF CacheFull, Worker
  <2> QED
    BY <1>9, <2>1 DEF CacheFull, TypeOK
<1>10. CASE PutLarge(w)
  <2>1. PICK t \in Triplets : /\ CreateTriplets({t}, "large")
                              /\ large' = LruPut(large, t)
                              /\ job' = [job EXCEPT ![w].pc = "bin", ![w].tri = t]
    BY <1>10 DEF PutLarge
  <2>2. job' \in [Workers -> Jobs]
    BY <1>1, <1>4, <1>10, <2>1 DEF PutLarge, Worker, TripletIds
  <2>3. large' \in LruCache
    BY <2>1, LruPutType DEF TypeOK
  <2>4. /\ files' \subseteq Triplets
        /\ mode' \in [Triplets -> {"open", "closed", "large"}]
        /\ index' \in [Triplets -> SUBSET Blobs]
        /\ bin' \in [Triplets -> Nat]
    BY <2>1, TripletFilesType
  <2>5. pQueue' \subseteq TripletIds /\ doomed' \subseteq TripletIds
    BY <2>1 DEF CreateTriplets, TypeOK
  <2> QED
    BY <1>10, <2>2, <2>3, <2>4, <2>5 DEF PutLarge, TypeOK
<1>11. CASE PickOpen(w)
  <2>1. job' \in [Workers -> Jobs]
    BY <1>1, <1>4, <1>11 DEF PickOpen, Worker, TypeOK, TripletIds
  <2> QED
    BY <1>11, <2>1 DEF PickOpen, TypeOK
<1>12. CASE ResolvePick(w)
  <2>1. job' \in [Workers -> Jobs]
    BY <1>1, <1>2, <1>12, GotoJobType DEF ResolvePick, Worker
  <2> QED
    BY <1>12, <2>1 DEF ResolvePick, TypeOK
<1>13. CASE ResolvePanics(w)
  BY <1>13, DieType DEF ResolvePanics
<1>14. CASE PutBin(w)
  <2>1. job' \in [Workers -> Jobs]
    BY <1>1, <1>2, <1>14, GotoJobType DEF PutBin, Worker
  <2>2. bin' \in [Triplets -> Nat]
    <3>1. ASSUME NEW t
          PROVE  [bin EXCEPT ![t] = @ + 1] \in [Triplets -> Nat]
      <4>1. bin \in [Triplets -> Nat]
        BY DEF TypeOK
      <4>2. CASE t \in Triplets
        BY <4>1, <4>2
      <4>3. CASE t \notin Triplets
        BY <4>1, <4>3
      <4> QED
        BY <4>2, <4>3
    <3> QED
      BY <1>14, <3>1 DEF PutBin
  <2> QED
    BY <1>14, <2>1, <2>2 DEF PutBin, TypeOK
<1>15. CASE PutIdx(w)
  <2>1. job' \in [Workers -> Jobs] /\ job[w].file \in Files
    BY <1>1, <1>2, <1>3, <1>15, GotoJobType DEF PutIdx, Worker
  <2>2. <<job[w].file, job[w].ver>> \in Blobs
    BY <1>3, <2>1 DEF Blobs
  <2>3. index' \in [Triplets -> SUBSET Blobs]
    BY <1>15, <2>2 DEF PutIdx, TypeOK
  <2> QED
    BY <1>15, <2>1, <2>3 DEF PutIdx, TypeOK
<1>16. CASE PutIdxFails(w)
  <2>1. job' \in [Workers -> Jobs]
    BY <1>1, <1>2, <1>16, GotoJobType DEF PutIdxFails, Worker
  <2>2. total' \in Int
    BY <1>16 DEF PutIdxFails, TypeOK
  <2> QED
    BY <1>16, <2>1, <2>2 DEF PutIdxFails, TypeOK
<1>17. CASE SealFileAtCache(w)
  <2>1. job' \in [Workers -> Jobs] /\ job[w].file \in Files
    BY <1>1, <1>2, <1>3, <1>17, GotoJobType DEF SealFileAtCache, Worker
  <2>2. table' \in FilesTables
    BY <1>3, <1>17, <2>1, CommitType DEF SealFileAtCache, TypeOK
  <2> QED
    BY <1>17, <2>1, <2>2 DEF SealFileAtCache, TypeOK
<1>18. CASE SealFails(w)
  <2>1. job' \in [Workers -> Jobs]
    BY <1>1, <1>2, <1>18, GotoJobType DEF SealFails, Worker
  <2> QED
    BY <1>18, <2>1 DEF SealFails, TypeOK
<1>19. CASE RollbackFileInDB(w)
  <2>1. job' \in [Workers -> Jobs]
    BY <1>1, <1>2, <1>19, GotoJobType DEF RollbackFileInDB
  <2>2. table' \in FilesTables
    BY <1>19, DeleteWhereType DEF RollbackFileInDB, DeletePendingFileWithFIdInDB, TypeOK
  <2> QED
    BY <1>19, <2>1, <2>2 DEF RollbackFileInDB, TypeOK
<1>20. CASE RollbackFails(w)
  <2>1. job' \in [Workers -> Jobs]
    BY <1>1, <1>2, <1>20, GotoJobType DEF RollbackFails
  <2> QED
    BY <1>20, <2>1 DEF RollbackFails, TypeOK
<1>21. ASSUME DropVictim
      PROVE  closed' \in LruCache /\ large' \in LruCache
  BY <1>21, LruDropTailType DEF DropVictim, TypeOK
<1>22. Victim \in TripletIds
  BY LruDropTailType DEF Victim, TypeOK
<1>23. CASE EnqueueDeletionReq(w)
  <2>1. job' \in [Workers -> Jobs]
    BY <1>1, <1>2, <1>23, GotoJobType DEF EnqueueDeletionReq
  <2>2. table' \in FilesTables
    BY <1>23, DeleteWhereType DEF EnqueueDeletionReq, DeleteFileWithTripleIdInDB, TypeOK
  <2>3. rd' \in [Readers -> Requests]
    <3>1. \A r \in Readers : rd[r] \in Requests /\ [rd[r] EXCEPT !.win = "open"] \in Requests
      <4>1. ASSUME NEW q \in Requests
            PROVE  [q EXCEPT !.win = "open"] \in Requests
        BY DEF Requests
      <4> QED
        BY <4>1 DEF TypeOK
    <3> QED
      BY <1>23, <3>1 DEF EnqueueDeletionReq
  <2>4. purge' \in [TripletIds -> {"no", "waiting", "ripe"}]
    BY <1>23 DEF EnqueueDeletionReq, TypeOK
  <2>5. pQueue' \subseteq TripletIds /\ doomed' \subseteq TripletIds
    BY <1>22, <1>23 DEF EnqueueDeletionReq, TypeOK
  <2>6. closed' \in LruCache /\ large' \in LruCache
    BY <1>21, <1>23 DEF EnqueueDeletionReq
  <2> QED
    BY <1>23, <2>1, <2>2, <2>3, <2>4, <2>5, <2>6 DEF EnqueueDeletionReq, TypeOK
<1>24. CASE EvictNothing(w)
  <2>1. job' \in [Workers -> Jobs]
    BY <1>1, <1>2, <1>24, GotoJobType DEF EvictNothing, Worker
  <2> QED
    BY <1>24, <2>1 DEF EvictNothing, TypeOK
<1>25. CASE EvictFails(w)
  <2>1. job' \in [Workers -> Jobs]
    BY <1>1, <1>2, <1>25, GotoJobType DEF EvictFails
  <2>2. closed' \in LruCache /\ large' \in LruCache
    BY <1>21, <1>25 DEF EvictFails
  <2> QED
    BY <1>25, <2>1, <2>2 DEF EvictFails, TypeOK
<1> QED
  BY <1>5, <1>6, <1>7, <1>8, <1>9, <1>10, <1>11, <1>12, <1>13, <1>14, <1>15, <1>16,
     <1>17, <1>18, <1>19, <1>20, <1>23, <1>24, <1>25 DEF WorkerStep

(* The swapper's steps. *)
LEMMA SwapTypes ==
  ASSUME TypeOK, SwapStep
  PROVE  TypeOK'
<1> USE DEF diskVars, pbhVars, gcVars
<1>1. CASE ScanOpenTriplets
  <2> DEFINE full == {t \in open : bin[t] > CloseAt}
  <2>1. PICK ids \in SUBSET Triplets :
          /\ CreateTriplets(ids, "open")
          /\ swap' = [pc |-> "publish", fresh |-> ids, old |-> full, cur |-> NoTriplet]
    BY <1>1 DEF ScanOpenTriplets
  <2>2. full \in SUBSET Triplets
    BY DEF TypeOK
  <2>3. swap' \in Swaps
    BY <2>1, <2>2 DEF Swaps, TripletIds
  <2>4. /\ files' \subseteq Triplets
        /\ mode' \in [Triplets -> {"open", "closed", "large"}]
        /\ index' \in [Triplets -> SUBSET Blobs]
        /\ bin' \in [Triplets -> Nat]
    BY <2>1, TripletFilesType
  <2>5. pQueue' \subseteq TripletIds /\ doomed' \subseteq TripletIds
    BY <2>1 DEF CreateTriplets, TypeOK
  <2> QED
    BY <1>1, <2>3, <2>4, <2>5 DEF ScanOpenTriplets, TypeOK
<1>2. CASE PublishTriplets
  <2>1. swap' \in Swaps /\ open' \subseteq Triplets
    BY <1>2 DEF PublishTriplets, TypeOK, Swaps
  <2> QED
    BY <1>2, <2>1 DEF PublishTriplets, TypeOK
<1>3. ASSUME NEW t \in Triplets, CloseTriplet(t)
      PROVE  TypeOK'
  <2>1. swap' \in Swaps
    BY <1>3 DEF CloseTriplet, TypeOK, Swaps, TripletIds
  <2>2. closed' \in LruCache
    BY <1>3, LruPutType DEF CloseTriplet, TypeOK
  <2> QED
    BY <1>3, <2>1, <2>2 DEF CloseTriplet, TypeOK
<1>4. CASE RetireTriplet
  <2>1. swap' \in Swaps
    <3>1. [swap EXCEPT !.pc = "close", !.old = @ \ {swap.cur}, !.cur = NoTriplet] \in Swaps
      BY DEF TypeOK, Swaps, TripletIds
    <3> QED
      BY <1>4, <3>1, IdleTypes DEF RetireTriplet
  <2>2. open' \subseteq Triplets
    BY <1>4 DEF RetireTriplet, TypeOK
  <2>3. mode' \in [Triplets -> {"open", "closed", "large"}]
    BY <1>4 DEF RetireTriplet, TypeOK
  <2> QED
    BY <1>4, <2>1, <2>2, <2>3 DEF RetireTriplet, TypeOK
<1>5. CASE RetirePanics
  BY <1>5, DieType DEF RetirePanics
<1> QED
  BY <1>1, <1>2, <1>3, <1>4, <1>5 DEF SwapStep

(* A start of the process. *)
LEMMA RestartType ==
  ASSUME TypeOK, Restart
  PROVE  TypeOK'
<1> DEFINE tbl == DeleteAllPendingFileInDB(table)
           owners == ListTripleIdOfAllFiles(tbl) \cap Triplets
           kept == owners \cap files
           Loaded(m) == {t \in owners : StateLoaded(kept)[t] = m}
<1>1. PICK new \in IF Loaded("open") = {} THEN {{t} : t \in Triplets \ owners} ELSE {{}},
           c \in Orders(Loaded("closed")), l \in Orders(Loaded("large")) :
        /\ up' = TRUE
        /\ table' = tbl
        /\ files' = owners \cup new
        /\ mode' = StateLoaded(kept)
        /\ index' = [t \in Triplets |-> IF t \in kept THEN index[t] ELSE {}]
        /\ bin' = [t \in Triplets |-> IF t \in (files \ owners) \cup new THEN 0 ELSE bin[t]]
        /\ open' = Loaded("open") \cup new
        /\ closed' = LruLoaded(c, Cardinality(Loaded("closed")))
        /\ large' = LruLoaded(l, Cardinality(Loaded("large")))
        /\ total' = SizeOnDisk(kept)
        /\ doomed' = doomed \cap owners
  BY DEF Restart
<1>2. tbl \in FilesTables
  BY DeleteWhereType DEF DeleteAllPendingFileInDB, TypeOK
<1>3. owners \in SUBSET Triplets /\ kept \in SUBSET Triplets
  OBVIOUS
<1>4. ASSUME NEW m, NEW s \in Orders(Loaded(m))
      PROVE  LruLoaded(s, Cardinality(Loaded(m))) \in LruCache
  <2> DEFINE ids == Loaded(m)
             n == Cardinality(ids)
  <2>1. ids \subseteq Triplets /\ s \in [1..n -> ids]
    BY <1>4 DEF Orders
  <2>2. n \in Nat
    BY <2>1, TripletsAssumption, FS_Subset, FS_CardinalityType
  <2> HIDE DEF ids, n
  <2>3. s \in [1..n -> Triplets]
    BY <2>1
  <2> QED
    BY <2>2, <2>3, LruLoadedType DEF ids, n
<1>5. closed' \in LruCache /\ large' \in LruCache
  BY <1>1, <1>4
<1>6. total' \in Int
  <2>1. SizeOnDisk(kept) \in Nat
    <3>1. bin \in [Triplets -> Nat]
      BY DEF TypeOK
    <3> HIDE DEF kept
    <3> QED
      BY <1>3, <3>1, SizeOnDiskType
  <2> QED
    BY <1>1, <2>1
<1> HIDE DEF tbl
<1>7. new \subseteq Triplets
  BY <1>1
<1>8. mode' \in [Triplets -> {"open", "closed", "large"}]
  BY <1>1 DEF StateLoaded, TypeOK
<1>9. index' \in [Triplets -> SUBSET Blobs] /\ bin' \in [Triplets -> Nat]
  BY <1>1 DEF TypeOK
<1>10. files' \subseteq Triplets /\ open' \subseteq Triplets /\ doomed' \subseteq TripletIds
  BY <1>1, <1>3, <1>7 DEF TypeOK
<1>11. up' \in BOOLEAN
  BY <1>1
<1>12. table' \in FilesTables
  BY <1>1, <1>2
<1>13. UNCHANGED <<origin, mtx, rd, wQueue, job, swap, purge, pQueue, sweep>>
  BY DEF Restart
<1> HIDE DEF owners, kept, Loaded
<1> QED
  BY <1>5, <1>6, <1>8, <1>9, <1>10, <1>11, <1>12, <1>13 DEF TypeOK

(* The queue, the clocks and the origin. *)
LEMMA LoopTypes ==
  ASSUME TypeOK,
         \/ Kill \/ LoopBatchWrite \/ LoopGarbageCollection
         \/ \E r \in Readers, f \in Files : HttpRead(r, f)
         \/ \E t \in TripletIds : PurgeWaitOver(t) \/ PurgeTriplet(t)
         \/ \E f \in Files : OriginUpdate(f)
  PROVE  TypeOK'
<1> USE DEF diskVars, pbhVars, gcVars
<1>1. CASE Kill
  BY <1>1, DieType DEF Kill
<1>2. CASE LoopBatchWrite
  <2> DEFINE n == Smaller(BatchSize, Len(wQueue))
             j(w) == [IdleJob EXCEPT !.pc = "fetch", !.file = wQueue[w]]
  <2>1. wQueue \in Seq(Files) /\ n \in Nat /\ n <= Len(wQueue)
    BY DEF TypeOK, Smaller
  <2>2. wQueue' \in Seq(Files)
    <3>1. Len(wQueue) \in Int /\ \A i \in n + 1 .. Len(wQueue) : wQueue[i] \in Files
      BY <2>1
    <3>2. SubSeq(wQueue, n + 1, Len(wQueue)) \in Seq(Files)
      BY <2>1, <3>1, SubSeqProperties
    <3> QED
      BY <1>2, <3>2 DEF LoopBatchWrite
  <2>3. ASSUME NEW w \in Workers, w <= n
        PROVE  j(w) \in Jobs
    <3>1. wQueue[w] \in Files
      BY <2>1, <2>3 DEF Workers
    <3>2. "fetch" \in JobPcs
      BY DEF JobPcs
    <3>3. \A f \in Files : [IdleJob EXCEPT !.pc = "fetch", !.file = f] \in Jobs
      BY <3>2, IdleTypes, ZeroVersion, JobMoves, JobFields
    <3> QED
      BY <3>1, <3>3
  <2>4. job' = [w \in Workers |-> IF w <= n THEN j(w) ELSE IdleJob]
    BY <1>2 DEF LoopBatchWrite
  <2> HIDE DEF n, j
  <2>5. job' \in [Workers -> Jobs]
    BY <2>3, <2>4, IdleTypes
  <2> QED
    BY <1>2, <2>2, <2>5 DEF LoopBatchWrite, TypeOK
<1>3. CASE LoopGarbageCollection
  <2>1. purge' \in [TripletIds -> {"no", "waiting", "ripe"}] /\ sweep' \subseteq TripletIds
    BY <1>3 DEF LoopGarbageCollection, TypeOK
  <2> QED
    BY <1>3, <2>1 DEF LoopGarbageCollection, TypeOK
<1>4. ASSUME NEW r \in Readers, NEW f \in Files, HttpRead(r, f)
      PROVE  TypeOK'
  <2> DEFINE q == [IdleReader EXCEPT !.pc = "list", !.file = f, !.etag = origin[f]]
  <2>1. q \in Requests
    <3>1. ASSUME NEW p \in Requests, NEW e \in Versions
          PROVE  [p EXCEPT !.pc = "list", !.file = f, !.etag = e] \in Requests
      BY DEF Requests, ReaderPcs
    <3>2. origin[f] \in Versions
      BY DEF TypeOK
    <3> QED
      BY <3>1, <3>2, IdleTypes
  <2>2. rd' = [rd EXCEPT ![r] = q]
    BY <1>4 DEF HttpRead
  <2> HIDE DEF q
  <2>3. rd' \in [Readers -> Requests]
    BY <2>1, <2>2 DEF TypeOK
  <2> QED
    BY <1>4, <2>3 DEF HttpRead, OnlyReaders, TypeOK
<1>5. ASSUME NEW t \in TripletIds, PurgeWaitOver(t)
      PROVE  TypeOK'
  <2>1. rd' \in [Readers -> Requests]
    BY <1>5, WaitOverSteps DEF TypeOK
  <2>2. purge' \in [TripletIds -> {"no", "waiting", "ripe"}]
    BY <1>5 DEF PurgeWaitOver, TypeOK
  <2> QED
    BY <1>5, <2>1, <2>2 DEF PurgeWaitOver, TypeOK
<1>6. ASSUME NEW t \in TripletIds, PurgeTriplet(t)
      PROVE  TypeOK'
  <2>1. closed' \in LruCache /\ large' \in LruCache
    BY <1>6, LruDeleteType DEF PurgeTriplet, TypeOK
  <2>2. SizeOnDisk({t} \cap Triplets) \in Nat
    BY SizeOnDiskType DEF TypeOK
  <2>3. total' \in Int
    BY <1>6, <2>2 DEF PurgeTriplet, TypeOK
  <2>4. /\ files' \subseteq Triplets
        /\ mode' \in [Triplets -> {"open", "closed", "large"}]
        /\ index' \in [Triplets -> SUBSET Blobs]
        /\ bin' \in [Triplets -> Nat]
    BY <1>6 DEF PurgeTriplet, DeleteTripletFilesOnDisk, TypeOK
  <2>5. sweep' \subseteq TripletIds
    BY <1>6 DEF PurgeTriplet, TypeOK
  <2> QED
    BY <1>6, <2>1, <2>3, <2>4, <2>5 DEF PurgeTriplet, TypeOK
<1>7. ASSUME NEW f \in Files, OriginUpdate(f)
      PROVE  TypeOK'
  <2>1. origin' \in [Files -> Versions]
    BY <1>7 DEF OriginUpdate, TypeOK, Versions
  <2> QED
    BY <1>7, <2>1 DEF OriginUpdate, TypeOK
<1> QED
  BY <1>1, <1>2, <1>3, <1>4, <1>5, <1>6, <1>7

(* TypeOK holds initially and every step keeps it. *)
LEMMA InitType == Init => TypeOK
<1> SUFFICES ASSUME Init
             PROVE  TypeOK
  OBVIOUS
<1> USE DEF Init
<1>1. rd \in [Readers -> Requests] /\ job \in [Workers -> Jobs] /\ swap \in Swaps
  BY IdleTypes
<1>2. closed \in LruCache /\ large \in LruCache
  BY LruNewType
<1>3. origin \in [Files -> Versions] /\ table \in FilesTables
  BY ZeroVersion, EmptyTableType
<1>4. up \in BOOLEAN
  OBVIOUS
<1>5. wQueue \in Seq(Files) /\ purge \in [TripletIds -> {"no", "waiting", "ripe"}]
  OBVIOUS
<1>6. /\ mode \in [Triplets -> {"open", "closed", "large"}]
      /\ index \in [Triplets -> SUBSET Blobs] /\ bin \in [Triplets -> Nat]
  OBVIOUS
<1> QED
  BY <1>1, <1>2, <1>3, <1>4, <1>5, <1>6 DEF TypeOK

(* TypeOK is inductive as it stands. *)
LEMMA NextType == TypeOK /\ [Next]_vars => TypeOK'
<1> SUFFICES ASSUME TypeOK, [Next]_vars
             PROVE  TypeOK'
  OBVIOUS
<1>1. CASE UNCHANGED vars
  BY <1>1 DEF TypeOK, vars, diskVars, pbhVars, gcVars
<1>2. CASE Next
  BY <1>2, RestartType, ReaderTypes, WorkerTypes, SwapTypes, LoopTypes DEF Next
<1> QED
  BY <1>1, <1>2

(* The server keeps its types, for every value of the constants: in particular
   each LRU list points at nodes only, and an eviction returns a triplet's id
   or the empty key. *)
THEOREM TypeCorrect == Spec => []TypeOK
<1> QED
  BY InitType, NextType, PTL DEF Spec

-----------------------------------------------------------------------------
(* What a step may do to the jobs of the batch. *)

(* Outside loopBatchWrite no goroutine starts, and none changes its file. *)
LEMMA JobsKeepTheirFiles ==
  ASSUME TypeOK, [Next]_vars, ~LoopBatchWrite, NEW w \in Workers, job'[w].pc # "idle"
  PROVE  job[w].pc # "idle" /\ job'[w].file = job[w].file
<1> USE DEF diskVars, pbhVars, gcVars
<1>1. job \in [Workers -> Jobs]
  BY DEF TypeOK
<1>2. ASSUME Die
      PROVE  job'[w].pc = "idle"
  BY <1>2 DEF Die, IdleJob
<1>3. ASSUME NEW v \in Workers, NEW pc, GotoJob(v, pc), job[v].pc # "idle"
      PROVE  job[w].pc # "idle" /\ job'[w].file = job[w].file
  BY <1>1, <1>3 DEF GotoJob, Jobs
<1>4. ASSUME NEW v \in Workers, EndJob(v)
      PROVE  job[w].pc # "idle" /\ job'[w].file = job[w].file
  BY <1>1, <1>4 DEF EndJob, IdleJob
<1>5. ASSUME NEW v \in Workers, NEW pc, NEW tri, job[v].pc # "idle",
             job' = [job EXCEPT ![v].pc = pc, ![v].tri = tri]
      PROVE  job[w].pc # "idle" /\ job'[w].file = job[w].file
  BY <1>1, <1>5 DEF Jobs
<1>6. CASE UNCHANGED job
  BY <1>6
<1>7. ASSUME NEW r \in Readers, ReaderStep(r)
      PROVE  UNCHANGED job \/ Die
  BY <1>7 DEF ReaderStep, OnlyReaders, ListFails, ListMiss, ListPending, ListReady,
     CreateFileForCache, CreateFails, EnqueueWriteReq, MarkStale, MarkStaleFails,
     CheckWindow, CheckLate, Get, ReadBlob, ReadBlobFatal
<1>8. CASE SwapStep
  BY <1>2, <1>6, <1>8 DEF SwapStep, ScanOpenTriplets, PublishTriplets, CloseTriplet,
     RetireTriplet, RetirePanics
<1>9. ASSUME NEW v \in Workers, WorkerStep(v)
      PROVE  job[w].pc # "idle" /\ job'[w].file = job[w].file
  <2>1. CASE DownLoad(v)
    BY <1>1, <2>1 DEF DownLoad, Worker, Jobs
  <2>2. CASE FetchFails(v) \/ SealFileAtCache(v) \/ SealFails(v) \/ EnqueueDeletionReq(v)
             \/ EvictNothing(v) \/ EvictFails(v)
    BY <1>4, <2>2 DEF FetchFails, SealFileAtCache, SealFails, EnqueueDeletionReq,
       EvictNothing, EvictFails
  <2>3. CASE DownLoadPanics(v) \/ ResolvePanics(v)
    BY <1>2, <2>3 DEF DownLoadPanics, ResolvePanics
  <2>4. CASE Admit(v) \/ CacheFull(v) \/ ResolvePick(v) \/ PutBin(v) \/ PutIdx(v)
             \/ PutIdxFails(v)
    BY <1>3, <2>4 DEF Admit, CacheFull, ResolvePick, PutBin, PutIdx, PutIdxFails, Worker
  <2>5. CASE PutLarge(v) \/ PickOpen(v)
    <3>1. \E pc, t : job' = [job EXCEPT ![v].pc = pc, ![v].tri = t]
      BY <2>5 DEF PutLarge, PickOpen
    <3>2. job[v].pc # "idle"
      BY <2>5 DEF PutLarge, PickOpen, Worker
    <3> QED
      BY <1>5, <3>1, <3>2
  <2>6. CASE RollbackFileInDB(v) \/ RollbackFails(v)
    BY <1>3, <1>4, <2>6 DEF RollbackFileInDB, RollbackFails, AfterRollback, Worker
  <2> QED
    BY <1>9, <2>1, <2>2, <2>3, <2>4, <2>5, <2>6 DEF WorkerStep
<1>10. CASE UNCHANGED vars
  BY <1>6, <1>10 DEF vars
<1> QED
  BY <1>2, <1>6, <1>7, <1>8, <1>9, <1>10 DEF Next, Restart, Kill, HttpRead, OnlyReaders,
     PurgeWaitOver, LoopGarbageCollection, PurgeTriplet, OriginUpdate

(* The queue grows at its end, by a file that is not in it. *)
LEMMA QueueSteps ==
  ASSUME TypeOK, [Next]_vars, ~LoopBatchWrite
  PROVE  \/ wQueue' = wQueue
         \/ Die
         \/ \E f \in Files : f \notin Queued /\ wQueue' = Append(wQueue, f)
<1> USE DEF diskVars, pbhVars, gcVars
<1>1. ASSUME NEW r \in Readers, ReaderStep(r), ~EnqueueWriteReq(r)
      PROVE  wQueue' = wQueue \/ Die
  BY <1>1 DEF ReaderStep, OnlyReaders, ListFails, ListMiss, ListPending, ListReady,
     CreateFileForCache, CreateFails, MarkStale, MarkStaleFails,
     CheckWindow, CheckLate, Get, ReadBlob, ReadBlobFatal
<1>2. ASSUME NEW r \in Readers, EnqueueWriteReq(r)
      PROVE  \/ wQueue' = wQueue
             \/ \E f \in Files : f \notin Queued /\ wQueue' = Append(wQueue, f)
  <2>1. rd[r].file \in Files
    BY <1>2, RequestFields DEF EnqueueWriteReq, Reader, TypeOK
  <2> QED
    BY <1>2, <2>1 DEF EnqueueWriteReq
<1>3. ASSUME NEW w \in Workers, WorkerStep(w)
      PROVE  wQueue' = wQueue \/ Die
  BY <1>3 DEF WorkerStep, OnlyJobs, DownLoad, FetchFails, DownLoadPanics, Admit, CacheFull,
     PutLarge, PickOpen, ResolvePick, ResolvePanics, PutBin, PutIdx, PutIdxFails,
     SealFileAtCache, SealFails, RollbackFileInDB, RollbackFails, EnqueueDeletionReq,
     EvictNothing, EvictFails
<1>4. ASSUME SwapStep
      PROVE  wQueue' = wQueue \/ Die
  BY <1>4 DEF SwapStep, ScanOpenTriplets, PublishTriplets, CloseTriplet, RetireTriplet,
     RetirePanics
<1>5. CASE UNCHANGED vars
  BY <1>5 DEF vars
<1> QED
  BY <1>1, <1>2, <1>3, <1>4, <1>5 DEF Next, Restart, Kill, HttpRead, OnlyReaders,
     PurgeWaitOver, LoopGarbageCollection, PurgeTriplet, OriginUpdate

-----------------------------------------------------------------------------
(* No file is downloaded twice at once. *)

(* A batch takes a prefix of a queue without duplicates, when no goroutine of
   the batch before is left. *)
LEMMA BatchNoDuplicate ==
  ASSUME TypeOK, NoDuplicateDownload, LoopBatchWrite
  PROVE  NoDuplicateDownload'
<1> DEFINE n == Smaller(BatchSize, Len(wQueue))
           q == SubSeq(wQueue, n + 1, Len(wQueue))
<1>1. wQueue \in Seq(Files) /\ n \in Nat /\ n <= Len(wQueue) /\ n <= BatchSize
  BY ServerAssumption DEF TypeOK, Smaller
<1>2. wQueue' = q
  BY DEF LoopBatchWrite
<1>3. /\ q \in Seq(Files)
      /\ Len(q) = Len(wQueue) - n
      /\ \A i \in 1..Len(wQueue) - n : q[i] = wQueue[i + n]
  <2> HIDE DEF n
  <2>1. n + 1 \in Int /\ Len(wQueue) \in Int
    BY <1>1
  <2>2. \A i \in n + 1 .. Len(wQueue) : wQueue[i] \in Files
    BY <1>1
  <2>3. /\ q \in Seq(Files)
        /\ Len(q) = IF n + 1 <= Len(wQueue) THEN Len(wQueue) - (n + 1) + 1 ELSE 0
        /\ \A i \in 1..Len(wQueue) - (n + 1) + 1 : q[i] = wQueue[n + 1 + i - 1]
    BY <2>1, <2>2, SubSeqProperties
  <2> QED
    BY <1>1, <2>1, <2>3
<1>4. job' = [w \in Workers |->
                IF w <= n THEN [IdleJob EXCEPT !.pc = "fetch", !.file = wQueue[w]]
                ELSE IdleJob]
  BY DEF LoopBatchWrite
<1>5. \A w \in Workers : job'[w].pc # "idle" => w <= n /\ job'[w].file = wQueue[w]
  <2> HIDE DEF n
  <2> QED
    BY <1>4 DEF IdleJob
<1> HIDE DEF n, q
<1>6. ASSUME NEW i \in DOMAIN wQueue', NEW j \in DOMAIN wQueue', wQueue'[i] = wQueue'[j]
      PROVE  i = j
  <2>1. i \in 1..Len(wQueue) - n /\ j \in 1..Len(wQueue) - n
    BY <1>1, <1>2, <1>3, <1>6
  <2>2. i + n \in DOMAIN wQueue /\ j + n \in DOMAIN wQueue
    BY <1>1, <2>1
  <2>3. wQueue[i + n] = wQueue[j + n]
    BY <1>2, <1>3, <1>6, <2>1
  <2>4. i + n = j + n
    BY <2>2, <2>3 DEF NoDuplicateDownload
  <2> QED
    BY <1>1, <2>1, <2>4
<1>7. ASSUME NEW v \in Workers, NEW w \in Workers, job'[v].pc # "idle", job'[w].pc # "idle",
             job'[v].file = job'[w].file
      PROVE  v = w
  <2>1. v \in DOMAIN wQueue /\ w \in DOMAIN wQueue
    BY <1>1, <1>5, <1>7 DEF Workers
  <2> QED
    BY <1>5, <1>7, <2>1 DEF NoDuplicateDownload
<1> QED
  BY <1>6, <1>7 DEF NoDuplicateDownload

(* The queue and the goroutines at work name each file once: the property is
   inductive together with TypeOK. *)
THEOREM NoDuplicates == Spec => []NoDuplicateDownload
<1>1. Init => NoDuplicateDownload
  BY DEF Init, NoDuplicateDownload, IdleJob
<1>2. TypeOK /\ NoDuplicateDownload /\ [Next]_vars => NoDuplicateDownload'
  <2> SUFFICES ASSUME TypeOK, NoDuplicateDownload, [Next]_vars, ~LoopBatchWrite
               PROVE  NoDuplicateDownload'
    BY BatchNoDuplicate
  <2>1. wQueue \in Seq(Files)
    BY DEF TypeOK
  <2>2. ASSUME NEW i \in DOMAIN wQueue', NEW j \in DOMAIN wQueue', wQueue'[i] = wQueue'[j]
        PROVE  i = j
    <3>1. CASE wQueue' = wQueue
      BY <2>2, <3>1 DEF NoDuplicateDownload
    <3>2. CASE Die
      BY <2>2, <3>2 DEF Die
    <3>3. ASSUME NEW f \in Files, f \notin Queued, wQueue' = Append(wQueue, f)
          PROVE  i = j
      <4>1. DOMAIN wQueue' = 1..Len(wQueue) + 1 /\ DOMAIN wQueue = 1..Len(wQueue)
        BY <2>1, <3>3
      <4>2. \A k \in DOMAIN wQueue : wQueue'[k] = wQueue[k] /\ wQueue[k] # f
        BY <2>1, <3>3 DEF Queued
      <4>3. wQueue'[Len(wQueue) + 1] = f
        BY <2>1, <3>3
      <4> QED
        BY <2>1, <2>2, <4>1, <4>2, <4>3 DEF NoDuplicateDownload
    <3> QED
      BY <3>1, <3>2, <3>3, QueueSteps
  <2>3. ASSUME NEW v \in Workers, NEW w \in Workers, job'[v].pc # "idle",
               job'[w].pc # "idle", job'[v].file = job'[w].file
        PROVE  v = w
    BY <2>3, JobsKeepTheirFiles DEF NoDuplicateDownload
  <2> QED
    BY <2>2, <2>3 DEF NoDuplicateDownload
<1> QED
  BY <1>1, <1>2, TypeCorrect, PTL DEF Spec

-----------------------------------------------------------------------------
(* A process that is down has no goroutines. *)

Down ==
    ~up => /\ rd = [r \in Readers |-> IdleReader] /\ mtx = NoReader
           /\ wQueue = <<>> /\ job = [w \in Workers |-> IdleJob]
           /\ open = {} /\ swap = IdleSwap
           /\ purge = [t \in TripletIds |-> "no"] /\ pQueue = {} /\ sweep = {}

(* Every step of a goroutine needs the process; a step that leaves it down is
   its death, or happens outside it. *)
LEMMA StepsWhileDown ==
  ASSUME Down, [Next]_vars, ~up'
  PROVE  \/ Die
         \/ /\ UNCHANGED <<table, diskVars, up, mtx, rd, wQueue, job, pbhVars, gcVars>>
            /\ ~up
<1> USE DEF diskVars, pbhVars, gcVars
<1>1. ASSUME NEW r \in Readers, ReaderStep(r)
      PROVE  Die
  BY <1>1 DEF ReaderStep, OnlyReaders, ListFails, ListMiss, ListPending, ListReady,
     CreateFileForCache, CreateFails, EnqueueWriteReq, MarkStale, MarkStaleFails,
     CheckWindow, CheckLate, Get, ReadBlob, ReadBlobFatal, Reader
<1>2. ASSUME NEW w \in Workers, WorkerStep(w)
      PROVE  Die
  BY <1>2 DEF WorkerStep, OnlyJobs, DownLoad, FetchFails, DownLoadPanics, Admit, CacheFull,
     PutLarge, PickOpen, ResolvePick, ResolvePanics, PutBin, PutIdx, PutIdxFails,
     SealFileAtCache, SealFails, RollbackFileInDB, RollbackFails, EnqueueDeletionReq,
     EvictNothing, EvictFails, Worker
<1>3. ASSUME SwapStep
      PROVE  Die
  <2>1. CASE ScanOpenTriplets
    BY <2>1 DEF ScanOpenTriplets, SwapAt
  <2>2. CASE PublishTriplets
    BY <2>2 DEF PublishTriplets, SwapAt
  <2>3. ASSUME NEW t \in Triplets, CloseTriplet(t)
        PROVE  Die
    BY <2>3 DEF CloseTriplet, SwapAt
  <2>4. CASE RetireTriplet
    BY <2>4 DEF RetireTriplet, SwapAt
  <2> QED
    BY <1>3, <2>1, <2>2, <2>3, <2>4 DEF SwapStep, RetirePanics
<1>4. ASSUME NEW t \in TripletIds, PurgeWaitOver(t) \/ PurgeTriplet(t)
      PROVE  FALSE
  BY <1>4 DEF PurgeWaitOver, PurgeTriplet, Down
<1>5. ASSUME NEW f \in Files, OriginUpdate(f)
      PROVE  /\ UNCHANGED <<table, diskVars, up, mtx, rd, wQueue, job, pbhVars, gcVars>>
             /\ ~up
  BY <1>5 DEF OriginUpdate
<1>6. CASE UNCHANGED vars
  BY <1>6 DEF vars
<1> QED
  BY <1>1, <1>2, <1>3, <1>4, <1>5, <1>6 DEF Next, Restart, Kill, HttpRead, OnlyReaders,
     Reader, LoopBatchWrite, LoopGarbageCollection

(* Down is inductive. *)
LEMMA DownStays == Down /\ [Next]_vars => Down'
<1> SUFFICES ASSUME Down, [Next]_vars, ~up'
             PROVE  Down'
  BY DEF Down
<1>1. CASE Die
  BY <1>1 DEF Down, Die
<1>2. CASE /\ UNCHANGED <<table, diskVars, up, mtx, rd, wQueue, job, pbhVars, gcVars>>
           /\ ~up
  BY <1>2 DEF Down, pbhVars, gcVars
<1> QED
  BY <1>1, <1>2, StepsWhileDown

-----------------------------------------------------------------------------
(* What an eviction has chosen: everything queued for purging, or being purged. *)

PurgedAreDoomed == pQueue \subseteq doomed /\ sweep \subseteq doomed

(* New ids for triplets: nothing refers to them. *)
LEMMA CreateKeepsDoomed ==
  ASSUME PurgedAreDoomed, NEW ids \in SUBSET Triplets, NEW m, CreateTriplets(ids, m),
         \A t \in ids : Fresh(t), UNCHANGED sweep
  PROVE  PurgedAreDoomed'
  BY DEF PurgedAreDoomed, CreateTriplets, Fresh

(* PurgedAreDoomed is inductive together with Down. *)
LEMMA DoomedStays ==
  ASSUME Down, PurgedAreDoomed, [Next]_vars
  PROVE  PurgedAreDoomed'
<1> USE DEF diskVars, pbhVars, gcVars
<1>1. ASSUME Die
      PROVE  PurgedAreDoomed'
  BY <1>1 DEF Die, PurgedAreDoomed
<1>2. ASSUME UNCHANGED <<pQueue, sweep, doomed>>
      PROVE  PurgedAreDoomed'
  BY <1>2 DEF PurgedAreDoomed
<1>3. ASSUME NEW r \in Readers, ReaderStep(r)
      PROVE  PurgedAreDoomed'
  BY <1>1, <1>2, <1>3 DEF ReaderStep, OnlyReaders, ListFails, ListMiss, ListPending,
     ListReady, CreateFileForCache, CreateFails, EnqueueWriteReq, MarkStale,
     MarkStaleFails, CheckWindow, CheckLate, Get, ReadBlob, ReadBlobFatal
<1>4. ASSUME NEW w \in Workers, WorkerStep(w)
      PROVE  PurgedAreDoomed'
  <2>1. CASE EnqueueDeletionReq(w)
    BY <2>1 DEF EnqueueDeletionReq, PurgedAreDoomed
  <2>2. CASE PutLarge(w)
    <3>1. PICK t \in Triplets : Fresh(t) /\ CreateTriplets({t}, "large")
      BY <2>2 DEF PutLarge
    <3>2. UNCHANGED sweep
      BY <2>2 DEF PutLarge
    <3> QED
      BY <3>1, <3>2, CreateKeepsDoomed
  <2> QED
    BY <1>1, <1>2, <1>4, <2>1, <2>2 DEF WorkerStep, OnlyJobs, DownLoad, FetchFails,
       DownLoadPanics, Admit, CacheFull, PickOpen, ResolvePick, ResolvePanics, PutBin,
       PutIdx, PutIdxFails, SealFileAtCache, SealFails, RollbackFileInDB, RollbackFails,
       EvictNothing, EvictFails
<1>5. ASSUME SwapStep
      PROVE  PurgedAreDoomed'
  <2>1. CASE ScanOpenTriplets
    <3>1. PICK ids \in SUBSET Triplets :
            (\A t \in ids : Fresh(t)) /\ CreateTriplets(ids, "open")
      BY <2>1 DEF ScanOpenTriplets
    <3>2. UNCHANGED sweep
      BY <2>1 DEF ScanOpenTriplets
    <3> QED
      BY <3>1, <3>2, CreateKeepsDoomed
  <2> QED
    BY <1>1, <1>2, <1>5, <2>1 DEF SwapStep, PublishTriplets, CloseTriplet, RetireTriplet,
       RetirePanics
<1>6. CASE Restart
  <2>1. pQueue' = {} /\ sweep' = {}
    BY <1>6 DEF Restart, Down
  <2> QED
    BY <2>1 DEF PurgedAreDoomed
<1>7. CASE LoopGarbageCollection
  BY <1>7 DEF LoopGarbageCollection, PurgedAreDoomed
<1>8. ASSUME NEW t \in TripletIds, PurgeTriplet(t)
      PROVE  PurgedAreDoomed'
  BY <1>8 DEF PurgeTriplet, PurgedAreDoomed
<1>9. CASE UNCHANGED vars
  BY <1>2, <1>9 DEF vars
<1> QED
  BY <1>1, <1>2, <1>3, <1>4, <1>5, <1>6, <1>7, <1>8, <1>9 DEF Next, Kill, HttpRead,
     OnlyReaders, LoopBatchWrite, PurgeWaitOver, OriginUpdate

-----------------------------------------------------------------------------
(* A blob that was written stays until its triplet is chosen by an eviction. *)

(* The id is in use: the table, a goroutine or the cache knows it. *)
InUse(t) ==
    \/ \E f \in Files : t \in {table[f].owner, table[f].tri}
    \/ \E w \in Workers : job[w].tri = t

(* New ids are not those in use. *)
LEMMA CreateKeepsBacked ==
  ASSUME TypeOK, NEW ids \in SUBSET Triplets, NEW m, CreateTriplets(ids, m),
         \A t \in ids : Fresh(t),
         NEW f, NEW v, NEW t \in Triplets, InUse(t), Backed(f, v, t)
  PROVE  Backed(f, v, t)'
<1>1. t \notin ids
  BY DEF InUse, Fresh
<1> QED
  BY <1>1 DEF TypeOK, CreateTriplets, Backed

(* Outside a start of the process, a blob in a triplet that is in use stays. *)
LEMMA BackedStays ==
  ASSUME TypeOK, PurgedAreDoomed, [Next]_vars, ~Restart,
         NEW f, NEW v, NEW t \in Triplets, InUse(t), Backed(f, v, t)
  PROVE  Backed(f, v, t)'
<1> USE DEF diskVars, pbhVars, gcVars
<1>1. ASSUME UNCHANGED <<files, index, doomed>>
      PROVE  Backed(f, v, t)'
  BY <1>1 DEF Backed
<1>2. ASSUME Die
      PROVE  Backed(f, v, t)'
  BY <1>1, <1>2 DEF Die
<1>3. ASSUME NEW r \in Readers, ReaderStep(r)
      PROVE  Backed(f, v, t)'
  BY <1>1, <1>2, <1>3 DEF ReaderStep, OnlyReaders, ListFails, ListMiss, ListPending,
     ListReady, CreateFileForCache, CreateFails, EnqueueWriteReq, MarkStale,
     MarkStaleFails, CheckWindow, CheckLate, Get, ReadBlob, ReadBlobFatal
<1>4. ASSUME NEW w \in Workers, WorkerStep(w)
      PROVE  Backed(f, v, t)'
  <2>1. CASE EnqueueDeletionReq(w)
    BY <2>1 DEF EnqueueDeletionReq, Backed
  <2>2. CASE PutLarge(w)
    <3>1. PICK u \in Triplets : Fresh(u) /\ CreateTriplets({u}, "large")
      BY <2>2 DEF PutLarge
    <3> QED
      BY <3>1, CreateKeepsBacked
  <2>3. CASE PutIdx(w)
    BY <2>3 DEF PutIdx, Backed, TypeOK
  <2> QED
    BY <1>1, <1>2, <1>4, <2>1, <2>2, <2>3 DEF WorkerStep, OnlyJobs, DownLoad, FetchFails,
       DownLoadPanics, Admit, CacheFull, PickOpen, ResolvePick, ResolvePanics, PutBin,
       PutIdxFails, SealFileAtCache, SealFails, RollbackFileInDB, RollbackFails,
       EvictNothing, EvictFails
<1>5. ASSUME SwapStep
      PROVE  Backed(f, v, t)'
  <2>1. CASE ScanOpenTriplets
    <3>1. PICK ids \in SUBSET Triplets :
            (\A u \in ids : Fresh(u)) /\ CreateTriplets(ids, "open")
      BY <2>1 DEF ScanOpenTriplets
    <3> QED
      BY <3>1, CreateKeepsBacked
  <2> QED
    BY <1>1, <1>2, <1>5, <2>1 DEF SwapStep, PublishTriplets, CloseTriplet, RetireTriplet,
       RetirePanics
<1>6. ASSUME NEW u \in TripletIds, PurgeTriplet(u)
      PROVE  Backed(f, v, t)'
  <2>1. u \in doomed /\ UNCHANGED doomed
    BY <1>6 DEF PurgeTriplet, PurgedAreDoomed
  <2>2. CASE t = u
    BY <2>1, <2>2 DEF Backed
  <2>3. CASE t # u
    BY <1>6, <2>1, <2>3 DEF PurgeTriplet, DeleteTripletFilesOnDisk, Backed
  <2> QED
    BY <2>2, <2>3
<1>7. CASE UNCHANGED vars
  BY <1>1, <1>7 DEF vars
<1> QED
  BY <1>1, <1>2, <1>3, <1>4, <1>5, <1>6, <1>7 DEF Next, Kill, HttpRead, OnlyReaders,
     LoopBatchWrite, PurgeWaitOver, OriginUpdate, LoopGarbageCollection

-----------------------------------------------------------------------------
(* READY rows. *)

(* Only a commit makes a row READY, and it writes owner and token together. *)
LEMMA ReadyRowSteps ==
  ASSUME TypeOK, [Next]_vars, NEW f \in Files, table'[f].state = "ready"
  PROVE  \/ table'[f] = table[f]
         \/ \E w \in Workers : /\ SealFileAtCache(w)
                               /\ job[w].pc = "seal" /\ job[w].file = f
                               /\ table'[f].owner = job[w].tri
                               /\ table'[f].tri = job[w].tri
                               /\ table'[f].ver = job[w].ver
<1> USE DEF diskVars, pbhVars, gcVars
<1>1. table \in [Files -> Row] /\ table[f] \in Row
  BY DEF TypeOK, FilesTables
<1>2. CASE UNCHANGED table
  BY <1>2
<1>3. ASSUME NEW gone, table' = DeleteWhere(table, gone)
      PROVE  table'[f] = table[f]
  BY <1>3 DEF DeleteWhere, NoRow
<1>4. ASSUME NEW r \in Readers, ReaderStep(r)
      PROVE  table'[f] = table[f]
  <2>1. CASE CreateFileForCache(r)
    BY <1>1, <2>1 DEF CreateFileForCache, CreateFileWithFidInDB, NoRow
  <2>2. CASE MarkStale(r)
    BY <1>1, <2>2 DEF MarkStale, UpdateFilemetaAndStateInDB, Row
  <2> QED
    BY <1>2, <1>4, <2>1, <2>2 DEF ReaderStep, Die, OnlyReaders, ListFails, ListMiss,
       ListPending, ListReady, CreateFails, EnqueueWriteReq, MarkStaleFails, CheckWindow,
       CheckLate, Get, ReadBlob, ReadBlobFatal
<1>5. ASSUME NEW w \in Workers, WorkerStep(w), ~SealFileAtCache(w)
      PROVE  table'[f] = table[f]
  BY <1>2, <1>3, <1>5 DEF WorkerStep, Die, OnlyJobs, DownLoad, FetchFails, DownLoadPanics,
     Admit, CacheFull, PutLarge, PickOpen, ResolvePick, ResolvePanics, PutBin, PutIdx,
     PutIdxFails, SealFails, RollbackFileInDB, RollbackFails, EnqueueDeletionReq,
     EvictNothing, EvictFails, DeletePendingFileWithFIdInDB, DeleteFileWithTripleIdInDB
<1>6. ASSUME NEW w \in Workers, SealFileAtCache(w)
      PROVE  \/ table'[f] = table[f]
             \/ /\ job[w].pc = "seal" /\ job[w].file = f
                /\ table'[f].owner = job[w].tri
                /\ table'[f].tri = job[w].tri
                /\ table'[f].ver = job[w].ver
  <2>1. CASE job[w].file = f
    <3>1. table' = CommitCacheFileInDB(table, f, job[w].tri, job[w].ver) /\ job[w].pc = "seal"
      BY <1>6, <2>1 DEF SealFileAtCache, Worker
    <3>2. table'[f] = [table[f] EXCEPT !.state = "ready", !.owner = job[w].tri,
                                       !.tri = job[w].tri, !.ver = job[w].ver]
      BY <1>1, <3>1 DEF CommitCacheFileInDB
    <3> QED
      BY <1>1, <2>1, <3>1, <3>2 DEF Row
  <2>2. CASE job[w].file # f
    BY <1>1, <1>6, <2>2 DEF SealFileAtCache, CommitCacheFileInDB
  <2> QED
    BY <2>1, <2>2
<1>7. CASE SwapStep
  BY <1>2, <1>7 DEF SwapStep, Die, ScanOpenTriplets, PublishTriplets, CloseTriplet,
     RetireTriplet, RetirePanics
<1>8. CASE Restart
  BY <1>3, <1>8 DEF Restart, DeleteAllPendingFileInDB
<1>9. CASE UNCHANGED vars
  BY <1>2, <1>9 DEF vars
<1> QED
  BY <1>2, <1>4, <1>5, <1>6, <1>7, <1>8, <1>9 DEF Next, Die, Kill, HttpRead, OnlyReaders,
     LoopBatchWrite, PurgeWaitOver, LoopGarbageCollection, PurgeTriplet, OriginUpdate

(* A goroutine gets to its commit by listing its blob in the triplet's index. *)
LEMMA SealSteps ==
  ASSUME TypeOK, [Next]_vars, NEW w \in Workers, job'[w].pc = "seal"
  PROVE  \/ job'[w] = job[w]
         \/ /\ job'[w].file = job[w].file /\ job'[w].ver = job[w].ver
            /\ job'[w].tri = job[w].tri
            /\ job[w].tri \in files /\ files' = files
            /\ <<job[w].file, job[w].ver>> \in index'[job[w].tri]
<1> USE DEF diskVars, pbhVars, gcVars
<1>1. job \in [Workers -> Jobs] /\ job[w] \in Jobs
  BY DEF TypeOK
<1>2. CASE UNCHANGED job
  BY <1>2
<1>3. ASSUME Die \/ LoopBatchWrite
      PROVE  FALSE
  <2>1. CASE Die
    BY <2>1 DEF Die, IdleJob
  <2>2. CASE LoopBatchWrite
    <3> DEFINE n == Smaller(BatchSize, Len(wQueue))
    <3>1. job' = [v \in Workers |->
                    IF v <= n THEN [IdleJob EXCEPT !.pc = "fetch", !.file = wQueue[v]]
                    ELSE IdleJob]
      BY <2>2 DEF LoopBatchWrite
    <3> HIDE DEF n
    <3> QED
      BY <3>1 DEF IdleJob
  <2> QED
    BY <1>3, <2>1, <2>2
<1>4. ASSUME NEW v \in Workers, NEW pc, GotoJob(v, pc), pc # "seal"
      PROVE  job'[w] = job[w]
  BY <1>1, <1>4 DEF GotoJob, Jobs
<1>5. ASSUME NEW v \in Workers, EndJob(v)
      PROVE  job'[w] = job[w]
  BY <1>1, <1>5 DEF EndJob, IdleJob
<1>6. ASSUME NEW v \in Workers, NEW pc, NEW tri, pc # "seal",
             job' = [job EXCEPT ![v].pc = pc, ![v].tri = tri]
      PROVE  job'[w] = job[w]
  BY <1>1, <1>6 DEF Jobs
<1>7. ASSUME NEW r \in Readers, ReaderStep(r)
      PROVE  UNCHANGED job \/ Die
  BY <1>7 DEF ReaderStep, OnlyReaders, ListFails, ListMiss, ListPending, ListReady,
     CreateFileForCache, CreateFails, EnqueueWriteReq, MarkStale, MarkStaleFails,
     CheckWindow, CheckLate, Get, ReadBlob, ReadBlobFatal
<1>8. ASSUME NEW v \in Workers, WorkerStep(v), ~PutIdx(v)
      PROVE  job'[w] = job[w]
  <2>1. CASE DownLoad(v)
    BY <1>1, <2>1 DEF DownLoad, Jobs
  <2>2. CASE FetchFails(v) \/ SealFileAtCache(v) \/ SealFails(v) \/ EnqueueDeletionReq(v)
             \/ EvictNothing(v) \/ EvictFails(v)
    BY <1>5, <2>2 DEF FetchFails, SealFileAtCache, SealFails, EnqueueDeletionReq,
       EvictNothing, EvictFails
  <2>3. CASE DownLoadPanics(v) \/ ResolvePanics(v)
    BY <1>3, <2>3 DEF DownLoadPanics, ResolvePanics
  <2>4. CASE Admit(v) \/ CacheFull(v) \/ ResolvePick(v) \/ PutBin(v) \/ PutIdxFails(v)
    BY <1>4, <2>4 DEF Admit, CacheFull, ResolvePick, PutBin, PutIdxFails
  <2>5. CASE PutLarge(v) \/ PickOpen(v)
    <3>1. \E pc, t : pc # "seal" /\ job' = [job EXCEPT ![v].pc = pc, ![v].tri = t]
      BY <2>5 DEF PutLarge, PickOpen
    <3> QED
      BY <1>6, <3>1
  <2>6. CASE RollbackFileInDB(v) \/ RollbackFails(v)
    BY <1>4, <1>5, <2>6 DEF RollbackFileInDB, RollbackFails, AfterRollback
  <2> QED
    BY <1>8, <2>1, <2>2, <2>3, <2>4, <2>5, <2>6 DEF WorkerStep
<1>9. ASSUME NEW v \in Workers, PutIdx(v)
      PROVE  \/ job'[w] = job[w]
             \/ /\ job'[w].file = job[w].file /\ job'[w].ver = job[w].ver
                /\ job'[w].tri = job[w].tri
                /\ job[w].tri \in files /\ files' = files
                /\ <<job[w].file, job[w].ver>> \in index'[job[w].tri]
  <2>1. CASE v # w
    BY <1>1, <1>9, <2>1 DEF PutIdx, GotoJob
  <2>2. CASE v = w
    <3>1. job' = [job EXCEPT ![w] = [job[w] EXCEPT !.pc = "seal"]]
      BY <1>9, <2>2 DEF PutIdx, GotoJob
    <3>2. job'[w].file = job[w].file /\ job'[w].ver = job[w].ver /\ job'[w].tri = job[w].tri
      BY <1>1, <3>1 DEF Jobs
    <3>3. job[w].tri \in files /\ files' = files /\ files \subseteq Triplets
      BY <1>9, <2>2 DEF PutIdx, TypeOK
    <3>4. <<job[w].file, job[w].ver>> \in index'[job[w].tri]
      BY <1>9, <2>2, <3>3 DEF PutIdx, TypeOK
    <3> QED
      BY <3>2, <3>3, <3>4
  <2> QED
    BY <2>1, <2>2
<1>10. CASE SwapStep
  BY <1>2, <1>3, <1>10 DEF SwapStep, ScanOpenTriplets, PublishTriplets, CloseTriplet,
     RetireTriplet, RetirePanics
<1>11. CASE UNCHANGED vars
  BY <1>2, <1>11 DEF vars
<1> QED
  BY <1>2, <1>3, <1>7, <1>8, <1>9, <1>10, <1>11 DEF Next, Restart, Kill, HttpRead,
     OnlyReaders, PurgeWaitOver, LoopGarbageCollection, PurgeTriplet, OriginUpdate

(* What a commit is about to promise holds already. *)
SealBacked ==
    \A w \in Workers : job[w].pc = "seal" =>
        job[w].tri \in Triplets /\ Backed(job[w].file, job[w].ver, job[w].tri)

ReadyInTriplet == \A f \in Files : table[f].state = "ready" => table[f].tri \in Triplets

BackedInv ==
    TypeOK /\ Down /\ PurgedAreDoomed /\ SealBacked /\ ReadyInTriplet /\ ReadyRowBacked

(* A start of the process keeps READY rows and every triplet a row owns: only
   the files of the others go, and an id it takes as new had none. *)
LEMMA RestartKeepsBacked ==
  ASSUME TypeOK, Restart, NEW f \in Files, table'[f].state = "ready",
         NEW v, NEW t \in Triplets, table[f].owner = t, Backed(f, v, t)
  PROVE  table'[f] = table[f] /\ Backed(f, v, t)'
<1> DEFINE tbl == DeleteAllPendingFileInDB(table)
           owners == ListTripleIdOfAllFiles(tbl) \cap Triplets
<1>1. table' = tbl
  BY DEF Restart
<1>2. table'[f] = table[f]
  BY <1>1 DEF DeleteAllPendingFileInDB, DeleteWhere, NoRow
<1>3. t \in owners
  BY <1>1, <1>2 DEF ListTripleIdOfAllFiles
<1>4. /\ doomed' = doomed \cap owners
      /\ owners \subseteq files'
      /\ index' = [u \in Triplets |-> IF u \in owners \cap files THEN index[u] ELSE {}]
  BY DEF Restart
<1> HIDE DEF owners
<1>5. Backed(f, v, t)'
  BY <1>3, <1>4 DEF Backed
<1> QED
  BY <1>2, <1>5

(* BackedInv is inductive. *)
LEMMA BackedAlways == Spec => []BackedInv
<1>1. Init => BackedInv
  <2> SUFFICES ASSUME Init
               PROVE  BackedInv
    OBVIOUS
  <2>1. TypeOK
    BY InitType
  <2>2. \A f \in Files : table[f].state # "ready"
    BY DEF Init, EmptyTable, NoRow
  <2>3. \A w \in Workers : job[w].pc # "seal"
    BY DEF Init, IdleJob
  <2>4. Down /\ PurgedAreDoomed
    BY DEF Init, Down, PurgedAreDoomed
  <2> QED
    BY <2>1, <2>2, <2>3, <2>4 DEF BackedInv, SealBacked, ReadyInTriplet, ReadyRowBacked
<1>2. BackedInv /\ [Next]_vars => BackedInv'
  <2> SUFFICES ASSUME BackedInv, [Next]_vars
               PROVE  BackedInv'
    OBVIOUS
  <2>1. TypeOK /\ Down /\ PurgedAreDoomed /\ SealBacked /\ ReadyInTriplet /\ ReadyRowBacked
    BY DEF BackedInv
  <2>2. TypeOK' /\ Down' /\ PurgedAreDoomed'
    BY <2>1, NextType, DownStays, DoomedStays
  <2>3. CASE Restart
    <3>1. \A w \in Workers : job'[w].pc = "idle"
      BY <2>1, <2>3 DEF Restart, Down, IdleJob
    <3>2. ASSUME NEW f \in Files, table'[f].state = "ready"
          PROVE  /\ table'[f].tri \in Triplets /\ table'[f].owner = table'[f].tri
                 /\ Backed(f, table[f].ver, table[f].tri)'
      <4>1. table'[f] = table[f]
        BY <2>3, <3>2 DEF Restart, DeleteAllPendingFileInDB, DeleteWhere, NoRow
      <4>2. PICK v, t : v = table[f].ver /\ t = table[f].tri
        OBVIOUS
      <4>3. t \in Triplets /\ table[f].owner = t /\ Backed(f, v, t)
        BY <2>1, <3>2, <4>1, <4>2 DEF ReadyInTriplet, ReadyRowBacked
      <4>4. Backed(f, v, t)'
        BY <2>1, <2>3, <3>2, <4>3, RestartKeepsBacked
      <4> QED
        BY <4>1, <4>2, <4>3, <4>4
    <3> QED
      BY <2>2, <3>1, <3>2 DEF BackedInv, SealBacked, ReadyInTriplet, ReadyRowBacked
  <2>4. CASE ~Restart
    <3>1. ASSUME NEW w \in Workers, job'[w].pc = "seal"
          PROVE  job'[w].tri \in Triplets
                 /\ Backed(job[w].file, job[w].ver, job[w].tri)'
      <4>1. PICK f, v, t : f = job[w].file /\ v = job[w].ver /\ t = job[w].tri
        OBVIOUS
      <4>2. CASE job'[w] = job[w]
        <5>1. t \in Triplets /\ Backed(f, v, t) /\ InUse(t)
          BY <2>1, <3>1, <4>1, <4>2 DEF SealBacked, InUse
        <5>2. Backed(f, v, t)'
          BY <2>1, <2>4, <5>1, BackedStays
        <5> QED
          BY <4>1, <4>2, <5>1, <5>2
      <4>3. CASE job'[w] # job[w]
        <5>1. /\ job'[w].file = f /\ job'[w].ver = v /\ job'[w].tri = t
              /\ t \in files /\ files' = files /\ <<f, v>> \in index'[t]
          BY <2>1, <3>1, <4>1, <4>3, SealSteps
        <5>2. t \in Triplets
          BY <2>1, <5>1 DEF TypeOK
        <5>3. Backed(f, v, t)'
          BY <5>1 DEF Backed
        <5> QED
          BY <5>1, <5>2, <5>3
      <4> QED
        BY <4>2, <4>3
    <3>2. ASSUME NEW f \in Files, table'[f].state = "ready"
          PROVE  /\ table'[f].tri \in Triplets /\ table'[f].owner = table'[f].tri
                 /\ Backed(f, table[f].ver, table[f].tri)'
      <4>1. CASE table'[f] = table[f]
        <5>1. PICK v, t : v = table[f].ver /\ t = table[f].tri
          OBVIOUS
        <5>2. t \in Triplets /\ table[f].owner = t /\ Backed(f, v, t) /\ InUse(t)
          BY <2>1, <3>2, <4>1, <5>1 DEF ReadyInTriplet, ReadyRowBacked, InUse
        <5>3. Backed(f, v, t)'
          BY <2>1, <2>4, <5>2, BackedStays
        <5> QED
          BY <4>1, <5>1, <5>2, <5>3
      <4>2. ASSUME NEW w \in Workers, job[w].pc = "seal", job[w].file = f,
                   table'[f].owner = job[w].tri, table'[f].tri = job[w].tri,
                   table'[f].ver = job[w].ver
            PROVE  /\ table'[f].tri \in Triplets /\ table'[f].owner = table'[f].tri
                   /\ Backed(f, table[f].ver, table[f].tri)'
        <5>1. PICK v, t : v = job[w].ver /\ t = job[w].tri
          OBVIOUS
        <5>2. t \in Triplets /\ Backed(f, v, t) /\ InUse(t)
          BY <2>1, <4>2, <5>1 DEF SealBacked, InUse
        <5>3. Backed(f, v, t)'
          BY <2>1, <2>4, <5>2, BackedStays
        <5> QED
          BY <4>2, <5>1, <5>2, <5>3
      <4> QED
        BY <2>1, <3>2, <4>1, <4>2, ReadyRowSteps
    <3> QED
      BY <2>2, <3>1, <3>2 DEF BackedInv, SealBacked, ReadyInTriplet, ReadyRowBacked
  <2> QED
    BY <2>3, <2>4
<1> QED
  BY <1>1, <1>2, PTL DEF Spec

(* A READY row is backed by its triplet, through swaps, purges, crashes and
   restarts: no step between the write of a blob and its commit, and none
   after it, takes the blob away unless an eviction chose its triplet. *)
THEOREM ReadyRowsBacked == Spec => []ReadyRowBacked
<1>1. BackedInv => ReadyRowBacked
  BY DEF BackedInv
<1> QED
  BY <1>1, BackedAlways, PTL

-----------------------------------------------------------------------------
(* A request creates the row it found missing. *)

(* A row appears only by the INSERT of a request. *)
LEMMA AbsentRowSteps ==
  ASSUME TypeOK, [Next]_vars, NEW f \in Files, table[f].state = "absent"
  PROVE  \/ table'[f].state = "absent"
         \/ \E r \in Readers : CreateFileForCache(r)
<1> USE DEF diskVars, pbhVars, gcVars
<1>1. table \in [Files -> Row] /\ table[f] \in Row
  BY DEF TypeOK, FilesTables
<1>2. CASE UNCHANGED table
  BY <1>2
<1>3. ASSUME NEW gone, table' = DeleteWhere(table, gone)
      PROVE  table'[f].state = "absent"
  BY <1>3 DEF DeleteWhere, NoRow
<1>4. ASSUME NEW r \in Readers, ReaderStep(r), ~CreateFileForCache(r)
      PROVE  table'[f].state = "absent"
  <2>1. CASE MarkStale(r)
    BY <1>1, <2>1 DEF MarkStale, UpdateFilemetaAndStateInDB, Row
  <2> QED
    BY <1>2, <1>4, <2>1 DEF ReaderStep, Die, OnlyReaders, ListFails, ListMiss,
       ListPending, ListReady, CreateFails, EnqueueWriteReq, MarkStaleFails, CheckWindow,
       CheckLate, Get, ReadBlob, ReadBlobFatal
<1>5. ASSUME NEW w \in Workers, WorkerStep(w)
      PROVE  table'[f].state = "absent"
  <2>1. CASE SealFileAtCache(w)
    BY <1>1, <2>1 DEF SealFileAtCache, CanCommit, CommitCacheFileInDB
  <2> QED
    BY <1>2, <1>3, <1>5, <2>1 DEF WorkerStep, Die, OnlyJobs, DownLoad, FetchFails,
       DownLoadPanics, Admit, CacheFull, PutLarge, PickOpen, ResolvePick, ResolvePanics,
       PutBin, PutIdx, PutIdxFails, SealFails, RollbackFileInDB, RollbackFails,
       EnqueueDeletionReq, EvictNothing, EvictFails, DeletePendingFileWithFIdInDB,
       DeleteFileWithTripleIdInDB
<1>6. CASE SwapStep
  BY <1>2, <1>6 DEF SwapStep, Die, ScanOpenTriplets, PublishTriplets, CloseTriplet,
     RetireTriplet, RetirePanics
<1>7. CASE Restart
  BY <1>3, <1>7 DEF Restart, DeleteAllPendingFileInDB
<1>8. CASE UNCHANGED vars
  BY <1>2, <1>8 DEF vars
<1> QED
  BY <1>2, <1>4, <1>5, <1>6, <1>7, <1>8 DEF Next, Die, Kill, HttpRead, OnlyReaders,
     LoopBatchWrite, PurgeWaitOver, LoopGarbageCollection, PurgeTriplet, OriginUpdate

(* A request about to INSERT was so before, or has just found the row missing
   and taken mtx. *)
LEMMA CreatorSteps ==
  ASSUME TypeOK, [Next]_vars, NEW r \in Readers, rd'[r].pc = "create"
  PROVE  \/ ListMiss(r)
         \/ rd[r].pc = "create" /\ rd'[r].file = rd[r].file
<1> USE DEF diskVars, pbhVars, gcVars
<1>1. rd \in [Readers -> Requests] /\ rd[r] \in Requests
  BY DEF TypeOK
<1>2. CASE UNCHANGED rd
  BY <1>2
<1>3. ASSUME Die
      PROVE  FALSE
  BY <1>3 DEF Die, IdleReader
<1>4. ASSUME NEW q \in Readers, NEW pc, Goto(q, pc), pc # "create"
      PROVE  rd'[r] = rd[r]
  BY <1>1, <1>4 DEF Goto, Requests
<1>5. ASSUME NEW q \in Readers, Answer(q)
      PROVE  rd'[r] = rd[r]
  BY <1>1, <1>5 DEF Answer, IdleReader
<1>6. ASSUME NEW win, NEW S,
             rd' = [q \in Readers |-> IF q \in S THEN [rd[q] EXCEPT !.win = win] ELSE rd[q]]
      PROVE  rd[r].pc = "create" /\ rd'[r].file = rd[r].file
  BY <1>1, <1>6 DEF Requests
<1>7. ASSUME NEW q \in Readers, ReaderStep(q), ~ListMiss(q) \/ q # r
      PROVE  rd[r].pc = "create" /\ rd'[r].file = rd[r].file
  <2>1. CASE ListMiss(q)
    BY <1>1, <1>7, <2>1 DEF ListMiss, Goto
  <2>2. CASE ListReady(q)
    BY <1>1, <2>2 DEF ListReady, Requests
  <2>3. CASE CheckWindow(q)
    BY <1>1, <2>3 DEF CheckWindow, Requests
  <2>4. CASE CreateFileForCache(q) \/ MarkStale(q) \/ MarkStaleFails(q)
    BY <1>4, <2>4 DEF CreateFileForCache, MarkStale, MarkStaleFails
  <2>5. CASE Get(q)
    BY <1>4, <1>5, <2>5 DEF Get
  <2> QED
    BY <1>3, <1>5, <1>7, <2>1, <2>2, <2>3, <2>4, <2>5 DEF ReaderStep, ListFails,
       ListPending, CreateFails, EnqueueWriteReq, CheckLate, ReadBlob, ReadBlobFatal
<1>8. ASSUME NEW q \in Readers, NEW f \in Files, HttpRead(q, f)
      PROVE  rd'[r] = rd[r]
  BY <1>1, <1>8 DEF HttpRead, IdleReader
<1>9. ASSUME NEW w \in Workers, WorkerStep(w)
      PROVE  rd[r].pc = "create" /\ rd'[r].file = rd[r].file
  <2>1. CASE EnqueueDeletionReq(w)
    <3> DEFINE S == {q \in Readers : rd[q].pc = "check" /\ rd[q].tri = Victim
                                      /\ Victim \notin doomed}
    <3>1. rd' = [q \in Readers |-> IF q \in S THEN [rd[q] EXCEPT !.win = "open"] ELSE rd[q]]
      BY <2>1 DEF EnqueueDeletionReq
    <3> QED
      BY <1>6, <3>1
  <2> QED
    BY <1>2, <1>3, <1>9, <2>1 DEF WorkerStep, OnlyJobs, DownLoad, FetchFails,
       DownLoadPanics, Admit, CacheFull, PutLarge, PickOpen, ResolvePick, ResolvePanics,
       PutBin, PutIdx, PutIdxFails, SealFileAtCache, SealFails, RollbackFileInDB,
       RollbackFails, EvictNothing, EvictFails
<1>10. ASSUME NEW t \in TripletIds, PurgeWaitOver(t)
       PROVE  rd[r].pc = "create" /\ rd'[r].file = rd[r].file
  <2>1. rd'[r].pc = rd[r].pc /\ rd'[r].file = rd[r].file
    BY <1>10, WaitOverSteps DEF TypeOK
  <2> QED
    BY <1>6, <2>1
<1>11. CASE SwapStep
  BY <1>2, <1>3, <1>11 DEF SwapStep, ScanOpenTriplets, PublishTriplets, CloseTriplet,
     RetireTriplet, RetirePanics
<1>12. CASE UNCHANGED vars
  BY <1>2, <1>12 DEF vars
<1> QED
  BY <1>2, <1>3, <1>7, <1>8, <1>9, <1>10, <1>11, <1>12 DEF Next, Restart, Kill,
     LoopBatchWrite, LoopGarbageCollection, PurgeTriplet, OriginUpdate

(* While a request is about to INSERT, mtx is its own. *)
LEMMA HolderSteps ==
  ASSUME TypeOK, [Next]_vars, NEW r \in Readers, rd[r].pc = "create", mtx = r
  PROVE  mtx' = r \/ rd'[r].pc # "create"
<1> USE DEF diskVars, pbhVars, gcVars
<1>1. r # NoReader
  BY ServerAssumption
<1>2. ASSUME Die
      PROVE  rd'[r].pc # "create"
  BY <1>2 DEF Die, IdleReader
<1>3. ASSUME NEW q \in Readers, ReaderStep(q)
      PROVE  mtx' = r \/ Die
  BY <1>1, <1>3 DEF ReaderStep, OnlyReaders, ListFails, ListMiss, ListPending, ListReady,
     CreateFileForCache, CreateFails, EnqueueWriteReq, MarkStale, MarkStaleFails,
     CheckWindow, CheckLate, Get, ReadBlob, ReadBlobFatal, Reader
<1>4. ASSUME NEW w \in Workers, WorkerStep(w)
      PROVE  mtx' = r \/ Die
  BY <1>4 DEF WorkerStep, OnlyJobs, DownLoad, FetchFails, DownLoadPanics, Admit, CacheFull,
     PutLarge, PickOpen, ResolvePick, ResolvePanics, PutBin, PutIdx, PutIdxFails,
     SealFileAtCache, SealFails, RollbackFileInDB, RollbackFails, EnqueueDeletionReq,
     EvictNothing, EvictFails
<1>5. ASSUME SwapStep
      PROVE  mtx' = r \/ Die
  BY <1>5 DEF SwapStep, ScanOpenTriplets, PublishTriplets, CloseTriplet, RetireTriplet,
     RetirePanics
<1>6. CASE UNCHANGED vars
  BY <1>6 DEF vars
<1> QED
  BY <1>2, <1>3, <1>4, <1>5, <1>6 DEF Next, Restart, Kill, HttpRead, LoopBatchWrite,
     PurgeWaitOver, LoopGarbageCollection, PurgeTriplet, OriginUpdate

(* The mutual exclusion CreateFindsNoRow rests on. *)
CreatorHoldsMtx ==
    \A r \in Readers : rd[r].pc = "create" => mtx = r /\ table[rd[r].file].state = "absent"

(* No request INSERTs a row that exists: between its SELECT and its INSERT only
   the owner of mtx could have created it. *)
THEOREM CreatesAreMisses == Spec => []CreateFindsNoRow
<1>1. Init => CreatorHoldsMtx
  BY DEF Init, CreatorHoldsMtx, IdleReader
<1>2. TypeOK /\ CreatorHoldsMtx /\ [Next]_vars => CreatorHoldsMtx'
  <2> SUFFICES ASSUME TypeOK, CreatorHoldsMtx, [Next]_vars,
                      NEW r \in Readers, rd'[r].pc = "create"
               PROVE  mtx' = r /\ table'[rd'[r].file].state = "absent"
    BY DEF CreatorHoldsMtx
  <2>1. CASE ListMiss(r)
    <3>1. mtx' = r /\ table' = table /\ table[rd[r].file].state = "absent"
      BY <2>1 DEF ListMiss, OnlyReaders
    <3>2. rd'[r].file = rd[r].file
      BY <2>1 DEF ListMiss, Goto, TypeOK, Requests
    <3> QED
      BY <3>1, <3>2
  <2>2. CASE rd[r].pc = "create" /\ rd'[r].file = rd[r].file
    <3>1. mtx = r /\ table[rd[r].file].state = "absent"
      BY <2>2 DEF CreatorHoldsMtx
    <3>2. mtx' = r
      BY <2>2, <3>1, HolderSteps
    <3>3. rd[r].file \in Files
      BY <2>2, RequestFields DEF TypeOK
    <3>4. ASSUME NEW q \in Readers, CreateFileForCache(q)
          PROVE  FALSE
      <4>1. q = r
        BY <3>1, <3>4 DEF CreateFileForCache, Reader, CreatorHoldsMtx
      <4>2. rd'[r].pc = "enqueue"
        BY <3>4, <4>1 DEF CreateFileForCache, Goto, TypeOK, Requests
      <4> QED
        BY <4>2
    <3>5. table'[rd[r].file].state = "absent"
      BY <3>1, <3>3, <3>4, AbsentRowSteps
    <3> QED
      BY <2>2, <3>2, <3>5
  <2> QED
    BY <2>1, <2>2, CreatorSteps
<1>3. CreatorHoldsMtx => CreateFindsNoRow
  BY DEF CreatorHoldsMtx, CreateFindsNoRow, Reader
<1> QED
  BY <1>1, <1>2, <1>3, TypeCorrect, PTL DEF Spec

-----------------------------------------------------------------------------
(* There is always a triplet to write to. *)

(* The round of LoopHotSwap: replacements are apart from what they replace, and
   what is published outlives what is retired. *)
SwapKeepsOne ==
    /\ up => open # {}
    /\ swap.pc = "publish" => swap.fresh # {} /\ swap.fresh \cap swap.old = {}
    /\ swap.pc \in {"close", "retire"} => open \ swap.old # {}
    /\ swap.pc = "retire" => swap.cur \in swap.old

(* Only LoopHotSwap and the start of the process change the open triplets. *)
LEMMA OpenSteps ==
  ASSUME [Next]_vars, ~SwapStep, ~Restart, ~Die
  PROVE  UNCHANGED <<up, open, swap>>
<1> USE DEF diskVars, pbhVars, gcVars
<1>1. ASSUME NEW r \in Readers, ReaderStep(r)
      PROVE  UNCHANGED <<up, open, swap>>
  BY <1>1 DEF ReaderStep, OnlyReaders, ListFails, ListMiss, ListPending, ListReady,
     CreateFileForCache, CreateFails, EnqueueWriteReq, MarkStale, MarkStaleFails,
     CheckWindow, CheckLate, Get, ReadBlob, ReadBlobFatal
<1>2. ASSUME NEW w \in Workers, WorkerStep(w)
      PROVE  UNCHANGED <<up, open, swap>>
  BY <1>2 DEF WorkerStep, OnlyJobs, DownLoad, FetchFails, DownLoadPanics, Admit, CacheFull,
     PutLarge, PickOpen, ResolvePick, ResolvePanics, PutBin, PutIdx, PutIdxFails,
     SealFileAtCache, SealFails, RollbackFileInDB, RollbackFails, EnqueueDeletionReq,
     EvictNothing, EvictFails
<1>3. CASE UNCHANGED vars
  BY <1>3 DEF vars
<1> QED
  BY <1>1, <1>2, <1>3 DEF Next, Kill, HttpRead, OnlyReaders, LoopBatchWrite,
     PurgeWaitOver, LoopGarbageCollection, PurgeTriplet, OriginUpdate

(* As many replacements as there are full triplets is at least one. *)
LEMMA SomeReplacement ==
  ASSUME NEW full \in SUBSET Triplets, full # {}, NEW ids,
         Cardinality(ids) = Cardinality(full)
  PROVE  ids # {}
<1>1. IsFiniteSet(full)
  BY TripletsAssumption, FS_Subset
<1>2. Cardinality(full) # 0 /\ Cardinality({}) = 0
  BY <1>1, FS_EmptySet
<1> QED
  BY <1>2

(* One round of LoopHotSwap. *)
LEMMA SwapKeepsOneStays ==
  ASSUME TypeOK, SwapKeepsOne, SwapStep
  PROVE  SwapKeepsOne'
<1>1. swap \in Swaps /\ open \subseteq Triplets
  BY DEF TypeOK
<1>2. CASE ScanOpenTriplets
  <2> DEFINE full == {t \in open : bin[t] > CloseAt}
  <2>1. PICK ids \in SUBSET Triplets :
          /\ Cardinality(ids) = Cardinality(full)
          /\ \A t \in ids : Fresh(t)
          /\ swap' = [pc |-> "publish", fresh |-> ids, old |-> full, cur |-> NoTriplet]
    BY <1>2 DEF ScanOpenTriplets
  <2>2. full # {} /\ full \in SUBSET Triplets /\ full \subseteq open
    BY <1>1, <1>2 DEF ScanOpenTriplets
  <2>3. ids \cap open = {}
    BY <2>1 DEF Fresh
  <2>4. UNCHANGED <<up, open>>
    BY <1>2 DEF ScanOpenTriplets
  <2> HIDE DEF full
  <2>5. ids # {}
    BY <2>1, <2>2, SomeReplacement
  <2> QED
    BY <2>1, <2>2, <2>3, <2>4, <2>5 DEF SwapKeepsOne
<1>3. CASE PublishTriplets
  <2>1. /\ open' = open \cup swap.fresh /\ up' = up
        /\ swap'.pc = "close" /\ swap'.old = swap.old
        /\ swap.pc = "publish"
    BY <1>1, <1>3 DEF PublishTriplets, SwapAt, Swaps
  <2> QED
    BY <2>1 DEF SwapKeepsOne
<1>4. ASSUME NEW t \in Triplets, CloseTriplet(t)
      PROVE  SwapKeepsOne'
  <2>1. /\ UNCHANGED <<open, up>>
        /\ swap'.pc = "retire" /\ swap'.old = swap.old /\ swap'.cur = t
        /\ swap.pc = "close" /\ t \in swap.old
    BY <1>1, <1>4 DEF CloseTriplet, SwapAt, Swaps
  <2> QED
    BY <2>1 DEF SwapKeepsOne
<1>5. CASE RetireTriplet
  <2>1. open' = open \ {swap.cur} /\ up' = up /\ swap.pc = "retire"
    BY <1>5 DEF RetireTriplet, SwapAt
  <2>2. PICK t : t \in open \ swap.old /\ t # swap.cur
    BY <2>1 DEF SwapKeepsOne
  <2>3. CASE swap.old = {swap.cur}
    BY <1>5, <2>1, <2>2, <2>3 DEF RetireTriplet, SwapKeepsOne, IdleSwap
  <2>4. CASE swap.old # {swap.cur}
    <3>1. swap'.pc = "close" /\ swap'.old = swap.old \ {swap.cur}
      BY <1>1, <1>5, <2>4 DEF RetireTriplet, Swaps
    <3> QED
      BY <2>1, <2>2, <3>1 DEF SwapKeepsOne
  <2> QED
    BY <2>3, <2>4
<1>6. CASE RetirePanics
  BY <1>6 DEF RetirePanics, Die, SwapKeepsOne, IdleSwap
<1> QED
  BY <1>2, <1>3, <1>4, <1>5, <1>6 DEF SwapStep

(* PhyBH always has an open triplet while it serves: replacements are published
   before what they replace is retired, and a start ensures one. *)
THEOREM OpenAvailable == Spec => []OpenTripletAvailable
<1>1. Init => Down /\ SwapKeepsOne
  BY DEF Init, Down, SwapKeepsOne, IdleSwap
<1>2. TypeOK /\ Down /\ SwapKeepsOne /\ [Next]_vars => Down' /\ SwapKeepsOne'
  <2> SUFFICES ASSUME TypeOK, Down, SwapKeepsOne, [Next]_vars
               PROVE  SwapKeepsOne'
    BY DownStays
  <2>1. CASE SwapStep
    BY <2>1, SwapKeepsOneStays
  <2>2. CASE Restart
    <3>1. swap' = IdleSwap
      BY <2>2 DEF Restart, Down
    <3>2. open' # {}
      BY <2>2 DEF Restart
    <3> QED
      BY <3>1, <3>2 DEF SwapKeepsOne, IdleSwap
  <2>3. CASE Die
    BY <2>3 DEF Die, SwapKeepsOne, IdleSwap
  <2>4. CASE ~SwapStep /\ ~Restart /\ ~Die
    <3>1. UNCHANGED <<up, open, swap>>
      BY <2>4, OpenSteps
    <3> QED
      BY <3>1 DEF SwapKeepsOne
  <2> QED
    BY <2>1, <2>2, <2>3, <2>4
<1>3. SwapKeepsOne => OpenTripletAvailable
  BY DEF SwapKeepsOne, OpenTripletAvailable
<1> QED
  BY <1>1, <1>2, <1>3, TypeCorrect, PTL DEF Spec

-----------------------------------------------------------------------------
(* What leaves a PENDING row to nobody. *)

(* A row becomes PENDING by a request that goes on to queue its file. *)
LEMMA PendingRowSteps ==
  ASSUME TypeOK, [Next]_vars, NEW f \in Files, table'[f].state = "pending"
  PROVE  \/ table[f].state = "pending"
         \/ \E r \in Readers : rd'[r].file = f /\ rd'[r].pc = "enqueue"
<1> USE DEF diskVars, pbhVars, gcVars
<1>1. table \in [Files -> Row] /\ table[f] \in Row /\ rd \in [Readers -> Requests]
  BY DEF TypeOK, FilesTables
<1>2. CASE UNCHANGED table
  BY <1>2
<1>3. ASSUME NEW gone, table' = DeleteWhere(table, gone)
      PROVE  table[f].state = "pending"
  BY <1>3 DEF DeleteWhere, NoRow
<1>4. ASSUME NEW r \in Readers, ReaderStep(r)
      PROVE  \/ table[f].state = "pending"
             \/ rd'[r].file = f /\ rd'[r].pc = "enqueue"
  <2>1. ASSUME Goto(r, "enqueue")
        PROVE  rd'[r].pc = "enqueue" /\ rd'[r].file = rd[r].file
    BY <1>1, <2>1 DEF Goto, Requests
  <2>2. CASE CreateFileForCache(r)
    BY <1>1, <2>1, <2>2 DEF CreateFileForCache, CreateFileWithFidInDB
  <2>3. CASE MarkStale(r)
    BY <1>1, <2>1, <2>3 DEF MarkStale, UpdateFilemetaAndStateInDB
  <2> QED
    BY <1>2, <1>4, <2>2, <2>3 DEF ReaderStep, Die, OnlyReaders, ListFails, ListMiss,
       ListPending, ListReady, CreateFails, EnqueueWriteReq, MarkStaleFails, CheckWindow,
       CheckLate, Get, ReadBlob, ReadBlobFatal
<1>5. ASSUME NEW w \in Workers, WorkerStep(w)
      PROVE  table[f].state = "pending"
  <2>1. CASE SealFileAtCache(w)
    BY <1>1, <2>1 DEF SealFileAtCache, CommitCacheFileInDB, Row
  <2> QED
    BY <1>2, <1>3, <1>5, <2>1 DEF WorkerStep, Die, OnlyJobs, DownLoad, FetchFails,
       DownLoadPanics, Admit, CacheFull, PutLarge, PickOpen, ResolvePick, ResolvePanics,
       PutBin, PutIdx, PutIdxFails, SealFails, RollbackFileInDB, RollbackFails,
       EnqueueDeletionReq, EvictNothing, EvictFails, DeletePendingFileWithFIdInDB,
       DeleteFileWithTripleIdInDB
<1>6. CASE SwapStep
  BY <1>2, <1>6 DEF SwapStep, Die, ScanOpenTriplets, PublishTriplets, CloseTriplet,
     RetireTriplet, RetirePanics
<1>7. CASE Restart
  BY <1>3, <1>7 DEF Restart, DeleteAllPendingFileInDB
<1>8. CASE UNCHANGED vars
  BY <1>2, <1>8 DEF vars
<1> QED
  BY <1>2, <1>4, <1>5, <1>6, <1>7, <1>8 DEF Next, Die, Kill, HttpRead, OnlyReaders,
     LoopBatchWrite, PurgeWaitOver, LoopGarbageCollection, PurgeTriplet, OriginUpdate

AtWork(w, f) == job[w].file = f /\ job[w].pc \notin {"idle", "evict"}

(* The exits of a job that leave its row as it is. *)
Abandons(w) == FetchFails(w) \/ SealFails(w) \/ RollbackFails(w)

(* A goroutine is done with a file when its row is sealed or rolled back, or when
   it abandons it. *)
LEMMA WorkerSettles ==
  ASSUME TypeOK, [Next]_vars, ~Die, NEW f \in Files, NEW w \in Workers, AtWork(w, f)
  PROVE  AtWork(w, f)' \/ table'[f].state # "pending" \/ Abandons(w)
<1> USE DEF diskVars, pbhVars, gcVars
<1>1. job \in [Workers -> Jobs] /\ table \in [Files -> Row]
  BY DEF TypeOK, FilesTables
<1>2. CASE UNCHANGED job
  BY <1>2 DEF AtWork
<1>3. ASSUME NEW v \in Workers, NEW pc, GotoJob(v, pc), pc \notin {"idle", "evict"}
      PROVE  AtWork(w, f)'
  BY <1>1, <1>3 DEF GotoJob, Jobs, AtWork
<1>4. ASSUME NEW v \in Workers, EndJob(v) \/ GotoJob(v, "evict"), v # w
      PROVE  AtWork(w, f)'
  BY <1>1, <1>4 DEF EndJob, GotoJob, AtWork
<1>5. ASSUME NEW v \in Workers, NEW pc, NEW tri, pc \notin {"idle", "evict"},
             job' = [job EXCEPT ![v].pc = pc, ![v].tri = tri]
      PROVE  AtWork(w, f)'
  BY <1>1, <1>5 DEF Jobs, AtWork
<1>6. ASSUME NEW r \in Readers, ReaderStep(r)
      PROVE  UNCHANGED job
  BY <1>6 DEF ReaderStep, OnlyReaders, ListFails, ListMiss, ListPending, ListReady,
     CreateFileForCache, CreateFails, EnqueueWriteReq, MarkStale, MarkStaleFails,
     CheckWindow, CheckLate, Get, ReadBlob, ReadBlobFatal
<1>7. ASSUME NEW v \in Workers, WorkerStep(v)
      PROVE  AtWork(w, f)' \/ table'[f].state # "pending" \/ Abandons(w)
  <2>1. ~DownLoadPanics(v) /\ ~ResolvePanics(v)
    BY DEF DownLoadPanics, ResolvePanics
  <2>2. CASE DownLoad(v)
    BY <1>1, <2>2 DEF DownLoad, Jobs, AtWork
  <2>3. CASE Admit(v) \/ CacheFull(v) \/ ResolvePick(v) \/ PutBin(v) \/ PutIdx(v)
             \/ PutIdxFails(v)
    BY <1>3, <2>3 DEF Admit, CacheFull, ResolvePick, PutBin, PutIdx, PutIdxFails
  <2>4. CASE PutLarge(v) \/ PickOpen(v)
    <3>1. \E pc, t : /\ pc \notin {"idle", "evict"}
                     /\ job' = [job EXCEPT ![v].pc = pc, ![v].tri = t]
      BY <2>4 DEF PutLarge, PickOpen
    <3> QED
      BY <1>5, <3>1
  <2>5. CASE EnqueueDeletionReq(v) \/ EvictNothing(v) \/ EvictFails(v)
    BY <1>4, <2>5 DEF EnqueueDeletionReq, EvictNothing, EvictFails, Worker, AtWork
  <2>6. CASE SealFileAtCache(v)
    <3>1. CASE v = w
      BY <1>1, <2>6, <3>1 DEF SealFileAtCache, CommitCacheFileInDB, AtWork, Row
    <3> QED
      BY <1>4, <2>6, <3>1 DEF SealFileAtCache
  <2>7. CASE FetchFails(v) \/ SealFails(v) \/ RollbackFails(v)
    <3>1. CASE v = w
      BY <2>7, <3>1 DEF Abandons
    <3> QED
      BY <1>4, <2>7, <3>1 DEF FetchFails, SealFails, RollbackFails, AfterRollback
  <2>8. CASE RollbackFileInDB(v)
    <3>1. CASE v = w
      BY <2>8, <3>1 DEF RollbackFileInDB, DeletePendingFileWithFIdInDB, DeleteWhere, NoRow,
         AtWork
    <3> QED
      BY <1>4, <2>8, <3>1 DEF RollbackFileInDB, AfterRollback
  <2> QED
    BY <1>7, <2>1, <2>2, <2>3, <2>4, <2>5, <2>6, <2>7, <2>8 DEF WorkerStep
<1>8. CASE SwapStep
  BY <1>2, <1>8 DEF SwapStep, ScanOpenTriplets, PublishTriplets, CloseTriplet,
     RetireTriplet, RetirePanics
<1>9. CASE LoopBatchWrite
  BY <1>9 DEF LoopBatchWrite, AtWork
<1>10. CASE UNCHANGED vars
  BY <1>2, <1>10 DEF vars
<1> QED
  BY <1>2, <1>6, <1>7, <1>8, <1>9, <1>10 DEF Next, Restart, Kill, HttpRead, OnlyReaders,
     PurgeWaitOver, LoopGarbageCollection, PurgeTriplet, OriginUpdate

AboutToQueue(r, f) == rd[r].file = f /\ rd[r].pc = "enqueue"

(* A request about to queue its file does nothing else. *)
LEMMA RequestQueues ==
  ASSUME TypeOK, [Next]_vars, ~Die, NEW f \in Files, NEW r \in Readers, AboutToQueue(r, f)
  PROVE  AboutToQueue(r, f)' \/ EnqueueWriteReq(r)
<1> USE DEF diskVars, pbhVars, gcVars
<1>1. rd \in [Readers -> Requests]
  BY DEF TypeOK
<1>2. ASSUME UNCHANGED rd
      PROVE  AboutToQueue(r, f)'
  BY <1>2 DEF AboutToQueue
<1>3. ASSUME NEW q \in Readers, NEW pc, Goto(q, pc) \/ Answer(q), q # r
      PROVE  AboutToQueue(r, f)'
  BY <1>1, <1>3 DEF Goto, Answer, AboutToQueue
<1>4. ASSUME NEW win, NEW S,
             rd' = [q \in Readers |-> IF q \in S THEN [rd[q] EXCEPT !.win = win] ELSE rd[q]]
      PROVE  AboutToQueue(r, f)'
  BY <1>1, <1>4 DEF Requests, AboutToQueue
<1>5. ASSUME NEW q \in Readers, ReaderStep(q), ~EnqueueWriteReq(r)
      PROVE  AboutToQueue(r, f)'
  <2>1. q # r
    BY <1>5 DEF ReaderStep, ListFails, ListMiss, ListPending, ListReady,
       CreateFileForCache, CreateFails, MarkStale, MarkStaleFails,
       CheckWindow, CheckLate, Get, ReadBlob, ReadBlobFatal, Reader, AboutToQueue
  <2>2. CASE ListReady(q) \/ CheckWindow(q)
    BY <1>1, <2>1, <2>2 DEF ListReady, CheckWindow, AboutToQueue
  <2> QED
    BY <1>3, <1>5, <2>1, <2>2 DEF ReaderStep, ListFails, ListMiss, ListPending,
       CreateFileForCache, CreateFails, EnqueueWriteReq, MarkStale, MarkStaleFails,
       CheckLate, Get, ReadBlob, ReadBlobFatal
<1>6. ASSUME NEW q \in Readers, NEW g \in Files, HttpRead(q, g)
      PROVE  AboutToQueue(r, f)'
  BY <1>1, <1>6 DEF HttpRead, Reader, AboutToQueue
<1>7. ASSUME NEW w \in Workers, WorkerStep(w)
      PROVE  AboutToQueue(r, f)'
  <2>1. CASE EnqueueDeletionReq(w)
    <3> DEFINE S == {q \in Readers : rd[q].pc = "check" /\ rd[q].tri = Victim
                                      /\ Victim \notin doomed}
    <3>1. rd' = [q \in Readers |-> IF q \in S THEN [rd[q] EXCEPT !.win = "open"] ELSE rd[q]]
      BY <2>1 DEF EnqueueDeletionReq
    <3> QED
      BY <1>4, <3>1
  <2>2. CASE ~EnqueueDeletionReq(w)
    <3>1. UNCHANGED rd
      BY <1>7, <2>2 DEF WorkerStep, OnlyJobs, DownLoad, FetchFails, DownLoadPanics, Admit,
         CacheFull, PutLarge, PickOpen, ResolvePick, ResolvePanics, PutBin, PutIdx,
         PutIdxFails, SealFileAtCache, SealFails, RollbackFileInDB, RollbackFails,
         EvictNothing, EvictFails
    <3> QED
      BY <1>2, <3>1
  <2> QED
    BY <2>1, <2>2
<1>8. ASSUME NEW t \in TripletIds, PurgeWaitOver(t)
       PROVE  AboutToQueue(r, f)'
  BY <1>1, <1>8, WaitOverSteps DEF AboutToQueue
<1>9. CASE SwapStep
  BY <1>2, <1>9 DEF SwapStep, ScanOpenTriplets, PublishTriplets, CloseTriplet,
     RetireTriplet, RetirePanics
<1>10. CASE UNCHANGED vars
  BY <1>2, <1>10 DEF vars
<1> QED
  BY <1>2, <1>5, <1>6, <1>7, <1>8, <1>9, <1>10 DEF Next, Restart, Kill,
     LoopBatchWrite, LoopGarbageCollection, PurgeTriplet, OriginUpdate

(* A queued file stays queued until a goroutine of the next batch takes it. *)
LEMMA QueuedIsTaken ==
  ASSUME TypeOK, [Next]_vars, ~Die, NEW f \in Queued
  PROVE  f \in Queued' \/ \E w \in Workers : AtWork(w, f)'
<1>1. wQueue \in Seq(Files)
  BY DEF TypeOK
<1>2. PICK i \in DOMAIN wQueue : f = wQueue[i]
  BY DEF Queued
<1>3. CASE LoopBatchWrite
  <2> DEFINE n == Smaller(BatchSize, Len(wQueue))
             q == SubSeq(wQueue, n + 1, Len(wQueue))
  <2>1. n \in Nat /\ n <= Len(wQueue) /\ n <= BatchSize /\ i \in 1..Len(wQueue)
    BY <1>1, ServerAssumption DEF Smaller
  <2>2. /\ wQueue' = q
        /\ job' = [w \in Workers |->
                     IF w <= n THEN [IdleJob EXCEPT !.pc = "fetch", !.file = wQueue[w]]
                     ELSE IdleJob]
    BY <1>3 DEF LoopBatchWrite
  <2> HIDE DEF n
  <2>3. CASE i <= n
    <3>1. i \in Workers
      BY <2>1, <2>3, ServerAssumption DEF Workers
    <3>2. job'[i].pc = "fetch" /\ job'[i].file = f
      BY <1>2, <2>2, <2>3, <3>1 DEF IdleJob
    <3> QED
      BY <3>1, <3>2 DEF AtWork
  <2>4. CASE i > n
    <3>1. Len(q) = Len(wQueue) - n /\ \A k \in 1..Len(wQueue) - n : q[k] = wQueue[k + n]
      BY <1>1, <2>1
    <3>2. q \in Seq(Files)
      BY <1>1, <2>1
    <3>3. i - n \in DOMAIN q /\ q[i - n] = wQueue[i]
      BY <2>1, <2>4, <3>1, <3>2
    <3> QED
      BY <1>2, <2>2, <3>3 DEF Queued
  <2> QED
    BY <2>1, <2>3, <2>4
<1>4. CASE ~LoopBatchWrite
  <2>1. CASE wQueue' = wQueue
    BY <2>1 DEF Queued
  <2>2. ASSUME NEW g \in Files, wQueue' = Append(wQueue, g)
        PROVE  f \in Queued'
    <3>1. i \in DOMAIN wQueue' /\ wQueue'[i] = f
      BY <1>1, <1>2, <2>2
    <3> QED
      BY <3>1 DEF Queued
  <2> QED
    BY <1>4, <2>1, <2>2, QueueSteps
<1> QED
  BY <1>3, <1>4

(* A step of EnqueueWriteReq leaves the file in the queue. *)
LEMMA EnqueueQueues ==
  ASSUME TypeOK, NEW f \in Files, NEW r \in Readers, AboutToQueue(r, f), EnqueueWriteReq(r)
  PROVE  f \in Queued'
<1>1. wQueue \in Seq(Files)
  BY DEF TypeOK
<1>2. CASE f \in Queued
  BY <1>2 DEF EnqueueWriteReq, AboutToQueue, Queued
<1>3. CASE f \notin Queued
  <2>1. wQueue' = Append(wQueue, f)
    BY <1>3 DEF EnqueueWriteReq, AboutToQueue
  <2>2. Len(wQueue) + 1 \in DOMAIN wQueue' /\ wQueue'[Len(wQueue) + 1] = f
    BY <1>1, <2>1
  <2> QED
    BY <2>2 DEF Queued
<1> QED
  BY <1>2, <1>3

(* Only a start brings the process up. *)
LEMMA UpSteps ==
  ASSUME [Next]_vars, ~Restart, ~Die
  PROVE  up' = up
<1> USE DEF diskVars, pbhVars, gcVars
<1>1. CASE ~SwapStep
  BY <1>1, OpenSteps
<1>2. CASE SwapStep
  BY <1>2 DEF SwapStep, ScanOpenTriplets, PublishTriplets, CloseTriplet, RetireTriplet,
     RetirePanics
<1> QED
  BY <1>1, <1>2

(* A PENDING row that is queued, at work or about to be queued is left alone only
   by its own job, when the object is not fetched or a commit or rollback fails,
   whatever requests, batches, evictions and restarts do in between. *)
THEOREM StrandedByExits == Spec => OnlyFailedExitsStrand
<1> DEFINE Exit(f) == \E w \in Workers : job[w].file = f /\ Abandons(w)
<1>1. ASSUME TypeOK, [Next]_vars, NEW f \in Files, Stranded(f)'
      PROVE  Stranded(f) \/ Exit(f)
  <2>1. up' /\ table'[f].state = "pending" /\ ~Driven(f)'
    BY <1>1 DEF Stranded
  <2>2. ~Die
    BY <2>1 DEF Die
  <2>3. ~Restart
    <3>1. ASSUME Restart
          PROVE  table' = DeleteAllPendingFileInDB(table)
      BY <3>1 DEF Restart
    <3> QED
      BY <2>1, <3>1 DEF DeleteAllPendingFileInDB, DeleteWhere, NoRow
  <2>4. up
    BY <1>1, <2>1, <2>2, <2>3, UpSteps
  <2>5. table[f].state = "pending"
    BY <1>1, <2>1, PendingRowSteps DEF Driven
  <2>6. CASE f \in Queued
    BY <1>1, <2>1, <2>2, <2>6, QueuedIsTaken DEF Driven, AtWork
  <2>7. ASSUME NEW w \in Workers, AtWork(w, f)
        PROVE  Exit(f)
    BY <1>1, <2>1, <2>2, <2>7, WorkerSettles DEF Driven, AtWork
  <2>8. ASSUME NEW r \in Readers, AboutToQueue(r, f)
        PROVE  FALSE
    BY <1>1, <2>1, <2>2, <2>8, RequestQueues, EnqueueQueues DEF Driven, AboutToQueue
  <2> QED
    BY <2>4, <2>5, <2>6, <2>7, <2>8 DEF Stranded, Driven, AtWork, AboutToQueue
<1>2. TypeOK /\ [Next]_vars =>
        [\A f \in Files :
           Stranded(f)' => Stranded(f) \/ \E w \in Workers :
                                            /\ job[w].file = f
                                            /\ FetchFails(w) \/ SealFails(w) \/ RollbackFails(w)]_vars
  BY <1>1 DEF Abandons
<1> QED
  BY <1>2, TypeCorrect, PTL DEF Spec, OnlyFailedExitsStrand

-----------------------------------------------------------------------------
(* The two waits of 500 ms. *)

(* A request has a window only while its time is to be checked; a window that
   is open began with an eviction whose own wait is not over, so that the files
   are there; and before the eviction nothing removes them. *)
WindowOf(r) ==
    /\ rd[r].pc # "check" => rd[r].win = "none"
    /\ rd[r].win = "open" => /\ rd[r].tri \in files
                             /\ purge[rd[r].tri] = "waiting"
                             /\ rd[r].tri \notin sweep
    /\ rd[r].pc = "check" /\ rd[r].tri \notin doomed => rd[r].tri \in files

Windows == \A r \in Readers : WindowOf(r)

(* What may happen to a request while its time is to be checked, or to one that
   gets there. *)
LEMMA WindowSteps ==
  ASSUME TypeOK, [Next]_vars, ~Die, NEW r \in Readers
  PROVE  \/ rd'[r] = rd[r]
         \/ ListReady(r)
         \/ rd'[r].pc # "check" /\ rd'[r].win = "none"
         \/ rd'[r].pc # "check" /\ rd[r].pc # "check" /\ rd'[r].win = rd[r].win
         \/ /\ \E w \in Workers : EnqueueDeletionReq(w)
            /\ rd[r].pc = "check" /\ rd[r].tri = Victim /\ Victim \notin doomed
            /\ rd'[r].tri = Victim
         \/ /\ \E t \in TripletIds : PurgeWaitOver(t)
            /\ rd[r].win = "open" /\ rd'[r].win \in {"last", "over"}
            /\ rd'[r].pc = rd[r].pc /\ rd'[r].tri = rd[r].tri
<1> USE DEF diskVars, pbhVars, gcVars
<1>1. rd \in [Readers -> Requests] /\ rd[r] \in Requests
  BY DEF TypeOK
<1>2. ASSUME NEW q \in Readers, NEW pc, Goto(q, pc), pc # "check", rd[q].pc # "check"
      PROVE  rd'[r] = rd[r] \/ (rd'[r].pc # "check" /\ rd[r].pc # "check" /\ rd'[r].win = rd[r].win)
  BY <1>1, <1>2 DEF Goto, Requests
<1>3. ASSUME NEW q \in Readers, Answer(q)
      PROVE  rd'[r] = rd[r] \/ (rd'[r].pc # "check" /\ rd'[r].win = "none")
  BY <1>1, <1>3 DEF Answer, IdleReader
<1>4. ASSUME NEW q \in Readers, ReaderStep(q)
      PROVE  \/ rd'[r] = rd[r]
             \/ ListReady(r)
             \/ rd'[r].pc # "check" /\ rd'[r].win = "none"
             \/ rd'[r].pc # "check" /\ rd[r].pc # "check" /\ rd'[r].win = rd[r].win
  <2>1. CASE ListReady(q)
    BY <1>1, <2>1 DEF ListReady
  <2>2. CASE CheckWindow(q)
    BY <1>1, <2>2 DEF CheckWindow, Requests
  <2>3. CASE ListMiss(q) \/ CreateFileForCache(q) \/ MarkStale(q) \/ MarkStaleFails(q)
    BY <1>2, <2>3 DEF ListMiss, CreateFileForCache, MarkStale, MarkStaleFails, Reader
  <2>4. CASE Get(q)
    BY <1>2, <1>3, <2>4 DEF Get, Reader
  <2> QED
    BY <1>3, <1>4, <2>1, <2>2, <2>3, <2>4 DEF ReaderStep, ListFails, ListPending,
       CreateFails, EnqueueWriteReq, CheckLate, ReadBlob, ReadBlobFatal
<1>5. ASSUME NEW q \in Readers, NEW f \in Files, HttpRead(q, f)
      PROVE  rd'[r] = rd[r] \/ (rd'[r].pc # "check" /\ rd'[r].win = "none")
  BY <1>1, <1>5 DEF HttpRead, IdleReader
<1>6. ASSUME NEW w \in Workers, WorkerStep(w)
      PROVE  \/ rd'[r] = rd[r]
             \/ /\ EnqueueDeletionReq(w)
                /\ rd[r].pc = "check" /\ rd[r].tri = Victim /\ Victim \notin doomed
                /\ rd'[r].tri = Victim
  <2>1. CASE EnqueueDeletionReq(w)
    <3>1. rd'[r] = IF rd[r].pc = "check" /\ rd[r].tri = Victim /\ Victim \notin doomed
                   THEN [rd[r] EXCEPT !.win = "open"] ELSE rd[r]
      BY <2>1 DEF EnqueueDeletionReq
    <3> QED
      BY <1>1, <2>1, <3>1 DEF Requests
  <2>2. CASE ~EnqueueDeletionReq(w)
    <3>1. UNCHANGED rd
      BY <1>6, <2>2 DEF WorkerStep, OnlyJobs, DownLoad, FetchFails, DownLoadPanics, Admit,
         CacheFull, PutLarge, PickOpen, ResolvePick, ResolvePanics, PutBin, PutIdx,
         PutIdxFails, SealFileAtCache, SealFails, RollbackFileInDB, RollbackFails,
         EvictNothing, EvictFails
    <3> QED
      BY <3>1
  <2> QED
    BY <2>1, <2>2
<1>7. ASSUME NEW t \in TripletIds, PurgeWaitOver(t)
      PROVE  \/ rd'[r] = rd[r]
             \/ /\ rd[r].win = "open" /\ rd'[r].win \in {"last", "over"}
                /\ rd'[r].pc = rd[r].pc /\ rd'[r].tri = rd[r].tri
  BY <1>1, <1>7, WaitOverSteps DEF InWindow
<1>8. CASE SwapStep
  BY <1>8 DEF SwapStep, ScanOpenTriplets, PublishTriplets, CloseTriplet, RetireTriplet,
     RetirePanics
<1>9. CASE UNCHANGED vars
  BY <1>9 DEF vars
<1> QED
  BY <1>4, <1>5, <1>6, <1>7, <1>8, <1>9 DEF Next, Restart, Kill, LoopBatchWrite,
     LoopGarbageCollection, PurgeTriplet, OriginUpdate

(* The triplet of a request whose window is open is safe until its wait is over. *)
LEMMA WaitingStays ==
  ASSUME TypeOK, [Next]_vars, ~Die, ~Restart, NEW r \in Readers, NEW t, rd[r].tri = t,
         t \in files, purge[t] = "waiting", t \notin sweep, ~PurgeWaitOver(t)
  PROVE  t \in files' /\ purge'[t] = "waiting" /\ t \notin sweep'
<1> USE DEF diskVars, pbhVars, gcVars
<1>1. t \in Triplets /\ t \in TripletIds /\ purge \in [TripletIds -> {"no", "waiting", "ripe"}]
  BY DEF TypeOK, TripletIds
<1>2. CASE UNCHANGED <<files, purge, sweep>>
  BY <1>2
<1>3. ASSUME NEW ids, NEW m, CreateTriplets(ids, m), UNCHANGED <<purge, sweep>>
      PROVE  t \in files' /\ purge'[t] = "waiting" /\ t \notin sweep'
  BY <1>3 DEF CreateTriplets
<1>4. ASSUME NEW q \in Readers, ReaderStep(q)
      PROVE  UNCHANGED <<files, purge, sweep>>
  BY <1>4 DEF ReaderStep, OnlyReaders, ListFails, ListMiss, ListPending, ListReady,
     CreateFileForCache, CreateFails, EnqueueWriteReq, MarkStale, MarkStaleFails,
     CheckWindow, CheckLate, Get, ReadBlob, ReadBlobFatal
<1>5. ASSUME NEW w \in Workers, WorkerStep(w)
      PROVE  t \in files' /\ purge'[t] = "waiting" /\ t \notin sweep'
  <2>1. CASE EnqueueDeletionReq(w)
    BY <1>1, <2>1 DEF EnqueueDeletionReq
  <2>2. CASE PutLarge(w)
    BY <1>3, <2>2 DEF PutLarge
  <2> QED
    BY <1>2, <1>5, <2>1, <2>2 DEF WorkerStep, OnlyJobs, DownLoad, FetchFails,
       DownLoadPanics, Admit, CacheFull, PickOpen, ResolvePick, ResolvePanics, PutBin,
       PutIdx, PutIdxFails, SealFileAtCache, SealFails, RollbackFileInDB, RollbackFails,
       EvictNothing, EvictFails
<1>6. CASE SwapStep
  <2>1. CASE ScanOpenTriplets
    BY <1>3, <2>1 DEF ScanOpenTriplets
  <2> QED
    BY <1>2, <1>6, <2>1 DEF SwapStep, PublishTriplets, CloseTriplet, RetireTriplet,
       RetirePanics
<1>7. ASSUME NEW u \in TripletIds, PurgeWaitOver(u)
      PROVE  t \in files' /\ purge'[t] = "waiting" /\ t \notin sweep'
  <2>1. u # t
    BY <1>7
  <2>2. purge' = [purge EXCEPT ![u] = "ripe"] /\ UNCHANGED <<files, sweep>>
    BY <1>7 DEF PurgeWaitOver
  <2> QED
    BY <1>1, <2>1, <2>2
<1>8. CASE LoopGarbageCollection
  BY <1>1, <1>8 DEF LoopGarbageCollection
<1>9. ASSUME NEW u \in TripletIds, PurgeTriplet(u)
      PROVE  t \in files' /\ purge'[t] = "waiting" /\ t \notin sweep'
  BY <1>9 DEF PurgeTriplet, DeleteTripletFilesOnDisk
<1>10. CASE UNCHANGED vars
  BY <1>2, <1>10 DEF vars
<1> QED
  BY <1>2, <1>4, <1>5, <1>6, <1>7, <1>8, <1>9, <1>10 DEF Next, Kill, HttpRead, OnlyReaders,
     LoopBatchWrite, OriginUpdate

(* A triplet that a request has listed, or that the swapper works on, keeps its
   files until an eviction chooses it. *)
LEMMA ListedStays ==
  ASSUME TypeOK, PurgedAreDoomed, [Next]_vars, ~Die, ~Restart,
         NEW t, (\E r \in Readers : rd[r].tri = t) \/ t \in swap.old,
         t \in doomed \cup files
  PROVE  t \in doomed' \cup files'
<1> USE DEF diskVars, pbhVars, gcVars
<1>1. CASE UNCHANGED <<files, doomed>>
  BY <1>1
<1>2. ASSUME NEW ids \in SUBSET Triplets, NEW m, CreateTriplets(ids, m), \A u \in ids : Fresh(u)
      PROVE  t \in doomed' \cup files'
  BY <1>2 DEF CreateTriplets, Fresh
<1>3. ASSUME NEW q \in Readers, ReaderStep(q)
      PROVE  UNCHANGED <<files, doomed>>
  BY <1>3 DEF ReaderStep, OnlyReaders, ListFails, ListMiss, ListPending, ListReady,
     CreateFileForCache, CreateFails, EnqueueWriteReq, MarkStale, MarkStaleFails,
     CheckWindow, CheckLate, Get, ReadBlob, ReadBlobFatal
<1>4. ASSUME NEW w \in Workers, WorkerStep(w)
      PROVE  t \in doomed' \cup files'
  <2>1. CASE EnqueueDeletionReq(w)
    BY <2>1 DEF EnqueueDeletionReq
  <2>2. CASE PutLarge(w)
    <3>1. PICK u \in Triplets : Fresh(u) /\ CreateTriplets({u}, "large")
      BY <2>2 DEF PutLarge
    <3> QED
      BY <1>2, <3>1
  <2> QED
    BY <1>1, <1>4, <2>1, <2>2 DEF WorkerStep, OnlyJobs, DownLoad, FetchFails,
       DownLoadPanics, Admit, CacheFull, PickOpen, ResolvePick, ResolvePanics, PutBin,
       PutIdx, PutIdxFails, SealFileAtCache, SealFails, RollbackFileInDB, RollbackFails,
       EvictNothing, EvictFails
<1>5. CASE SwapStep
  <2>1. CASE ScanOpenTriplets
    <3>1. PICK ids \in SUBSET Triplets :
            (\A u \in ids : Fresh(u)) /\ CreateTriplets(ids, "open")
      BY <2>1 DEF ScanOpenTriplets
    <3> QED
      BY <1>2, <3>1
  <2> QED
    BY <1>1, <1>5, <2>1 DEF SwapStep, PublishTriplets, CloseTriplet, RetireTriplet,
       RetirePanics
<1>6. ASSUME NEW u \in TripletIds, PurgeTriplet(u)
      PROVE  t \in doomed' \cup files'
  BY <1>6 DEF PurgeTriplet, DeleteTripletFilesOnDisk, PurgedAreDoomed
<1>7. CASE UNCHANGED vars
  BY <1>1, <1>7 DEF vars
<1> QED
  BY <1>1, <1>3, <1>4, <1>5, <1>6, <1>7 DEF Next, Kill, HttpRead, OnlyReaders,
     LoopBatchWrite, PurgeWaitOver, OriginUpdate, LoopGarbageCollection

(* A request that took its time a millisecond or more before the eviction of the
   triplet it listed finds its files until its check: the purge waits longer
   than such a request may. *)
THEOREM WindowsProtect == Spec => []WindowProtectsReader
<1>1. Init => Windows
  BY DEF Init, Windows, WindowOf, IdleReader
<1>2. BackedInv /\ Windows /\ [Next]_vars => Windows'
  <2> SUFFICES ASSUME BackedInv, Windows, [Next]_vars, NEW r \in Readers
               PROVE  WindowOf(r)'
    BY DEF Windows
  <2>1. TypeOK /\ Down /\ PurgedAreDoomed /\ ReadyRowBacked /\ WindowOf(r)
    BY DEF BackedInv, Windows
  <2>2. CASE Die
    BY <2>2 DEF Die, WindowOf, IdleReader
  <2>3. CASE Restart
    BY <2>1, <2>3 DEF Restart, Down, WindowOf, IdleReader
  <2>4. CASE ~Die /\ ~Restart
    <3>1. CASE rd'[r] = rd[r]
      <4>1. PICK t : t = rd[r].tri
        OBVIOUS
      <4>2. CASE rd[r].win = "open"
        <5>1. ~PurgeWaitOver(t)
          <6> SUFFICES ASSUME PurgeWaitOver(t)
                       PROVE  FALSE
            OBVIOUS
          <6>1. rd \in [Readers -> Requests] /\ t \in TripletIds
            BY <2>1, <4>1, RequestFields DEF TypeOK
          <6> QED
            BY <3>1, <4>1, <4>2, <6>1, WaitOverSteps DEF InWindow
        <5>2. t \in files' /\ purge'[t] = "waiting" /\ t \notin sweep'
          BY <2>1, <2>4, <4>1, <4>2, <5>1, WaitingStays DEF WindowOf
        <5> QED
          BY <2>1, <3>1, <4>1, <4>2, <5>2 DEF WindowOf
      <4>3. CASE rd[r].win # "open"
        <5>1. rd[r].pc = "check" => t \in doomed' \cup files'
          BY <2>1, <2>4, <4>1, ListedStays DEF WindowOf
        <5> QED
          BY <2>1, <3>1, <4>1, <4>3, <5>1 DEF WindowOf
      <4> QED
        BY <4>2, <4>3
    <3>2. CASE ListReady(r)
      <4>1. PICK row : row = table[rd[r].file]
        OBVIOUS
      <4>2. /\ rd[r].pc = "list" /\ row.state = "ready"
            /\ UNCHANGED <<files, doomed>>
            /\ rd' = [rd EXCEPT ![r].tri = row.tri, ![r].ver = row.ver,
                                ![r].pc = IF row.etag # rd[r].etag THEN "stale" ELSE "check"]
        BY <3>2, <4>1 DEF ListReady, Reader, OnlyReaders, diskVars, gcVars
      <4>3. rd[r].file \in Files
        BY <2>1, <4>2, RequestFields DEF TypeOK
      <4>4. row.tri \in doomed \cup files
        BY <2>1, <4>1, <4>2, <4>3 DEF ReadyRowBacked, Backed
      <4>5. rd'[r].tri = row.tri /\ rd'[r].win = "none"
        BY <2>1, <4>2 DEF WindowOf, TypeOK, Requests
      <4> QED
        BY <4>2, <4>4, <4>5 DEF WindowOf
    <3>3. CASE rd'[r].pc # "check" /\ rd'[r].win = "none"
      BY <3>3 DEF WindowOf
    <3>4. CASE rd'[r].pc # "check" /\ rd[r].pc # "check" /\ rd'[r].win = rd[r].win
      BY <2>1, <3>4 DEF WindowOf
    <3>5. ASSUME NEW w \in Workers, EnqueueDeletionReq(w), rd[r].pc = "check",
                 rd[r].tri = Victim, Victim \notin doomed, rd'[r].tri = Victim
          PROVE  WindowOf(r)'
      <4>1. PICK t : t = Victim
        OBVIOUS
      <4>2. t \in files /\ t \in TripletIds
        BY <2>1, <3>5, <4>1 DEF WindowOf, TypeOK, TripletIds
      <4>3. files' = files /\ sweep' = {} /\ purge' = [purge EXCEPT ![t] = "waiting"]
        BY <3>5, <4>1 DEF EnqueueDeletionReq, diskVars
      <4>4. purge'[t] = "waiting"
        BY <2>1, <4>2, <4>3 DEF TypeOK
      <4>5. rd'[r].pc = "check"
        BY <2>1, <3>5 DEF EnqueueDeletionReq, TypeOK, Requests
      <4> QED
        BY <3>5, <4>1, <4>2, <4>3, <4>4, <4>5 DEF WindowOf
    <3>6. ASSUME NEW u \in TripletIds, PurgeWaitOver(u), rd[r].win = "open",
                 rd'[r].win \in {"last", "over"}, rd'[r].pc = rd[r].pc, rd'[r].tri = rd[r].tri
          PROVE  WindowOf(r)'
      BY <2>1, <3>6 DEF WindowOf, PurgeWaitOver, diskVars
    <3> QED
      BY <2>1, <2>4, <3>1, <3>2, <3>3, <3>4, <3>5, <3>6, WindowSteps DEF WindowOf
  <2> QED
    BY <2>2, <2>3, <2>4
<1>3. Windows => WindowProtectsReader
  BY DEF Windows, WindowOf, WindowProtectsReader, Reader
<1> QED
  BY <1>1, <1>2, <1>3, BackedAlways, PTL DEF Spec

-----------------------------------------------------------------------------
(* Where a triplet is kept, and where it will be loaded. *)

(* The state byte agrees with the file: a start loads a large object's triplet,
   and no other, into LargeObjTplt. *)
Kind(f, t) == t \in doomed \/ (mode[t] = "large" <=> f \in LargeFiles)

(* PhyBH.Get finds the triplet. *)
Held(f, t) == t \in doomed \/ Host(f, t) # "none"

(* LoopHotSwap works on open triplets, and what it is about to drop from
   OpenTplt is in ClosedTplt already. *)
SwapPlaced ==
    /\ swap.old \subseteq open
    /\ swap.pc = "retire" => swap.cur \in swap.old /\ swap.cur \in closed.dict \cup doomed
    /\ \A t \in open \cup swap.fresh : mode[t] # "large"

(* A goroutine writes to a triplet that is kept where its file belongs. *)
JobPlaced(w) ==
    /\ job[w].pc \in {"bin", "idx", "seal"} =>
         /\ job[w].tri \in Triplets
         /\ Kind(job[w].file, job[w].tri) /\ Held(job[w].file, job[w].tri)
    /\ job[w].pc = "resolve" => job[w].file \notin LargeFiles

JobsPlaced == \A w \in Workers : JobPlaced(w)

RowPlaced(f) ==
    table[f].state = "ready" =>
        Kind(f, table[f].tri) /\ (up => Held(f, table[f].tri))

RowsPlaced == \A f \in Files : RowPlaced(f)

ReachInv == BackedInv /\ SwapPlaced /\ JobsPlaced /\ RowsPlaced

-----------------------------------------------------------------------------
(* New triplets disturb no triplet in use. *)
LEMMA CreateKeepsPlaced ==
  ASSUME TypeOK, NEW ids \in SUBSET Triplets, NEW m, CreateTriplets(ids, m),
         \A u \in ids : Fresh(u), NEW t \in Triplets, InUse(t)
  PROVE  mode'[t] = mode[t] /\ (t \in doomed' <=> t \in doomed)
<1>1. t \notin ids
  BY DEF InUse, Fresh
<1> QED
  BY <1>1 DEF CreateTriplets

(* Only a purge, and the close of an open triplet, change a state byte. *)
LEMMA KindStays ==
  ASSUME TypeOK, PurgedAreDoomed, SwapPlaced, [Next]_vars, ~Restart,
         NEW f, NEW t \in Triplets, InUse(t), Kind(f, t)
  PROVE  Kind(f, t)'
<1> USE DEF diskVars, pbhVars, gcVars
<1>1. ASSUME UNCHANGED <<mode, doomed>>
      PROVE  Kind(f, t)'
  BY <1>1 DEF Kind
<1>2. ASSUME Die
      PROVE  Kind(f, t)'
  BY <1>1, <1>2 DEF Die
<1>3. ASSUME NEW r \in Readers, ReaderStep(r)
      PROVE  Kind(f, t)'
  BY <1>1, <1>2, <1>3 DEF ReaderStep, OnlyReaders, ListFails, ListMiss, ListPending,
     ListReady, CreateFileForCache, CreateFails, EnqueueWriteReq, MarkStale,
     MarkStaleFails, CheckWindow, CheckLate, Get, ReadBlob, ReadBlobFatal
<1>4. ASSUME NEW w \in Workers, WorkerStep(w)
      PROVE  Kind(f, t)'
  <2>1. CASE EnqueueDeletionReq(w)
    BY <2>1 DEF EnqueueDeletionReq, Kind
  <2>2. CASE PutLarge(w)
    <3>1. PICK u \in Triplets : Fresh(u) /\ CreateTriplets({u}, "large")
      BY <2>2 DEF PutLarge
    <3> QED
      BY <3>1, CreateKeepsPlaced DEF Kind
  <2> QED
    BY <1>1, <1>2, <1>4, <2>1, <2>2 DEF WorkerStep, OnlyJobs, DownLoad, FetchFails,
       DownLoadPanics, Admit, CacheFull, PickOpen, ResolvePick, ResolvePanics, PutBin,
       PutIdx, PutIdxFails, SealFileAtCache, SealFails, RollbackFileInDB, RollbackFails,
       EvictNothing, EvictFails
<1>5. CASE SwapStep
  <2>1. CASE ScanOpenTriplets
    <3>1. PICK ids \in SUBSET Triplets :
            (\A u \in ids : Fresh(u)) /\ CreateTriplets(ids, "open")
      BY <2>1 DEF ScanOpenTriplets
    <3> QED
      BY <3>1, CreateKeepsPlaced DEF Kind
  <2>2. CASE RetireTriplet
    <3>1. mode[swap.cur] # "large"
      BY <2>2 DEF RetireTriplet, SwapAt, SwapPlaced
    <3>2. mode' = [mode EXCEPT ![swap.cur] = "closed"] /\ doomed' = doomed
      BY <2>2 DEF RetireTriplet
    <3> QED
      BY <3>1, <3>2 DEF Kind, TypeOK
  <2> QED
    BY <1>1, <1>2, <1>5, <2>1, <2>2 DEF SwapStep, PublishTriplets, CloseTriplet,
       RetirePanics
<1>6. ASSUME NEW u \in TripletIds, PurgeTriplet(u)
      PROVE  Kind(f, t)'
  <2>1. u \in doomed /\ UNCHANGED doomed
    BY <1>6 DEF PurgeTriplet, PurgedAreDoomed
  <2>2. t # u => mode'[t] = mode[t]
    BY <1>6 DEF PurgeTriplet, DeleteTripletFilesOnDisk
  <2> QED
    BY <2>1, <2>2 DEF Kind
<1>7. CASE UNCHANGED vars
  BY <1>1, <1>7 DEF vars
<1> QED
  BY <1>1, <1>2, <1>3, <1>4, <1>5, <1>6, <1>7 DEF Next, Kill, HttpRead, OnlyReaders,
     LoopBatchWrite, PurgeWaitOver, OriginUpdate, LoopGarbageCollection

-----------------------------------------------------------------------------
(* What the three caches lose. *)

(* The keys of both LRUs stay but for a purge, and the open triplets but for a
   retirement. *)
LEMMA CacheSteps ==
  ASSUME TypeOK, [Next]_vars, ~Restart, ~Die
  PROVE  \/ /\ open \subseteq open' /\ closed.dict \subseteq closed'.dict
            /\ large.dict \subseteq large'.dict
         \/ RetireTriplet
         \/ \E u \in sweep : /\ open' = open /\ closed'.dict = closed.dict \ {u}
                             /\ large'.dict = large.dict \ {u} /\ doomed' = doomed
<1> USE DEF diskVars, pbhVars, gcVars
<1>1. closed \in LruCache /\ large \in LruCache
  BY DEF TypeOK
<1>2. ASSUME NEW r \in Readers, ReaderStep(r)
      PROVE  open' = open /\ closed'.dict = closed.dict /\ large'.dict = large.dict
  <2>1. CASE Get(r)
    BY <1>1, <2>1, LruKeys DEF Get
  <2> QED
    BY <1>2, <2>1 DEF ReaderStep, OnlyReaders, ListFails, ListMiss, ListPending, ListReady,
       CreateFileForCache, CreateFails, EnqueueWriteReq, MarkStale, MarkStaleFails,
       CheckWindow, CheckLate, ReadBlob, ReadBlobFatal
<1>3. ASSUME DropVictim
      PROVE  closed'.dict = closed.dict /\ large'.dict = large.dict
  BY <1>1, <1>3, LruKeys DEF DropVictim
<1>4. ASSUME NEW w \in Workers, WorkerStep(w)
      PROVE  /\ open \subseteq open' /\ closed.dict \subseteq closed'.dict
             /\ large.dict \subseteq large'.dict
  <2>1. CASE EnqueueDeletionReq(w) \/ EvictFails(w)
    BY <1>3, <2>1 DEF EnqueueDeletionReq, EvictFails
  <2>2. CASE PutLarge(w)
    BY <1>1, <2>2, LruKeys DEF PutLarge
  <2> QED
    BY <1>4, <2>1, <2>2 DEF WorkerStep, OnlyJobs, DownLoad, FetchFails, DownLoadPanics,
       Admit, CacheFull, PickOpen, ResolvePick, ResolvePanics, PutBin, PutIdx,
       PutIdxFails, SealFileAtCache, SealFails, RollbackFileInDB, RollbackFails,
       EvictNothing
<1>5. ASSUME SwapStep, ~RetireTriplet
      PROVE  /\ open \subseteq open' /\ closed.dict \subseteq closed'.dict
             /\ large.dict \subseteq large'.dict
  <2>1. ASSUME NEW t \in Triplets, CloseTriplet(t)
        PROVE  /\ open \subseteq open' /\ closed.dict \subseteq closed'.dict
               /\ large.dict \subseteq large'.dict
    BY <1>1, <2>1, LruKeys DEF CloseTriplet
  <2> QED
    BY <1>5, <2>1 DEF SwapStep, ScanOpenTriplets, PublishTriplets, RetirePanics
<1>6. ASSUME NEW u \in TripletIds, PurgeTriplet(u)
      PROVE  /\ u \in sweep
             /\ open' = open /\ closed'.dict = closed.dict \ {u}
             /\ large'.dict = large.dict \ {u} /\ doomed' = doomed
  BY <1>1, <1>6, LruKeys DEF PurgeTriplet
<1>7. CASE UNCHANGED vars
  BY <1>7 DEF vars
<1> QED
  BY <1>2, <1>4, <1>5, <1>6, <1>7 DEF Next, Kill, HttpRead, OnlyReaders, LoopBatchWrite,
     PurgeWaitOver, OriginUpdate, LoopGarbageCollection

(* What an eviction has chosen stays chosen while it is in use. *)
LEMMA ChosenStays ==
  ASSUME TypeOK, [Next]_vars, ~Restart, NEW t \in Triplets,
         InUse(t) \/ t \in swap.old, t \in doomed
  PROVE  t \in doomed'
<1> USE DEF diskVars, pbhVars, gcVars
<1>1. ASSUME NEW r \in Readers, ReaderStep(r)
      PROVE  doomed' = doomed
  BY <1>1 DEF ReaderStep, Die, OnlyReaders, ListFails, ListMiss, ListPending, ListReady,
     CreateFileForCache, CreateFails, EnqueueWriteReq, MarkStale, MarkStaleFails,
     CheckWindow, CheckLate, Get, ReadBlob, ReadBlobFatal
<1>2. ASSUME NEW ids \in SUBSET Triplets, NEW m, CreateTriplets(ids, m), \A u \in ids : Fresh(u)
      PROVE  t \in doomed'
  BY <1>2 DEF CreateTriplets, Fresh, InUse
<1>3. ASSUME NEW w \in Workers, WorkerStep(w)
      PROVE  t \in doomed'
  <2>1. CASE EnqueueDeletionReq(w)
    BY <2>1 DEF EnqueueDeletionReq
  <2>2. CASE PutLarge(w)
    <3>1. PICK u \in Triplets : Fresh(u) /\ CreateTriplets({u}, "large")
      BY <2>2 DEF PutLarge
    <3> QED
      BY <1>2, <3>1
  <2> QED
    BY <1>3, <2>1, <2>2 DEF WorkerStep, Die, OnlyJobs, DownLoad, FetchFails,
       DownLoadPanics, Admit, CacheFull, PickOpen, ResolvePick, ResolvePanics, PutBin,
       PutIdx, PutIdxFails, SealFileAtCache, SealFails, RollbackFileInDB, RollbackFails,
       EvictNothing, EvictFails
<1>4. CASE SwapStep
  <2>1. CASE ScanOpenTriplets
    <3>1. PICK ids \in SUBSET Triplets :
            (\A u \in ids : Fresh(u)) /\ CreateTriplets(ids, "open")
      BY <2>1 DEF ScanOpenTriplets
    <3> QED
      BY <1>2, <3>1
  <2> QED
    BY <1>4, <2>1 DEF SwapStep, Die, PublishTriplets, CloseTriplet, RetireTriplet,
       RetirePanics
<1>5. CASE UNCHANGED vars
  BY <1>5 DEF vars
<1> QED
  BY <1>1, <1>3, <1>4, <1>5 DEF Next, Die, Kill, HttpRead, OnlyReaders, LoopBatchWrite,
     PurgeWaitOver, OriginUpdate, LoopGarbageCollection, PurgeTriplet

(* A triplet in use leaves the caches only after an eviction chose it. *)
LEMMA HeldStays ==
  ASSUME TypeOK, PurgedAreDoomed, SwapPlaced, [Next]_vars, ~Restart, ~Die,
         NEW f, NEW t \in Triplets, InUse(t), Held(f, t)
  PROVE  Held(f, t)'
<1>1. CASE t \in doomed
  BY <1>1, ChosenStays DEF Held
<1>2. CASE t \notin doomed
  <2>1. IF f \in LargeFiles THEN t \in large.dict ELSE t \in open \cup closed.dict
    BY <1>2 DEF Held, Host
  <2>2. CASE /\ open \subseteq open' /\ closed.dict \subseteq closed'.dict
             /\ large.dict \subseteq large'.dict
    BY <2>1, <2>2 DEF Held, Host
  <2>3. CASE RetireTriplet
    <3>1. swap.cur \in closed.dict \cup doomed
      BY <2>3 DEF RetireTriplet, SwapAt, SwapPlaced
    <3>2. open' = open \ {swap.cur} /\ UNCHANGED <<closed, large, doomed>>
      BY <2>3 DEF RetireTriplet, gcVars
    <3> QED
      BY <1>2, <2>1, <3>1, <3>2 DEF Held, Host
  <2>4. ASSUME NEW u \in sweep, open' = open, closed'.dict = closed.dict \ {u},
               large'.dict = large.dict \ {u}
        PROVE  Held(f, t)'
    <3>1. t # u
      BY <1>2 DEF PurgedAreDoomed
    <3> QED
      BY <2>1, <2>4, <3>1 DEF Held, Host
  <2> QED
    BY <2>2, <2>3, <2>4, CacheSteps
<1> QED
  BY <1>1, <1>2

-----------------------------------------------------------------------------
(* The round of LoopHotSwap. *)

(* The state bytes of open triplets and of replacements are changed by no one
   to "large": only a new triplet gets that byte. *)
LEMMA SmallStays ==
  ASSUME TypeOK, [Next]_vars, ~Restart, NEW t \in Triplets,
         t \in open \cup swap.fresh, mode[t] # "large"
  PROVE  mode'[t] # "large"
<1> USE DEF diskVars, pbhVars, gcVars
<1>1. ASSUME NEW r \in Readers, ReaderStep(r)
      PROVE  mode' = mode
  BY <1>1 DEF ReaderStep, Die, OnlyReaders, ListFails, ListMiss, ListPending, ListReady,
     CreateFileForCache, CreateFails, EnqueueWriteReq, MarkStale, MarkStaleFails,
     CheckWindow, CheckLate, Get, ReadBlob, ReadBlobFatal
<1>2. ASSUME NEW w \in Workers, WorkerStep(w)
      PROVE  mode'[t] # "large"
  <2>1. CASE PutLarge(w)
    <3>1. PICK u \in Triplets : Fresh(u) /\ CreateTriplets({u}, "large")
      BY <2>1 DEF PutLarge
    <3> QED
      BY <3>1 DEF CreateTriplets, Fresh
  <2> QED
    BY <1>2, <2>1 DEF WorkerStep, Die, OnlyJobs, DownLoad, FetchFails, DownLoadPanics,
       Admit, CacheFull, PickOpen, ResolvePick, ResolvePanics, PutBin, PutIdx,
       PutIdxFails, SealFileAtCache, SealFails, RollbackFileInDB, RollbackFails,
       EnqueueDeletionReq, EvictNothing, EvictFails
<1>3. CASE SwapStep
  <2>1. CASE ScanOpenTriplets
    BY <2>1 DEF ScanOpenTriplets, CreateTriplets
  <2>2. CASE RetireTriplet
    BY <2>2 DEF RetireTriplet, TypeOK
  <2> QED
    BY <1>3, <2>1, <2>2 DEF SwapStep, Die, PublishTriplets, CloseTriplet, RetirePanics
<1>4. ASSUME NEW u \in TripletIds, PurgeTriplet(u)
      PROVE  mode'[t] # "large"
  BY <1>4 DEF PurgeTriplet, DeleteTripletFilesOnDisk
<1>5. CASE UNCHANGED vars
  BY <1>5 DEF vars
<1> QED
  BY <1>1, <1>2, <1>3, <1>4, <1>5 DEF Next, Die, Kill, HttpRead, OnlyReaders,
     LoopBatchWrite, PurgeWaitOver, OriginUpdate, LoopGarbageCollection

(* SwapPlaced outside LoopHotSwap. *)
LEMMA OthersKeepSwap ==
  ASSUME TypeOK, PurgedAreDoomed, SwapPlaced, [Next]_vars, ~Restart, ~Die, ~SwapStep
  PROVE  SwapPlaced'
<1>1. open' = open /\ swap' = swap
  BY OpenSteps
<1>2. swap \in Swaps /\ open \subseteq Triplets
  BY DEF TypeOK
<1>3. \A t \in open' \cup swap'.fresh : mode'[t] # "large"
  BY <1>1, <1>2, SmallStays DEF SwapPlaced, Swaps
<1>4. ASSUME swap.pc = "retire"
      PROVE  swap.cur \in closed'.dict \cup doomed'
  <2>1. PICK t : t = swap.cur
    OBVIOUS
  <2>2. t \in swap.old /\ t \in Triplets /\ t \in closed.dict \cup doomed
    BY <1>2, <1>4, <2>1 DEF SwapPlaced
  <2>3. CASE t \in doomed
    BY <2>1, <2>2, <2>3, ChosenStays
  <2>4. CASE t \notin doomed
    <3>1. ~RetireTriplet
      BY DEF SwapStep
    <3> QED
      BY <2>1, <2>2, <2>4, <3>1, CacheSteps DEF PurgedAreDoomed
  <2> QED
    BY <2>3, <2>4
<1> QED
  BY <1>1, <1>3, <1>4 DEF SwapPlaced

(* SwapPlaced through a round. *)
LEMMA SwapKeepsSwap ==
  ASSUME TypeOK, SwapPlaced, SwapStep, ~Die
  PROVE  SwapPlaced'
<1>1. swap \in Swaps /\ open \subseteq Triplets /\ closed \in LruCache
      /\ mode \in [Triplets -> {"open", "closed", "large"}]
  BY DEF TypeOK
<1>2. CASE ScanOpenTriplets
  <2> DEFINE full == {t \in open : bin[t] > CloseAt}
  <2>1. PICK ids \in SUBSET Triplets :
          /\ CreateTriplets(ids, "open")
          /\ swap' = [pc |-> "publish", fresh |-> ids, old |-> full, cur |-> NoTriplet]
    BY <1>2 DEF ScanOpenTriplets
  <2>2. open' = open
    BY <1>2 DEF ScanOpenTriplets
  <2> QED
    BY <1>1, <2>1, <2>2 DEF SwapPlaced, CreateTriplets
<1>3. CASE PublishTriplets
  <2>1. /\ open' = open \cup swap.fresh /\ mode' = mode
        /\ swap'.pc = "close" /\ swap'.old = swap.old /\ swap'.fresh = {}
    BY <1>1, <1>3 DEF PublishTriplets, Swaps, diskVars
  <2> QED
    BY <2>1 DEF SwapPlaced
<1>4. ASSUME NEW t \in Triplets, CloseTriplet(t)
      PROVE  SwapPlaced'
  <2>1. /\ UNCHANGED <<open, mode, doomed>>
        /\ swap'.pc = "retire" /\ swap'.old = swap.old /\ swap'.cur = t
        /\ swap'.fresh = swap.fresh /\ t \in swap.old
    BY <1>1, <1>4 DEF CloseTriplet, Swaps, diskVars, gcVars
  <2>2. t \in closed'.dict
    BY <1>1, <1>4, LruKeys DEF CloseTriplet
  <2> QED
    BY <2>1, <2>2 DEF SwapPlaced
<1>5. CASE RetireTriplet
  <2>1. /\ open' = open \ {swap.cur}
        /\ mode' = [mode EXCEPT ![swap.cur] = "closed"]
    BY <1>5 DEF RetireTriplet
  <2>2. /\ swap'.pc # "retire"
        /\ swap'.old \subseteq swap.old \ {swap.cur}
        /\ swap'.fresh \subseteq swap.fresh
    <3>1. CASE swap.old = {swap.cur}
      BY <1>5, <3>1 DEF RetireTriplet, IdleSwap
    <3>2. CASE swap.old # {swap.cur}
      BY <1>1, <1>5, <3>2 DEF RetireTriplet, Swaps
    <3> QED
      BY <3>1, <3>2
  <2>3. \A t \in Triplets : mode[t] # "large" => mode'[t] # "large"
    BY <1>1, <2>1
  <2>4. swap.fresh \subseteq Triplets
    BY <1>1 DEF Swaps
  <2> QED
    BY <1>1, <2>1, <2>2, <2>3, <2>4 DEF SwapPlaced
<1> QED
  BY <1>2, <1>3, <1>4, <1>5 DEF SwapStep, RetirePanics

-----------------------------------------------------------------------------
(* The goroutines. *)

(* A goroutine gets to the files of a triplet by making one for a large object,
   or by resolving the open triplet it picked for a small one. *)
LEMMA JobTripletSteps ==
  ASSUME TypeOK, [Next]_vars, NEW w \in Workers
  PROVE  /\ job'[w].pc \in {"bin", "idx", "seal"} =>
              \/ /\ job[w].pc \in {"bin", "idx", "seal"}
                 /\ job'[w].file = job[w].file /\ job'[w].tri = job[w].tri
              \/ /\ ResolvePick(w)
                 /\ job'[w].file = job[w].file /\ job'[w].tri = job[w].tri
              \/ PutLarge(w)
         /\ job'[w].pc = "resolve" =>
              \/ job'[w] = job[w]
              \/ PickOpen(w) /\ job'[w].file \notin LargeFiles /\ job'[w].tri \in open
<1> USE DEF diskVars, pbhVars, gcVars
<1>1. job \in [Workers -> Jobs] /\ job[w] \in Jobs
  BY DEF TypeOK
<1> DEFINE Files3 == {"bin", "idx", "seal"}
           Same == job'[w] = job[w]
           Away == job'[w].pc \notin Files3 \cup {"resolve"}
           On == /\ job[w].pc \in Files3 /\ job'[w].pc \in Files3
                 /\ job'[w].file = job[w].file /\ job'[w].tri = job[w].tri
<1>2. CASE UNCHANGED job
  BY <1>2
<1>3. ASSUME Die
      PROVE  Away
  BY <1>3 DEF Die, IdleJob
<1>4. ASSUME LoopBatchWrite
      PROVE  Away
  <2> DEFINE n == Smaller(BatchSize, Len(wQueue))
  <2>1. job' = [v \in Workers |->
                  IF v <= n THEN [IdleJob EXCEPT !.pc = "fetch", !.file = wQueue[v]]
                  ELSE IdleJob]
    BY <1>4 DEF LoopBatchWrite
  <2> HIDE DEF n
  <2> QED
    BY <2>1 DEF IdleJob
<1>5. ASSUME NEW v \in Workers, NEW pc, GotoJob(v, pc), pc \notin Files3 \cup {"resolve"}
      PROVE  Same \/ Away
  BY <1>1, <1>5 DEF GotoJob, Jobs
<1>6. ASSUME NEW v \in Workers, EndJob(v)
      PROVE  Same \/ Away
  BY <1>1, <1>6 DEF EndJob, IdleJob
<1>7. ASSUME NEW v \in Workers, NEW pc \in Files3, GotoJob(v, pc), job[v].pc \in Files3
      PROVE  Same \/ On
  BY <1>1, <1>7 DEF GotoJob, Jobs
<1>8. ASSUME NEW r \in Readers, ReaderStep(r)
      PROVE  UNCHANGED job \/ Die
  BY <1>8 DEF ReaderStep, OnlyReaders, ListFails, ListMiss, ListPending, ListReady,
     CreateFileForCache, CreateFails, EnqueueWriteReq, MarkStale, MarkStaleFails,
     CheckWindow, CheckLate, Get, ReadBlob, ReadBlobFatal
<1>9. ASSUME NEW v \in Workers, WorkerStep(v)
      PROVE  \/ Same \/ Away \/ On
             \/ /\ ResolvePick(w)
                /\ job'[w].file = job[w].file /\ job'[w].tri = job[w].tri
                /\ job'[w].pc = "bin"
             \/ PutLarge(w) /\ job'[w].pc = "bin"
             \/ /\ PickOpen(w) /\ job'[w].pc = "resolve"
                /\ job'[w].file \notin LargeFiles /\ job'[w].tri \in open
  <2>1. CASE DownLoad(v)
    BY <1>1, <2>1 DEF DownLoad, Jobs
  <2>2. CASE FetchFails(v) \/ SealFileAtCache(v) \/ SealFails(v) \/ EnqueueDeletionReq(v)
             \/ EvictNothing(v) \/ EvictFails(v)
    BY <1>6, <2>2 DEF FetchFails, SealFileAtCache, SealFails, EnqueueDeletionReq,
       EvictNothing, EvictFails
  <2>3. CASE DownLoadPanics(v) \/ ResolvePanics(v)
    BY <1>3, <2>3 DEF DownLoadPanics, ResolvePanics
  <2>4. CASE Admit(v) \/ CacheFull(v) \/ PutIdxFails(v)
    BY <1>5, <2>4 DEF Admit, CacheFull, PutIdxFails
  <2>5. CASE RollbackFileInDB(v) \/ RollbackFails(v)
    BY <1>5, <1>6, <2>5 DEF RollbackFileInDB, RollbackFails, AfterRollback
  <2>6. CASE PutBin(v) \/ PutIdx(v)
    BY <1>7, <2>6 DEF PutBin, PutIdx, Worker
  <2>7. CASE ResolvePick(v)
    BY <1>1, <2>7 DEF ResolvePick, GotoJob, Jobs
  <2>8. CASE PutLarge(v)
    <3>1. PICK t \in Triplets : job' = [job EXCEPT ![v].pc = "bin", ![v].tri = t]
      BY <2>8 DEF PutLarge
    <3>2. v = w => job'[w].pc = "bin"
      BY <1>1, <3>1 DEF Jobs
    <3>3. v # w => Same
      BY <1>1, <3>1
    <3> QED
      BY <2>8, <3>2, <3>3
  <2>9. CASE PickOpen(v)
    <3>1. PICK t \in open : job' = [job EXCEPT ![v].pc = "resolve", ![v].tri = t]
      BY <2>9 DEF PickOpen
    <3>2. v = w => /\ job'[w].pc = "resolve" /\ job'[w].file = job[w].file
                   /\ job'[w].tri = t
      BY <1>1, <3>1 DEF Jobs
    <3>3. v # w => Same
      BY <1>1, <3>1
    <3> QED
      BY <2>9, <3>2, <3>3 DEF PickOpen
  <2> QED
    BY <1>9, <2>1, <2>2, <2>3, <2>4, <2>5, <2>6, <2>7, <2>8, <2>9 DEF WorkerStep
<1>10. CASE SwapStep
  BY <1>2, <1>3, <1>10 DEF SwapStep, ScanOpenTriplets, PublishTriplets, CloseTriplet,
     RetireTriplet, RetirePanics
<1>11. CASE UNCHANGED vars
  BY <1>2, <1>11 DEF vars
<1> QED
  BY <1>2, <1>3, <1>4, <1>8, <1>9, <1>10, <1>11 DEF Next, Restart, Kill, HttpRead,
     OnlyReaders, PurgeWaitOver, LoopGarbageCollection, PurgeTriplet, OriginUpdate

-----------------------------------------------------------------------------
(* The start of the process. *)

(* An order in which ids are listed names them all. *)
LEMMA OrderNamesAll ==
  ASSUME NEW ids \in SUBSET Triplets, NEW s \in Orders(ids)
  PROVE  LruLoaded(s, Cardinality(ids)).dict = ids
<1> DEFINE n == Cardinality(ids)
<1>1. IsFiniteSet(ids) /\ n \in Nat
  BY TripletsAssumption, FS_Subset, FS_CardinalityType
<1>2. s \in Injection(1..n, ids)
  BY DEF Orders, Injection, IsInjective
<1>3. Cardinality(1..n) = n
  BY <1>1, FS_Interval
<1> HIDE DEF n
<1>4. s \in Surjection(1..n, ids)
  BY <1>1, <1>2, <1>3, FS_Injection DEF n
<1>5. {s[i] : i \in 1..n} = ids
  BY <1>2, <1>4 DEF Surjection, Injection
<1> QED
  BY <1>5, LruLoadedKeys DEF n

(* PhyBH.New puts every triplet a READY row names into the cache its file
   belongs to. *)
LEMMA RestartPlaces ==
  ASSUME BackedInv, RowsPlaced, Restart
  PROVE  SwapPlaced' /\ JobsPlaced' /\ RowsPlaced'
<1> DEFINE tbl == DeleteAllPendingFileInDB(table)
           owners == ListTripleIdOfAllFiles(tbl) \cap Triplets
           kept == owners \cap files
           Loaded(m) == {t \in owners : StateLoaded(kept)[t] = m}
<1>1. PICK new \in IF Loaded("open") = {} THEN {{t} : t \in Triplets \ owners} ELSE {{}},
           c \in Orders(Loaded("closed")), l \in Orders(Loaded("large")) :
        /\ table' = tbl
        /\ mode' = StateLoaded(kept)
        /\ open' = Loaded("open") \cup new
        /\ closed' = LruLoaded(c, Cardinality(Loaded("closed")))
        /\ large' = LruLoaded(l, Cardinality(Loaded("large")))
        /\ doomed' = doomed \cap owners
  BY DEF Restart
<1>2. TypeOK /\ Down /\ ReadyInTriplet /\ ReadyRowBacked
  BY DEF BackedInv
<1>3. closed'.dict = Loaded("closed") /\ large'.dict = Loaded("large")
  BY <1>1, OrderNamesAll
<1>4. new \cap owners = {} /\ new \subseteq Triplets
  BY <1>1
<1>5. swap' = IdleSwap /\ job' = [w \in Workers |-> IdleJob]
  BY <1>2 DEF Restart, Down
<1>6. SwapPlaced'
  <2>1. \A t \in Loaded("open") \cup new : mode'[t] # "large"
    BY <1>1, <1>4 DEF StateLoaded
  <2> QED
    BY <1>1, <1>5, <2>1 DEF SwapPlaced, IdleSwap
<1>7. JobsPlaced'
  BY <1>5 DEF JobsPlaced, JobPlaced, IdleJob
<1>8. ASSUME NEW f \in Files, table'[f].state = "ready"
      PROVE  Kind(f, table[f].tri)' /\ Held(f, table[f].tri)'
  <2>1. table'[f] = table[f]
    BY <1>1, <1>8 DEF DeleteAllPendingFileInDB, DeleteWhere, NoRow
  <2>2. PICK t, v : t = table[f].tri /\ v = table[f].ver
    OBVIOUS
  <2>3. t \in Triplets /\ table[f].owner = t /\ Backed(f, v, t)
    BY <1>2, <1>8, <2>1, <2>2 DEF ReadyInTriplet, ReadyRowBacked
  <2>4. t \in owners
    BY <1>1, <1>8, <2>1, <2>3 DEF ListTripleIdOfAllFiles
  <2>5. CASE t \in doomed
    BY <1>1, <2>1, <2>2, <2>4, <2>5 DEF Kind, Held
  <2>6. CASE t \notin doomed
    <3>1. t \in kept
      BY <2>3, <2>4, <2>6 DEF Backed
    <3>2. mode'[t] = mode[t]
      BY <1>1, <2>3, <3>1 DEF StateLoaded
    <3>3. mode[t] = "large" <=> f \in LargeFiles
      BY <1>8, <2>1, <2>2, <2>6 DEF RowsPlaced, RowPlaced, Kind
    <3>4. mode[t] \in {"open", "closed", "large"}
      BY <1>2, <2>3 DEF TypeOK
    <3>5. t \in Loaded(mode[t])
      BY <1>1, <2>4, <3>2
    <3> HIDE DEF owners, kept, Loaded
    <3>6. IF f \in LargeFiles THEN t \in large'.dict ELSE t \in open' \cup closed'.dict
      BY <1>1, <1>3, <3>3, <3>4, <3>5
    <3> QED
      BY <2>1, <2>2, <3>2, <3>3, <3>6 DEF Kind, Held, Host
  <2> QED
    BY <2>5, <2>6
<1> QED
  BY <1>6, <1>7, <1>8 DEF RowsPlaced, RowPlaced

-----------------------------------------------------------------------------
(* Goroutines and rows through the other steps. *)

(* JobsPlaced is preserved. *)
LEMMA JobsStayPlaced ==
  ASSUME ReachInv, [Next]_vars, ~Restart, ~Die, NEW w \in Workers
  PROVE  JobPlaced(w)'
<1>1. TypeOK /\ PurgedAreDoomed /\ SwapPlaced /\ JobPlaced(w)
  BY DEF ReachInv, BackedInv, JobsPlaced
<1>2. PICK f, t : f = job[w].file /\ t = job[w].tri
  OBVIOUS
<1>3. job[w] \in Jobs
  BY <1>1 DEF TypeOK
<1>4. ASSUME t \in Triplets, Kind(f, t), Held(f, t), job'[w].file = f, job'[w].tri = t
      PROVE  /\ job'[w].tri \in Triplets
             /\ Kind(job[w].file, job[w].tri)' /\ Held(job[w].file, job[w].tri)'
  <2>1. InUse(t)
    BY <1>2 DEF InUse
  <2>2. Kind(f, t)' /\ Held(f, t)'
    BY <1>1, <1>4, <2>1, KindStays, HeldStays
  <2> QED
    BY <1>4, <2>2
<1>5. ASSUME job'[w].pc \in {"bin", "idx", "seal"}
      PROVE  /\ job'[w].tri \in Triplets
             /\ Kind(job[w].file, job[w].tri)' /\ Held(job[w].file, job[w].tri)'
  <2>1. CASE /\ job[w].pc \in {"bin", "idx", "seal"}
             /\ job'[w].file = job[w].file /\ job'[w].tri = job[w].tri
    BY <1>1, <1>2, <1>4, <2>1 DEF JobPlaced
  <2>2. CASE ResolvePick(w) /\ job'[w].file = job[w].file /\ job'[w].tri = job[w].tri
    <3>1. f \notin LargeFiles /\ t \in open /\ t \in Triplets
      BY <1>1, <1>2, <2>2 DEF ResolvePick, Worker, JobPlaced, TypeOK
    <3>2. Kind(f, t) /\ Held(f, t)
      BY <1>1, <3>1 DEF SwapPlaced, Kind, Held, Host
    <3> QED
      BY <1>2, <1>4, <2>2, <3>1, <3>2
  <2>3. CASE PutLarge(w)
    <3>1. PICK u \in Triplets :
            /\ CreateTriplets({u}, "large")
            /\ large' = LruPut(large, u)
            /\ job' = [job EXCEPT ![w].pc = "bin", ![w].tri = u]
      BY <2>3 DEF PutLarge
    <3>2. f \in LargeFiles
      BY <1>2, <2>3 DEF PutLarge
    <3>3. job'[w].file = f /\ job'[w].tri = u
      BY <1>1, <1>2, <1>3, <3>1 DEF TypeOK, Jobs
    <3>4. u \in large'.dict /\ mode'[u] = "large"
      BY <1>1, <3>1, LruKeys DEF CreateTriplets, TypeOK
    <3> QED
      BY <3>2, <3>3, <3>4 DEF Kind, Held, Host
  <2> QED
    BY <1>1, <1>5, <2>1, <2>2, <2>3, JobTripletSteps
<1>6. job'[w].pc = "resolve" => job'[w].file \notin LargeFiles
  BY <1>1, JobTripletSteps DEF JobPlaced
<1> QED
  BY <1>5, <1>6 DEF JobPlaced

(* RowsPlaced is preserved: a commit promises what its goroutine holds. *)
LEMMA RowsStayPlaced ==
  ASSUME ReachInv, [Next]_vars, ~Restart, NEW f \in Files
  PROVE  RowPlaced(f)'
<1>1. TypeOK /\ Down /\ PurgedAreDoomed /\ SwapPlaced /\ ReadyInTriplet
  BY DEF ReachInv, BackedInv
<1>2. SUFFICES ASSUME table'[f].state = "ready"
               PROVE  Kind(f, table[f].tri)' /\ (up' => Held(f, table[f].tri)')
  BY DEF RowPlaced
<1>3. ASSUME NEW t \in Triplets, InUse(t), Kind(f, t), up => Held(f, t), table'[f].tri = t
      PROVE  Kind(f, table[f].tri)' /\ (up' => Held(f, table[f].tri)')
  <2>1. Kind(f, t)'
    BY <1>1, <1>3, KindStays
  <2>2. ASSUME up'
        PROVE  Held(f, t)'
    <3>1. ~Die
      BY <2>2 DEF Die
    <3>2. up
      BY <2>2, <3>1, UpSteps
    <3> QED
      BY <1>1, <1>3, <3>1, <3>2, HeldStays
  <2> QED
    BY <1>3, <2>1, <2>2
<1>4. CASE table'[f] = table[f]
  <2>1. PICK t : t = table[f].tri
    OBVIOUS
  <2>2. t \in Triplets /\ InUse(t) /\ Kind(f, t) /\ (up => Held(f, t))
    BY <1>1, <1>2, <1>4, <2>1
       DEF ReachInv, ReadyInTriplet, InUse, RowsPlaced, RowPlaced
  <2> QED
    BY <1>3, <1>4, <2>1, <2>2
<1>5. ASSUME NEW w \in Workers, job[w].pc = "seal", job[w].file = f, table'[f].tri = job[w].tri
      PROVE  Kind(f, table[f].tri)' /\ (up' => Held(f, table[f].tri)')
  <2>1. PICK t : t = job[w].tri
    OBVIOUS
  <2>2. t \in Triplets /\ InUse(t) /\ Kind(f, t) /\ Held(f, t)
    BY <1>5, <2>1 DEF ReachInv, JobsPlaced, JobPlaced, InUse
  <2> QED
    BY <1>3, <1>5, <2>1, <2>2
<1> QED
  BY <1>1, <1>2, <1>4, <1>5, ReadyRowSteps

(* ReachInv is inductive. *)
LEMMA ReachAlways == Spec => []ReachInv
<1>1. Init => SwapPlaced /\ JobsPlaced /\ RowsPlaced
  <2> SUFFICES ASSUME Init
               PROVE  SwapPlaced /\ JobsPlaced /\ RowsPlaced
    OBVIOUS
  <2>1. \A f \in Files : table[f].state # "ready"
    BY DEF Init, EmptyTable, NoRow
  <2> QED
    BY <2>1 DEF Init, SwapPlaced, JobsPlaced, JobPlaced, RowsPlaced, RowPlaced, IdleSwap,
       IdleJob
<1>2. BackedInv /\ SwapPlaced /\ JobsPlaced /\ RowsPlaced /\ [Next]_vars
      => SwapPlaced' /\ JobsPlaced' /\ RowsPlaced'
  <2> SUFFICES ASSUME BackedInv, SwapPlaced, JobsPlaced, RowsPlaced, [Next]_vars
               PROVE  SwapPlaced' /\ JobsPlaced' /\ RowsPlaced'
    OBVIOUS
  <2>1. TypeOK /\ PurgedAreDoomed /\ ReachInv
    BY DEF ReachInv, BackedInv
  <2>2. CASE Restart
    BY <2>2, RestartPlaces
  <2>3. CASE Die /\ ~Restart
    <3>1. SwapPlaced' /\ JobsPlaced'
      BY <2>3 DEF Die, SwapPlaced, JobsPlaced, JobPlaced, IdleSwap, IdleJob
    <3> QED
      BY <2>1, <2>3, <3>1, RowsStayPlaced DEF RowsPlaced
  <2>4. CASE ~Die /\ ~Restart
    <3>1. SwapPlaced'
      BY <2>1, <2>4, OthersKeepSwap, SwapKeepsSwap
    <3> QED
      BY <2>1, <2>4, <3>1, JobsStayPlaced, RowsStayPlaced DEF JobsPlaced, RowsPlaced
  <2> QED
    BY <2>2, <2>3, <2>4
<1> QED
  BY <1>1, <1>2, BackedAlways, PTL DEF Spec, ReachInv

(* Whenever the process serves, the triplet of a READY row is in the cache that
   PhyBH.Get looks in, unless an eviction chose it: swaps, purges of other
   triplets, crashes and starts lose none. *)
THEOREM ReadyRowsReachable == Spec => []ReadyRowReachable
<1>1. ReachInv => ReadyRowReachable
  BY DEF ReachInv, RowsPlaced, RowPlaced, Held, ReadyRowReachable
<1> QED
  BY <1>1, ReachAlways, PTL

-----------------------------------------------------------------------------
(* Rows of evicted triplets. *)

(* Only EnqueueDeletionReq chooses a triplet. *)
LEMMA DoomedSteps ==
  ASSUME [Next]_vars
  PROVE  doomed' \subseteq doomed \/ \E w \in Workers : EnqueueDeletionReq(w)
<1> USE DEF diskVars, pbhVars, gcVars
<1>1. ASSUME NEW r \in Readers, ReaderStep(r)
      PROVE  doomed' = doomed
  BY <1>1 DEF ReaderStep, Die, OnlyReaders, ListFails, ListMiss, ListPending, ListReady,
     CreateFileForCache, CreateFails, EnqueueWriteReq, MarkStale, MarkStaleFails,
     CheckWindow, CheckLate, Get, ReadBlob, ReadBlobFatal
<1>2. ASSUME NEW w \in Workers, WorkerStep(w), ~EnqueueDeletionReq(w)
      PROVE  doomed' \subseteq doomed
  <2>1. CASE PutLarge(w)
    BY <2>1 DEF PutLarge, CreateTriplets
  <2> QED
    BY <1>2, <2>1 DEF WorkerStep, Die, OnlyJobs, DownLoad, FetchFails, DownLoadPanics,
       Admit, CacheFull, PickOpen, ResolvePick, ResolvePanics, PutBin, PutIdx,
       PutIdxFails, SealFileAtCache, SealFails, RollbackFileInDB, RollbackFails,
       EvictNothing, EvictFails
<1>3. CASE SwapStep
  <2>1. CASE ScanOpenTriplets
    BY <2>1 DEF ScanOpenTriplets, CreateTriplets
  <2> QED
    BY <1>3, <2>1 DEF SwapStep, Die, PublishTriplets, CloseTriplet, RetireTriplet,
       RetirePanics
<1>4. CASE Restart
  BY <1>4 DEF Restart
<1>5. CASE UNCHANGED vars
  BY <1>5 DEF vars
<1> QED
  BY <1>1, <1>2, <1>3, <1>4, <1>5 DEF Next, Die, Kill, HttpRead, OnlyReaders,
     LoopBatchWrite, PurgeWaitOver, OriginUpdate, LoopGarbageCollection, PurgeTriplet

(* A row that becomes one of an evicted triplet was committed by this step. *)
LEMMA LateRowSteps ==
  ASSUME BackedInv, [Next]_vars, NEW f \in Files, LateRow(f)', ~LateRow(f)
  PROVE  \E w \in Workers : job[w].file = f /\ SealFileAtCache(w)
<1>1. TypeOK /\ ReadyInTriplet /\ ReadyRowBacked
  BY DEF BackedInv
<1>2. table'[f].state = "ready" /\ table'[f].tri \in doomed'
  BY DEF LateRow
<1>3. SUFFICES ASSUME table'[f] = table[f]
               PROVE  FALSE
  BY <1>1, <1>2, ReadyRowSteps
<1>4. PICK t : t = table[f].tri
  OBVIOUS
<1>5. t \in Triplets /\ table[f].owner = t /\ t \notin doomed /\ t \in doomed'
  BY <1>1, <1>2, <1>3, <1>4 DEF ReadyInTriplet, ReadyRowBacked, LateRow
<1>6. PICK w \in Workers : EnqueueDeletionReq(w)
  BY <1>5, DoomedSteps
<1>7. doomed' = doomed \cup {Victim} /\ table' = DeleteFileWithTripleIdInDB(table, Victim)
  BY <1>6 DEF EnqueueDeletionReq
<1>8. table' = DeleteFileWithTripleIdInDB(table, t)
  BY <1>5, <1>7
<1>9. table'[f] = NoRow
  BY <1>2, <1>3, <1>5, <1>8 DEF DeleteFileWithTripleIdInDB, DeleteWhere
<1> QED
  BY <1>2, <1>9 DEF NoRow

(* A READY row that names an evicted triplet was committed after the eviction:
   the DELETE by owner finds every row whose token names the triplet. *)
THEOREM LateCommitsOnly == Spec => OnlyLateCommitsDangle
<1>1. ASSUME BackedInv, [Next]_vars
      PROVE  [\A f \in Files :
                LateRow(f)' => LateRow(f) \/ \E w \in Workers : job[w].file = f /\ SealFileAtCache(w)]_vars
  BY <1>1, LateRowSteps
<1> QED
  BY <1>1, BackedAlways, PTL DEF Spec, OnlyLateCommitsDangle

-----------------------------------------------------------------------------
(* The deaths of the process. *)

(* A request from its time check to its read: the triplet it listed. *)
ReaderFound(r) == rd[r].pc \in {"check", "get", "read"} => rd[r].tri \in doomed \cup files

(* The pick of a Put was an open triplet; the swapper may retire it since. *)
PickFound(w) ==
    job[w].pc = "resolve" =>
        job[w].tri \in Triplets /\ job[w].tri \in open \cup closed.dict \cup doomed

(* No eviction, timer or purge knows the triplet. *)
Untouched(t) ==
    /\ t \in files /\ t \notin pQueue /\ t \notin sweep /\ purge[t] = "no"
    /\ LruForgot(closed, t) /\ LruForgot(large, t)

(* Open triplets and replacements, up to the one that just entered ClosedTplt. *)
OpenUntouched ==
    /\ swap.pc # "publish" => swap.fresh = {}
    /\ \A t \in open \cup swap.fresh : (swap.pc = "retire" => t # swap.cur) => Untouched(t)

(* That one keeps its files until an eviction chooses it. *)
CurFound == swap.pc = "retire" => swap.cur \in doomed \cup files

DeathsInv ==
    /\ ReachInv
    /\ \A r \in Readers : ReaderFound(r)
    /\ \A w \in Workers : PickFound(w)
    /\ OpenUntouched /\ CurFound

(* How a request gets there. *)
LEMMA ReaderFoundSteps ==
  ASSUME TypeOK, [Next]_vars, NEW r \in Readers, rd'[r].pc \in {"check", "get", "read"}
  PROVE  \/ ListReady(r)
         \/ rd[r].pc \in {"check", "get", "read"} /\ rd'[r].tri = rd[r].tri
<1> USE DEF diskVars, pbhVars, gcVars
<1>1. rd \in [Readers -> Requests] /\ rd[r] \in Requests
  BY DEF TypeOK
<1> DEFINE On == rd[r].pc \in {"check", "get", "read"} /\ rd'[r].tri = rd[r].tri
<1>2. CASE UNCHANGED rd
  BY <1>2
<1>3. ASSUME NEW q \in Readers, NEW pc, Goto(q, pc),
             pc \notin {"check", "get", "read"} \/ rd[q].pc \in {"check", "get"}
      PROVE  On
  BY <1>1, <1>3 DEF Goto, Requests
<1>4. ASSUME NEW q \in Readers, Answer(q)
      PROVE  On
  BY <1>1, <1>4 DEF Answer, IdleReader
<1>5. ASSUME Die
      PROVE  FALSE
  BY <1>5 DEF Die, IdleReader
<1>6. ASSUME NEW q \in Readers, ReaderStep(q)
      PROVE  ListReady(r) \/ On
  <2>1. CASE ListReady(q)
    BY <1>1, <2>1 DEF ListReady
  <2>2. CASE CheckWindow(q)
    BY <1>1, <2>2 DEF CheckWindow, Reader, Requests
  <2>3. CASE ListMiss(q) \/ CreateFileForCache(q) \/ MarkStale(q) \/ MarkStaleFails(q)
    BY <1>3, <2>3 DEF ListMiss, CreateFileForCache, MarkStale, MarkStaleFails
  <2>4. CASE Get(q)
    BY <1>3, <1>4, <2>4 DEF Get, Reader
  <2> QED
    BY <1>4, <1>5, <1>6, <2>1, <2>2, <2>3, <2>4 DEF ReaderStep, ListFails, ListPending,
       CreateFails, EnqueueWriteReq, CheckLate, ReadBlob, ReadBlobFatal
<1>7. ASSUME NEW q \in Readers, NEW f \in Files, HttpRead(q, f)
      PROVE  On
  BY <1>1, <1>7 DEF HttpRead, IdleReader
<1>8. ASSUME NEW w \in Workers, EnqueueDeletionReq(w)
      PROVE  On
  <2>1. rd'[r] = IF rd[r].pc = "check" /\ rd[r].tri = Victim /\ Victim \notin doomed
                 THEN [rd[r] EXCEPT !.win = "open"] ELSE rd[r]
    BY <1>8 DEF EnqueueDeletionReq
  <2> QED
    BY <1>1, <2>1 DEF Requests
<1>9. ASSUME NEW w \in Workers, WorkerStep(w), ~EnqueueDeletionReq(w)
      PROVE  UNCHANGED rd \/ Die
  BY <1>9 DEF WorkerStep, OnlyJobs, DownLoad, FetchFails, DownLoadPanics, Admit,
     CacheFull, PutLarge, PickOpen, ResolvePick, ResolvePanics, PutBin, PutIdx,
     PutIdxFails, SealFileAtCache, SealFails, RollbackFileInDB, RollbackFails,
     EvictNothing, EvictFails
<1>10. ASSUME NEW t \in TripletIds, PurgeWaitOver(t)
        PROVE  On
  BY <1>1, <1>10, WaitOverSteps
<1>11. CASE SwapStep
  BY <1>2, <1>5, <1>11 DEF SwapStep, ScanOpenTriplets, PublishTriplets, CloseTriplet,
     RetireTriplet, RetirePanics
<1>12. CASE UNCHANGED vars
  BY <1>2, <1>12 DEF vars
<1> QED
  BY <1>2, <1>5, <1>6, <1>7, <1>8, <1>9, <1>10, <1>11, <1>12 DEF Next, Restart, Kill,
     LoopBatchWrite, LoopGarbageCollection, PurgeTriplet, OriginUpdate

(* ReaderFound is preserved. *)
LEMMA ReaderFoundStays ==
  ASSUME BackedInv, [Next]_vars, ~Restart, ~Die, NEW r \in Readers, ReaderFound(r)
  PROVE  ReaderFound(r)'
<1>1. TypeOK /\ PurgedAreDoomed /\ ReadyRowBacked
  BY DEF BackedInv
<1>2. SUFFICES ASSUME rd'[r].pc \in {"check", "get", "read"}
               PROVE  rd'[r].tri \in doomed' \cup files'
  BY DEF ReaderFound
<1>3. CASE ListReady(r)
  <2>1. PICK row : row = table[rd[r].file]
    OBVIOUS
  <2>2. /\ rd[r].pc = "list" /\ row.state = "ready" /\ UNCHANGED <<files, doomed>>
        /\ rd' = [rd EXCEPT ![r].tri = row.tri, ![r].ver = row.ver,
                            ![r].pc = IF row.etag # rd[r].etag THEN "stale" ELSE "check"]
    BY <1>3, <2>1 DEF ListReady, Reader, OnlyReaders, diskVars, gcVars
  <2>3. rd[r].file \in Files
    BY <1>1, <2>2, RequestFields DEF TypeOK
  <2>4. row.tri \in doomed \cup files
    BY <1>1, <2>1, <2>2, <2>3 DEF ReadyRowBacked, Backed
  <2>5. rd'[r].tri = row.tri
    BY <1>1, <2>2 DEF TypeOK, Requests
  <2> QED
    BY <2>2, <2>4, <2>5
<1>4. CASE rd[r].pc \in {"check", "get", "read"} /\ rd'[r].tri = rd[r].tri
  <2>1. PICK t : t = rd[r].tri
    OBVIOUS
  <2>2. t \in doomed \cup files
    BY <1>4, <2>1 DEF ReaderFound
  <2>3. t \in doomed' \cup files'
    BY <1>1, <2>1, <2>2, ListedStays
  <2> QED
    BY <1>4, <2>1, <2>3
<1> QED
  BY <1>1, <1>2, <1>3, <1>4, ReaderFoundSteps

(* PickFound is preserved: a retired triplet is in ClosedTplt. *)
LEMMA PickFoundStays ==
  ASSUME ReachInv, [Next]_vars, ~Restart, ~Die, NEW w \in Workers, PickFound(w)
  PROVE  PickFound(w)'
<1>1. TypeOK /\ PurgedAreDoomed /\ SwapPlaced
  BY DEF ReachInv, BackedInv
<1>2. SUFFICES ASSUME job'[w].pc = "resolve"
               PROVE  /\ job'[w].tri \in Triplets
                      /\ job'[w].tri \in open' \cup closed'.dict \cup doomed'
  BY DEF PickFound
<1>3. CASE job'[w] = job[w]
  <2>1. PICK t : t = job[w].tri
    OBVIOUS
  <2>2. t \in Triplets /\ t \in open \cup closed.dict \cup doomed /\ InUse(t)
    BY <1>2, <1>3, <2>1 DEF PickFound, InUse
  <2>3. t \in doomed => t \in doomed'
    BY <1>1, <2>2, ChosenStays
  <2>4. CASE open \subseteq open' /\ closed.dict \subseteq closed'.dict
    BY <1>3, <2>1, <2>2, <2>3, <2>4
  <2>5. CASE RetireTriplet
    <3>1. swap.cur \in closed.dict \cup doomed
      BY <1>1, <2>5 DEF RetireTriplet, SwapAt, SwapPlaced
    <3>2. open' = open \ {swap.cur} /\ UNCHANGED <<closed, doomed>>
      BY <2>5 DEF RetireTriplet, gcVars
    <3> QED
      BY <1>3, <2>1, <2>2, <3>1, <3>2
  <2>6. ASSUME NEW u \in sweep, open' = open, closed'.dict = closed.dict \ {u}, doomed' = doomed
        PROVE  t \in open' \cup closed'.dict \cup doomed'
    BY <1>1, <2>2, <2>6 DEF PurgedAreDoomed
  <2> QED
    BY <1>1, <1>3, <2>1, <2>2, <2>4, <2>5, <2>6, CacheSteps
<1>4. CASE PickOpen(w) /\ job'[w].tri \in open
  <2>1. open' = open /\ open \subseteq Triplets
    BY <1>1, <1>4 DEF PickOpen, OnlyJobs, pbhVars, TypeOK
  <2> QED
    BY <1>4, <2>1
<1> QED
  BY <1>1, <1>2, <1>3, <1>4, JobTripletSteps

(* What no eviction knows stays so until CloseTriplet. *)
LEMMA UntouchedStays ==
  ASSUME TypeOK, [Next]_vars, ~Restart, ~Die, NEW t \in Triplets,
         t \in open \cup swap.fresh, Untouched(t), ~CloseTriplet(t)
  PROVE  Untouched(t)'
<1> USE DEF diskVars, pbhVars, gcVars
<1>1. closed \in LruCache /\ large \in LruCache /\ t \in TripletIds
      /\ purge \in [TripletIds -> {"no", "waiting", "ripe"}]
  BY DEF TypeOK, TripletIds
<1>2. /\ t \in files /\ t \notin pQueue /\ t \notin sweep /\ purge[t] = "no"
      /\ LruForgot(closed, t) /\ LruForgot(large, t)
  BY DEF Untouched
<1>3. CASE UNCHANGED <<files, pQueue, sweep, purge, closed, large>>
  BY <1>2, <1>3 DEF Untouched
<1>4. ASSUME NEW ids \in SUBSET Triplets, NEW m, CreateTriplets(ids, m), \A u \in ids : Fresh(u)
      PROVE  t \in files' /\ t \notin pQueue'
  BY <1>2, <1>4 DEF CreateTriplets, Fresh
<1>5. ASSUME DropVictim
      PROVE  Victim # t /\ LruForgot(closed', t) /\ LruForgot(large', t)
  BY <1>1, <1>2, <1>5, ForgottenStays DEF DropVictim, Victim
<1>6. ASSUME NEW r \in Readers, ReaderStep(r)
      PROVE  Untouched(t)'
  <2>1. CASE Get(r)
    <3>1. UNCHANGED <<files, pQueue, sweep, purge>>
      BY <2>1 DEF Get
    <3>2. LruForgot(closed', t) /\ LruForgot(large', t)
      BY <1>1, <1>2, <2>1, ForgottenStays DEF Get
    <3> QED
      BY <1>2, <3>1, <3>2 DEF Untouched
  <2> QED
    BY <1>3, <1>6, <2>1 DEF ReaderStep, OnlyReaders, ListFails, ListMiss, ListPending,
       ListReady, CreateFileForCache, CreateFails, EnqueueWriteReq, MarkStale,
       MarkStaleFails, CheckWindow, CheckLate, ReadBlob, ReadBlobFatal
<1>7. ASSUME NEW w \in Workers, WorkerStep(w)
      PROVE  Untouched(t)'
  <2>1. CASE EnqueueDeletionReq(w)
    <3>1. PICK v : v = Victim
      OBVIOUS
    <3>2. /\ DropVictim /\ UNCHANGED <<files, sweep>>
          /\ purge' = [purge EXCEPT ![v] = "waiting"] /\ pQueue' = pQueue \cup {v}
      BY <2>1, <3>1 DEF EnqueueDeletionReq
    <3> QED
      BY <1>1, <1>2, <1>5, <3>1, <3>2 DEF Untouched
  <2>2. CASE EvictFails(w)
    <3>1. DropVictim /\ UNCHANGED <<files, sweep, purge, pQueue>>
      BY <2>2 DEF EvictFails
    <3> QED
      BY <1>2, <1>5, <3>1 DEF Untouched
  <2>3. CASE PutLarge(w)
    <3>1. PICK u \in Triplets : /\ Fresh(u) /\ CreateTriplets({u}, "large")
                                /\ large' = LruPut(large, u)
      BY <2>3 DEF PutLarge
    <3>2. UNCHANGED <<sweep, purge, closed>>
      BY <2>3 DEF PutLarge
    <3>3. u # t
      BY <3>1 DEF Fresh
    <3>4. LruForgot(large', t)
      BY <1>1, <1>2, <3>1, <3>3, ForgottenStays
    <3>5. t \in files' /\ t \notin pQueue'
      BY <1>4, <3>1
    <3> QED
      BY <1>2, <3>2, <3>4, <3>5 DEF Untouched
  <2> QED
    BY <1>3, <1>7, <2>1, <2>2, <2>3 DEF WorkerStep, OnlyJobs, DownLoad, FetchFails,
       DownLoadPanics, Admit, CacheFull, PickOpen, ResolvePick, ResolvePanics, PutBin,
       PutIdx, PutIdxFails, SealFileAtCache, SealFails, RollbackFileInDB, RollbackFails,
       EvictNothing
<1>8. CASE SwapStep
  <2>1. CASE ScanOpenTriplets
    <3>1. PICK ids \in SUBSET Triplets :
            (\A u \in ids : Fresh(u)) /\ CreateTriplets(ids, "open")
      BY <2>1 DEF ScanOpenTriplets
    <3>2. UNCHANGED <<sweep, purge, closed, large>>
      BY <2>1 DEF ScanOpenTriplets
    <3>3. t \in files' /\ t \notin pQueue'
      BY <1>4, <3>1
    <3> QED
      BY <1>2, <3>2, <3>3 DEF Untouched
  <2>2. ASSUME NEW u \in Triplets, CloseTriplet(u)
        PROVE  Untouched(t)'
    <3>1. u # t
      BY <2>2
    <3>2. closed' = LruPut(closed, u) /\ UNCHANGED <<files, pQueue, sweep, purge, large>>
      BY <2>2 DEF CloseTriplet
    <3>3. LruForgot(closed', t)
      BY <1>1, <1>2, <3>1, <3>2, ForgottenStays
    <3> QED
      BY <1>2, <3>2, <3>3 DEF Untouched
  <2> QED
    BY <1>3, <1>8, <2>1, <2>2 DEF SwapStep, PublishTriplets, RetireTriplet, RetirePanics
<1>9. ASSUME NEW u \in TripletIds, PurgeWaitOver(u)
      PROVE  Untouched(t)'
  <2>1. u # t
    BY <1>2, <1>9 DEF PurgeWaitOver
  <2>2. /\ purge' = [purge EXCEPT ![u] = "ripe"]
        /\ UNCHANGED <<files, pQueue, sweep, closed, large>>
    BY <1>9 DEF PurgeWaitOver
  <2> QED
    BY <1>1, <1>2, <2>1, <2>2 DEF Untouched
<1>10. CASE LoopGarbageCollection
  <2>1. PICK due : /\ due \subseteq pQueue /\ sweep' = due
                   /\ purge' = [u \in TripletIds |-> IF u \in due THEN "no" ELSE purge[u]]
    BY <1>10 DEF LoopGarbageCollection
  <2>2. UNCHANGED <<files, pQueue, closed, large>>
    BY <1>10 DEF LoopGarbageCollection
  <2> QED
    BY <1>1, <1>2, <2>1, <2>2 DEF Untouched
<1>11. ASSUME NEW u \in TripletIds, PurgeTriplet(u)
       PROVE  Untouched(t)'
  <2>1. u # t
    BY <1>2, <1>11 DEF PurgeTriplet
  <2>2. /\ files' = files \ {u} /\ sweep' = sweep \ {u} /\ UNCHANGED <<pQueue, purge>>
        /\ closed' = LruDelete(closed, u) /\ large' = LruDelete(large, u)
    BY <1>11 DEF PurgeTriplet, DeleteTripletFilesOnDisk
  <2>3. LruForgot(closed', t) /\ LruForgot(large', t)
    BY <1>1, <1>2, <2>2, ForgottenStays
  <2> QED
    BY <1>2, <2>1, <2>2, <2>3 DEF Untouched
<1>12. CASE UNCHANGED vars
  BY <1>3, <1>12 DEF vars
<1> QED
  BY <1>3, <1>6, <1>7, <1>8, <1>9, <1>10, <1>11, <1>12 DEF Next, Kill, HttpRead, OnlyReaders,
     LoopBatchWrite, OriginUpdate

(* OpenUntouched is preserved: a replacement is a new id. *)
LEMMA OpenUntouchedStays ==
  ASSUME TypeOK, SwapPlaced, OpenUntouched, [Next]_vars, ~Restart, ~Die
  PROVE  OpenUntouched'
<1> USE DEF diskVars, pbhVars, gcVars
<1>1. swap \in Swaps /\ open \subseteq Triplets
  BY DEF TypeOK
<1>2. ASSUME NEW t \in open \cup swap.fresh, swap.pc = "retire" => t # swap.cur, ~CloseTriplet(t)
      PROVE  Untouched(t)'
  BY <1>1, <1>2, UntouchedStays DEF OpenUntouched, Swaps
<1>3. CASE ~SwapStep
  <2>1. open' = open /\ swap' = swap
    BY <1>3, OpenSteps
  <2>2. \A t \in open \cup swap.fresh : ~CloseTriplet(t)
    BY <1>1, <1>3 DEF SwapStep, Swaps
  <2>3. ASSUME NEW t \in open' \cup swap'.fresh, swap'.pc = "retire" => t # swap'.cur
        PROVE  Untouched(t)'
    BY <1>2, <2>1, <2>2, <2>3
  <2> QED
    BY <2>1, <2>3 DEF OpenUntouched
<1>4. CASE ScanOpenTriplets
  <2>1. PICK ids \in SUBSET Triplets :
          /\ \A t \in ids : Fresh(t)
          /\ CreateTriplets(ids, "open")
          /\ swap'.pc = "publish" /\ swap'.fresh = ids
    BY <1>4 DEF ScanOpenTriplets
  <2>2. /\ swap.pc = "scan" /\ UNCHANGED <<open, sweep, purge, closed, large>>
    BY <1>4 DEF ScanOpenTriplets, SwapAt
  <2>3. ASSUME NEW t \in ids
        PROVE  Untouched(t)'
    BY <2>1, <2>2 DEF CreateTriplets, Fresh, Untouched
  <2>4. ASSUME NEW t \in open
        PROVE  Untouched(t)'
    <3>1. ~CloseTriplet(t)
      BY <2>2 DEF CloseTriplet, SwapAt
    <3> QED
      BY <1>2, <2>2, <3>1
  <2>5. \A t \in open' \cup swap'.fresh : Untouched(t)'
    BY <2>1, <2>2, <2>3, <2>4
  <2> QED
    BY <2>1, <2>5 DEF OpenUntouched
<1>5. CASE PublishTriplets
  <2>1. /\ open' = open \cup swap.fresh /\ swap'.pc = "close" /\ swap'.fresh = {}
        /\ swap.pc = "publish"
    BY <1>1, <1>5 DEF PublishTriplets, SwapAt, Swaps
  <2>2. ASSUME NEW t \in open'
        PROVE  Untouched(t)'
    <3>1. ~CloseTriplet(t)
      BY <2>1 DEF CloseTriplet, SwapAt
    <3> QED
      BY <1>2, <2>1, <3>1
  <2> QED
    BY <2>1, <2>2 DEF OpenUntouched
<1>6. ASSUME NEW u \in Triplets, CloseTriplet(u)
      PROVE  OpenUntouched'
  <2>1. /\ open' = open /\ swap'.pc = "retire" /\ swap'.cur = u /\ swap'.fresh = swap.fresh
        /\ swap.pc = "close"
    BY <1>1, <1>6 DEF CloseTriplet, SwapAt, Swaps
  <2>2. ASSUME NEW t \in open' \cup swap'.fresh, t # swap'.cur
        PROVE  Untouched(t)'
    <3>1. ~CloseTriplet(t)
      BY <1>1, <2>1, <2>2 DEF CloseTriplet, Swaps
    <3> QED
      BY <1>2, <2>1, <2>2, <3>1
  <2> QED
    BY <2>1, <2>2 DEF OpenUntouched
<1>7. CASE RetireTriplet
  <2>1. open' = open \ {swap.cur} /\ swap.pc = "retire" /\ swap.fresh = {}
    BY <1>7 DEF RetireTriplet, SwapAt, OpenUntouched
  <2>2. swap'.pc # "publish" /\ swap'.fresh = {}
    <3>1. CASE swap.old = {swap.cur}
      BY <1>7, <3>1 DEF RetireTriplet, IdleSwap
    <3>2. CASE swap.old # {swap.cur}
      BY <1>1, <1>7, <2>1, <3>2 DEF RetireTriplet, Swaps
    <3> QED
      BY <3>1, <3>2
  <2>3. ASSUME NEW t \in open'
        PROVE  Untouched(t)'
    <3>1. ~CloseTriplet(t)
      BY <2>1 DEF CloseTriplet, SwapAt
    <3> QED
      BY <1>2, <2>1, <2>3, <3>1
  <2> QED
    BY <2>2, <2>3 DEF OpenUntouched
<1> QED
  BY <1>3, <1>4, <1>5, <1>6, <1>7 DEF SwapStep, RetirePanics

(* CurFound is preserved. *)
LEMMA CurFoundStays ==
  ASSUME TypeOK, PurgedAreDoomed, SwapPlaced, OpenUntouched, CurFound,
         [Next]_vars, ~Restart, ~Die
  PROVE  CurFound'
<1> USE DEF diskVars, pbhVars, gcVars
<1>1. swap \in Swaps /\ open \subseteq Triplets
  BY DEF TypeOK
<1>2. CASE ~SwapStep /\ swap'.pc = "retire"
  <2>1. swap' = swap
    BY <1>2, OpenSteps
  <2>2. PICK t : t = swap.cur
    OBVIOUS
  <2>3. t \in Triplets /\ t \in open /\ t \in swap.old
    BY <1>1, <1>2, <2>1, <2>2 DEF SwapPlaced
  <2>4. t \in doomed \cup files
    BY <1>2, <2>1, <2>2 DEF CurFound
  <2>5. t \in doomed' \cup files'
    BY <2>3, <2>4, ListedStays
  <2> QED
    BY <2>1, <2>2, <2>5 DEF CurFound
<1>3. ASSUME NEW u \in Triplets, CloseTriplet(u)
      PROVE  CurFound'
  <2>1. swap'.cur = u /\ swap.pc = "close" /\ u \in swap.old
        /\ UNCHANGED <<files, sweep, purge, pQueue, doomed>>
    BY <1>1, <1>3 DEF CloseTriplet, SwapAt, Swaps
  <2>2. Untouched(u)
    BY <2>1 DEF SwapPlaced, OpenUntouched
  <2> QED
    BY <2>1, <2>2 DEF Untouched, CurFound
<1>4. ASSUME SwapStep, \A u \in Triplets : ~CloseTriplet(u)
      PROVE  swap'.pc # "retire"
  <2>1. CASE ScanOpenTriplets
    BY <2>1 DEF ScanOpenTriplets
  <2>2. CASE PublishTriplets
    BY <1>1, <2>2 DEF PublishTriplets, Swaps
  <2>3. CASE RetireTriplet
    <3>1. CASE swap.old = {swap.cur}
      BY <2>3, <3>1 DEF RetireTriplet, IdleSwap
    <3>2. CASE swap.old # {swap.cur}
      BY <1>1, <2>3, <3>2 DEF RetireTriplet, Swaps
    <3> QED
      BY <3>1, <3>2
  <2> QED
    BY <1>4, <2>1, <2>2, <2>3 DEF SwapStep, RetirePanics
<1> QED
  BY <1>2, <1>3, <1>4 DEF CurFound

(* What a start loads as open is not in the caches it loads. *)
LEMMA RestartUntouched ==
  ASSUME BackedInv, Restart
  PROVE  OpenUntouched'
<1> DEFINE tbl == DeleteAllPendingFileInDB(table)
           owners == ListTripleIdOfAllFiles(tbl) \cap Triplets
           kept == owners \cap files
           Loaded(m) == {t \in owners : StateLoaded(kept)[t] = m}
<1>1. PICK new \in IF Loaded("open") = {} THEN {{t} : t \in Triplets \ owners} ELSE {{}},
           c \in Orders(Loaded("closed")), l \in Orders(Loaded("large")) :
        /\ files' = owners \cup new
        /\ open' = Loaded("open") \cup new
        /\ closed' = LruLoaded(c, Cardinality(Loaded("closed")))
        /\ large' = LruLoaded(l, Cardinality(Loaded("large")))
  BY DEF Restart
<1>2. /\ swap' = IdleSwap /\ purge' = [t \in TripletIds |-> "no"]
      /\ pQueue' = {} /\ sweep' = {}
  BY DEF BackedInv, Restart, Down
<1>3. new \cap owners = {} /\ new \subseteq Triplets
  BY <1>1
<1>4. ASSUME NEW ids \in SUBSET Triplets, NEW s \in Orders(ids), NEW t \in Triplets \ ids
      PROVE  LruForgot(LruLoaded(s, Cardinality(ids)), t)
  <2>1. IsFiniteSet(ids) /\ Cardinality(ids) \in Nat
    BY TripletsAssumption, FS_Subset, FS_CardinalityType
  <2>2. s \in [1..Cardinality(ids) -> Triplets] /\ \A i \in 1..Cardinality(ids) : s[i] \in ids
    BY DEF Orders
  <2> QED
    BY <2>1, <2>2, LoadedForgets
<1>5. ASSUME NEW t \in open'
      PROVE  Untouched(t)'
  <2>1. t \in Triplets /\ t \in files' /\ t \in TripletIds
    BY <1>1, <1>3, <1>5 DEF TripletIds
  <2>2. t \notin Loaded("closed") /\ t \notin Loaded("large")
    BY <1>1, <1>3, <1>5
  <2>3. Loaded("closed") \in SUBSET Triplets /\ Loaded("large") \in SUBSET Triplets
    OBVIOUS
  <2> HIDE DEF Loaded
  <2>4. LruForgot(closed', t) /\ LruForgot(large', t)
    BY <1>1, <1>4, <2>1, <2>2, <2>3
  <2> QED
    BY <1>2, <2>1, <2>4 DEF Untouched
<1> QED
  BY <1>2, <1>5 DEF OpenUntouched, IdleSwap

(* DeathsInv is inductive. *)
LEMMA DeathsInvAlways == Spec => []DeathsInv
<1> DEFINE Found == /\ \A r \in Readers : ReaderFound(r)
                    /\ \A w \in Workers : PickFound(w)
<1>1. Init => Found /\ OpenUntouched /\ CurFound
  BY DEF Init, ReaderFound, PickFound, OpenUntouched, CurFound, IdleReader, IdleJob, IdleSwap
<1>2. ReachInv /\ Found /\ OpenUntouched /\ CurFound /\ [Next]_vars
      => Found' /\ OpenUntouched' /\ CurFound'
  <2> SUFFICES ASSUME ReachInv, Found, OpenUntouched, CurFound, [Next]_vars
               PROVE  Found' /\ OpenUntouched' /\ CurFound'
    OBVIOUS
  <2>1. BackedInv /\ TypeOK /\ Down /\ PurgedAreDoomed /\ SwapPlaced
    BY DEF ReachInv, BackedInv
  <2>2. CASE Restart
    <3>1. /\ rd' = [r \in Readers |-> IdleReader] /\ job' = [w \in Workers |-> IdleJob]
          /\ swap' = IdleSwap
      BY <2>1, <2>2 DEF Restart, Down
    <3>2. OpenUntouched'
      BY <2>1, <2>2, RestartUntouched
    <3> QED
      BY <3>1, <3>2 DEF ReaderFound, PickFound, CurFound, IdleReader, IdleJob, IdleSwap
  <2>3. CASE Die
    BY <2>3 DEF Die, ReaderFound, PickFound, OpenUntouched, CurFound, IdleReader, IdleJob,
       IdleSwap
  <2>4. CASE ~Restart /\ ~Die
    <3>1. ASSUME NEW r \in Readers
          PROVE  ReaderFound(r)'
      BY <2>1, <2>4, ReaderFoundStays
    <3>2. ASSUME NEW w \in Workers
          PROVE  PickFound(w)'
      BY <2>4, PickFoundStays
    <3>3. OpenUntouched' /\ CurFound'
      BY <2>1, <2>4, OpenUntouchedStays, CurFoundStays
    <3> QED
      BY <3>1, <3>2, <3>3
  <2> QED
    BY <2>2, <2>3, <2>4
<1> QED
  BY <1>1, <1>2, ReachAlways, PTL DEF Spec, DeathsInv

(* The process dies by itself only over a triplet that an eviction chose, before
   or after it was listed, or one that a swap retired since a Put's pick. *)
THEOREM DeathsAreExplained == Spec => []DeathsExplained
<1>1. DeathsInv => DeathsExplained
  BY DEF DeathsInv, ReaderFound, PickFound, CurFound, DeathsExplained, Reader, Worker, SwapAt
<1> QED
  BY <1>1, DeathsInvAlways, PTL
=============================================================================
