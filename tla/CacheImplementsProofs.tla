------------------------ MODULE CacheImplementsProofs ------------------------
(* CacheServer implements PersistentCache, for every value of the constants.  *)
EXTENDS CacheImplements, CacheServerProofs

-----------------------------------------------------------------------------
(* Steps of the abstract cache, from what happened to the mapped variables. *)

Stutter == UNCHANGED <<origin, Kept(table), BeingWritten(job), newest, kept, InView(rd)>>

Abstract == Cache!Next \/ Stutter

LEMMA AbstractUpdate ==
  ASSUME NEW f \in Files, origin' = [origin EXCEPT ![f] = @ + 1],
         UNCHANGED <<Kept(table), BeingWritten(job), newest, kept, InView(rd)>>
  PROVE  Abstract
  BY DEF Abstract, Cache!Next, Cache!Update

LEMMA AbstractFetch ==
  ASSUME NEW f \in Files, BeingWritten(job)[f] = {},
         BeingWritten(job)' = [BeingWritten(job) EXCEPT ![f] = {origin[f]}],
         UNCHANGED <<origin, Kept(table), newest, kept, InView(rd)>>
  PROVE  Abstract
  BY DEF Abstract, Cache!Next, Cache!Fetch

LEMMA AbstractStore ==
  ASSUME NEW f \in Files, NEW v \in BeingWritten(job)[f],
         Kept(table)' = [Kept(table) EXCEPT ![f] = {v}],
         newest' = [newest EXCEPT ![f] = v],
         kept' = [kept EXCEPT ![f] = @ \cup {v}],
         BeingWritten(job)' = [BeingWritten(job) EXCEPT ![f] = {}],
         UNCHANGED <<origin, InView(rd)>>
  PROVE  Abstract
  BY DEF Abstract, Cache!Next, Cache!Store

LEMMA AbstractGiveUp ==
  ASSUME NEW f \in Files,
         BeingWritten(job)' = [BeingWritten(job) EXCEPT ![f] = {}],
         UNCHANGED <<origin, Kept(table), newest, kept, InView(rd)>>
  PROVE  Abstract
  BY DEF Abstract, Cache!Next, Cache!GiveUp

LEMMA AbstractLose ==
  ASSUME NEW lost \in SUBSET Files,
         Kept(table)' = [f \in Files |-> IF f \in lost THEN {} ELSE Kept(table)[f]],
         UNCHANGED <<origin, BeingWritten(job), newest, kept, InView(rd)>>
  PROVE  Abstract
  BY DEF Abstract, Cache!Next, Cache!Lose

LEMMA AbstractLook ==
  ASSUME NEW r \in Readers, NEW f \in Files, InView(rd)[r] = {}, NEW v \in Kept(table)[f],
         InView(rd)' = [InView(rd) EXCEPT ![r] = {<<f, v>>}],
         UNCHANGED <<origin, Kept(table), BeingWritten(job), newest, kept>>
  PROVE  Abstract
  BY DEF Abstract, Cache!Next, Cache!Look

LEMMA AbstractReply ==
  ASSUME NEW r \in Readers, InView(rd)' = [InView(rd) EXCEPT ![r] = {}],
         UNCHANGED <<origin, Kept(table), BeingWritten(job), newest, kept>>
  PROVE  Abstract
  BY DEF Abstract, Cache!Next, Cache!Reply

LEMMA AbstractCrash ==
  ASSUME BeingWritten(job)' = [f \in Files |-> {}], InView(rd)' = [r \in Readers |-> {}],
         UNCHANGED <<origin, Kept(table), newest, kept>>
  PROVE  Abstract
  BY DEF Abstract, Cache!Next, Cache!Crash

-----------------------------------------------------------------------------
(* What a change of the table, of a job or of a request does to the mapping. *)

(* The version of a READY row is the newest and one of those kept; both stay
   while no row gets READY. *)
Remembers ==
    /\ newest \in [Files -> Versions]
    /\ kept \in [Files -> SUBSET Versions]
    /\ \A f \in Files : table[f].state = "ready" =>
         newest[f] = table[f].ver /\ table[f].ver \in kept[f]

LEMMA NewestStays ==
  ASSUME Remembers, NextH,
         \A f \in Files : table'[f].state = "ready" =>
            table[f].state = "ready" /\ table'[f].ver = table[f].ver
  PROVE  UNCHANGED <<newest, kept>>
<1>1. \A f \in Files : (IF table'[f].state = "ready" THEN table'[f].ver ELSE newest[f]) = newest[f]
  BY DEF Remembers
<1>2. newest' = [f \in Files |-> IF table'[f].state = "ready" THEN table'[f].ver ELSE newest[f]]
  BY DEF NextH
<1>3. \A f \in Files : Kept(table')[f] \subseteq kept[f]
  BY DEF Remembers, Kept
<1>4. kept' = [f \in Files |-> kept[f] \cup Kept(table')[f]]
  BY DEF NextH
<1>5. newest' = newest
  BY <1>1, <1>2 DEF Remembers
<1>6. \A f \in Files : kept[f] \cup Kept(table')[f] = kept[f]
  BY <1>3
<1>7. kept' = kept
  BY <1>4, <1>6 DEF Remembers
<1> QED
  BY <1>5, <1>7

LEMMA TableStays ==
  ASSUME Remembers, NextH, UNCHANGED table
  PROVE  UNCHANGED <<Kept(table), newest, kept>>
  BY NewestStays DEF Kept

(* Rows that are deleted, or leave READY, are lost. *)
LEMMA RowsLost ==
  ASSUME Remembers, NextH, NEW lost \in SUBSET Files,
         \A f \in lost : table'[f].state # "ready",
         \A f \in Files \ lost : table'[f] = table[f],
         UNCHANGED <<origin, BeingWritten(job), InView(rd)>>
  PROVE  Abstract
<1>1. UNCHANGED <<newest, kept>>
  BY NewestStays
<1>2. Kept(table)' = [f \in Files |-> IF f \in lost THEN {} ELSE Kept(table)[f]]
  BY DEF Kept
<1> QED
  BY <1>1, <1>2, AbstractLose

(* Jobs that stay in, or out of, Writing. *)
LEMMA WritingStays ==
  ASSUME \A w \in Workers :
            /\ job[w].pc \in Writing <=> job'[w].pc \in Writing
            /\ job[w].pc \in Writing => job'[w].file = job[w].file /\ job'[w].ver = job[w].ver
  PROVE  UNCHANGED BeingWritten(job)
  BY DEF BeingWritten

LEMMA MoveStays ==
  ASSUME TypeOK, NEW w \in Workers, NEW j, job' = [job EXCEPT ![w] = j],
         job[w].pc \in Writing <=> j.pc \in Writing,
         job[w].pc \in Writing => j.file = job[w].file /\ j.ver = job[w].ver
  PROVE  UNCHANGED BeingWritten(job)
<1>1. job \in [Workers -> Jobs]
  BY DEF TypeOK
<1>2. \A v \in Workers : job'[v] = IF v = w THEN j ELSE job[v]
  BY <1>1
<1> QED
  BY <1>2, WritingStays

(* A file has one goroutine: when it leaves Writing, nothing is being written. *)
LEMMA MoveEnds ==
  ASSUME TypeOK, NoDuplicateDownload, NEW w \in Workers, NEW j, job' = [job EXCEPT ![w] = j],
         job[w].pc \in Writing, j.pc \notin Writing
  PROVE  /\ job[w].file \in Files
         /\ job[w].ver \in BeingWritten(job)[job[w].file]
         /\ BeingWritten(job)' = [BeingWritten(job) EXCEPT ![job[w].file] = {}]
<1>1. job \in [Workers -> Jobs] /\ job[w] \in Jobs
  BY DEF TypeOK
<1>2. job[w].file \in Files
  BY <1>1, JobFields DEF Writing
<1>3. \A v \in Workers : job[v].pc \in Writing /\ job[v].file = job[w].file => v = w
  BY DEF NoDuplicateDownload, Writing
<1>4. \A v \in Workers : job'[v] = IF v = w THEN j ELSE job[v]
  BY <1>1
<1>5. BeingWritten(job)'[job[w].file] = {}
  BY <1>2, <1>3, <1>4 DEF BeingWritten
<1>6. \A f \in Files \ {job[w].file} : BeingWritten(job)'[f] = BeingWritten(job)[f]
  BY <1>4 DEF BeingWritten
<1>7. BeingWritten(job)' = [BeingWritten(job) EXCEPT ![job[w].file] = {}]
  BY <1>2, <1>5, <1>6 DEF BeingWritten
<1> QED
  BY <1>2, <1>7 DEF BeingWritten

(* Requests. *)
LEMMA ViewStays ==
  ASSUME \A r \in Readers :
            /\ rd[r].pc \in {"check", "get", "read"} <=> rd'[r].pc \in {"check", "get", "read"}
            /\ rd[r].pc \in {"check", "get", "read"} =>
                 rd'[r].file = rd[r].file /\ rd'[r].ver = rd[r].ver
  PROVE  UNCHANGED InView(rd)
  BY DEF InView

LEMMA RequestStays ==
  ASSUME TypeOK, NEW r \in Readers, NEW q, rd' = [rd EXCEPT ![r] = q],
         rd[r].pc \in {"check", "get", "read"} <=> q.pc \in {"check", "get", "read"},
         rd[r].pc \in {"check", "get", "read"} => q.file = rd[r].file /\ q.ver = rd[r].ver
  PROVE  UNCHANGED InView(rd)
<1>1. rd \in [Readers -> Requests]
  BY DEF TypeOK
<1>2. \A s \in Readers : rd'[s] = IF s = r THEN q ELSE rd[s]
  BY <1>1
<1> QED
  BY <1>2, ViewStays

LEMMA AnswerReplies ==
  ASSUME TypeOK, NEW r \in Readers, Answer(r)
  PROVE  InView(rd)' = [InView(rd) EXCEPT ![r] = {}]
<1>1. rd \in [Readers -> Requests]
  BY DEF TypeOK
<1>2. \A s \in Readers : rd'[s] = IF s = r THEN IdleReader ELSE rd[s]
  BY <1>1 DEF Answer
<1>3. IdleReader.pc = "idle"
  BY DEF IdleReader
<1> HIDE DEF IdleReader
<1>4. InView(rd)'[r] = {}
  BY <1>2, <1>3 DEF InView
<1>5. \A s \in Readers \ {r} : InView(rd)'[s] = InView(rd)[s]
  BY <1>2 DEF InView
<1> QED
  BY <1>4, <1>5 DEF InView

LEMMA GotoStays ==
  ASSUME TypeOK, NEW r \in Readers, NEW pc, Goto(r, pc),
         rd[r].pc \in {"check", "get", "read"} <=> pc \in {"check", "get", "read"}
  PROVE  UNCHANGED InView(rd)
<1> DEFINE q == [rd[r] EXCEPT !.pc = pc]
<1>1. rd[r] \in Requests
  BY DEF TypeOK
<1>2. rd' = [rd EXCEPT ![r] = q]
  BY DEF Goto
<1>3. q.pc = pc /\ q.file = rd[r].file /\ q.ver = rd[r].ver
  BY <1>1 DEF Requests
<1> HIDE DEF q
<1> QED
  BY <1>2, <1>3, RequestStays

LEMMA GotoJobStays ==
  ASSUME TypeOK, NEW w \in Workers, NEW pc, GotoJob(w, pc),
         job[w].pc \in Writing <=> pc \in Writing
  PROVE  UNCHANGED BeingWritten(job)
<1> DEFINE j == [job[w] EXCEPT !.pc = pc]
<1>1. job[w] \in Jobs
  BY DEF TypeOK
<1>2. job' = [job EXCEPT ![w] = j]
  BY DEF GotoJob
<1>3. j.pc = pc /\ j.file = job[w].file /\ j.ver = job[w].ver
  BY <1>1 DEF Jobs
<1> HIDE DEF j
<1> QED
  BY <1>2, <1>3, MoveStays

-----------------------------------------------------------------------------
(* The death of the process. *)
LEMMA DieSim ==
  ASSUME TypeOK, Remembers, NextH, Die
  PROVE  Abstract
<1>1. UNCHANGED <<origin, Kept(table), newest, kept>>
  BY TableStays DEF Die
<1>2. BeingWritten(job)' = [f \in Files |-> {}]
  BY DEF Die, BeingWritten, IdleJob, Writing
<1>3. InView(rd)' = [r \in Readers |-> {}]
  BY DEF Die, InView, IdleReader
<1> QED
  BY <1>1, <1>2, <1>3, AbstractCrash

(* A request looks when it lists a READY row under its etag, replies when it is
   answered after that, and loses the content it finds stale. *)
LEMMA ReaderSim ==
  ASSUME TypeOK, Remembers, NextH, NEW r \in Readers, ReaderStep(r)
  PROVE  Abstract
<1> USE DEF diskVars, pbhVars, gcVars
<1>1. rd \in [Readers -> Requests] /\ rd[r] \in Requests /\ table \in FilesTables
  BY DEF TypeOK
<1>2. ASSUME UNCHANGED <<origin, table, job>>, Answer(r)
      PROVE  Abstract
  BY <1>2, TableStays, AnswerReplies, AbstractReply DEF BeingWritten
<1>3. ASSUME UNCHANGED <<origin, table, job>>, UNCHANGED InView(rd)
      PROVE  Abstract
  BY <1>3, TableStays DEF Abstract, Stutter, BeingWritten
<1>4. ASSUME NEW f \in Files, NEW row, table' = [table EXCEPT ![f] = row] \/ table' = table,
             row.state # "ready", table[f].state # "ready" \/ table'[f] = row,
             UNCHANGED <<origin, job, InView(rd)>>
      PROVE  Abstract
  <2>1. \A g \in Files \ {f} : table'[g] = table[g]
    BY <1>1, <1>4 DEF FilesTables
  <2>2. table'[f].state # "ready"
    BY <1>1, <1>4 DEF FilesTables
  <2>3. UNCHANGED BeingWritten(job)
    BY <1>4 DEF BeingWritten
  <2>4. {f} \in SUBSET Files /\ \A g \in {f} : table'[g].state # "ready"
    BY <2>2
  <2> QED
    BY <1>4, <2>1, <2>3, <2>4, RowsLost
<1>5. CASE ListFails(r)
  BY <1>2, <1>5 DEF ListFails, OnlyReaders
<1>6. CASE ListMiss(r)
  BY <1>3, <1>6, GotoStays DEF ListMiss, OnlyReaders, Reader
<1>7. CASE ListPending(r)
  BY <1>2, <1>7 DEF ListPending, OnlyReaders
<1>8. CASE ListReady(r)
  <2> DEFINE row == table[rd[r].file]
             pc == IF row.etag # rd[r].etag THEN "stale" ELSE "check"
             q == [rd[r] EXCEPT !.tri = row.tri, !.ver = row.ver, !.pc = pc]
  <2>1. rd[r].file \in Files /\ rd[r].pc = "list" /\ row.state = "ready"
    BY <1>1, <1>8, RequestFields DEF ListReady, Reader
  <2>2. rd' = [rd EXCEPT ![r] = q]
    BY <1>8 DEF ListReady
  <2>3. q.pc = pc /\ q.file = rd[r].file /\ q.ver = row.ver
    BY <1>1 DEF Requests
  <2>4. UNCHANGED <<origin, table, job>>
    BY <1>8 DEF ListReady, OnlyReaders
  <2> HIDE DEF q
  <2>5. CASE pc = "stale"
    <3>1. rd[r].pc \notin {"check", "get", "read"} /\ q.pc \notin {"check", "get", "read"}
      BY <2>1, <2>3, <2>5
    <3>2. UNCHANGED InView(rd)
      BY <2>2, <3>1, RequestStays
    <3> QED
      BY <1>3, <2>4, <3>2
  <2>6. CASE pc = "check"
    <3>1. InView(rd)[r] = {}
      BY <2>1 DEF InView
    <3>2. row.ver \in Kept(table)[rd[r].file]
      BY <2>1 DEF Kept
    <3>3. \A s \in Readers : rd'[s] = IF s = r THEN q ELSE rd[s]
      BY <1>1, <2>2
    <3>4. InView(rd)' = [InView(rd) EXCEPT ![r] = {<<rd[r].file, row.ver>>}]
      BY <2>3, <2>6, <3>3 DEF InView
    <3>5. UNCHANGED <<origin, Kept(table), BeingWritten(job), newest, kept>>
      BY <2>4, TableStays DEF BeingWritten
    <3> QED
      BY <2>1, <3>1, <3>2, <3>4, <3>5, AbstractLook
  <2> QED
    BY <2>5, <2>6
<1>9. CASE CreateFileForCache(r)
  <2>1. rd[r].file \in Files
    BY <1>1, <1>9, RequestFields DEF CreateFileForCache, Reader
  <2> DEFINE row == [NoRow EXCEPT !.state = "pending", !.etag = rd[r].etag]
  <2>2. table' = [table EXCEPT ![rd[r].file] = row]
    BY <1>9 DEF CreateFileForCache, CreateFileWithFidInDB
  <2>3. row.state = "pending"
    BY DEF NoRow
  <2>4. table'[rd[r].file] = row
    BY <1>1, <2>1, <2>2 DEF FilesTables
  <2>5. UNCHANGED <<origin, job, InView(rd)>>
    BY <1>9, GotoStays DEF CreateFileForCache, Reader
  <2> HIDE DEF row
  <2> QED
    BY <1>4, <2>1, <2>2, <2>3, <2>4, <2>5
<1>10. CASE CreateFails(r)
  BY <1>2, <1>10 DEF CreateFails, OnlyReaders
<1>11. CASE EnqueueWriteReq(r)
  BY <1>2, <1>11 DEF EnqueueWriteReq
<1>12. CASE MarkStale(r)
  <2>1. rd[r].file \in Files
    BY <1>1, <1>12, RequestFields DEF MarkStale, Reader
  <2> DEFINE row == [table[rd[r].file] EXCEPT !.state = "pending", !.etag = rd[r].etag,
                                              !.tri = rd[r].tri, !.ver = rd[r].ver]
  <2>2. table[rd[r].file] \in Row
    BY <1>1, <2>1 DEF FilesTables
  <2>3. row.state = "pending"
    BY <2>2 DEF Row
  <2>4. table' = IF table[rd[r].file].state = "absent"
                 THEN table ELSE [table EXCEPT ![rd[r].file] = row]
    BY <1>12 DEF MarkStale, UpdateFilemetaAndStateInDB
  <2> HIDE DEF row
  <2>5. table[rd[r].file].state # "ready" \/ table'[rd[r].file] = row
    BY <1>1, <2>1, <2>4 DEF FilesTables
  <2>6. UNCHANGED <<origin, job, InView(rd)>>
    BY <1>12, GotoStays DEF MarkStale, Reader
  <2> QED
    BY <1>4, <2>1, <2>3, <2>4, <2>5, <2>6
<1>13. CASE MarkStaleFails(r)
  BY <1>3, <1>13, GotoStays DEF MarkStaleFails, OnlyReaders, Reader
<1>14. CASE CheckWindow(r)
  <2> DEFINE q == [rd[r] EXCEPT !.pc = "get", !.win = "none"]
  <2>1. rd' = [rd EXCEPT ![r] = q] /\ rd[r].pc = "check"
    BY <1>14 DEF CheckWindow, Reader
  <2>2. q.pc = "get" /\ q.file = rd[r].file /\ q.ver = rd[r].ver
    BY <1>1 DEF Requests
  <2> HIDE DEF q
  <2>3. UNCHANGED InView(rd)
    <3>1. rd[r].pc \in {"check", "get", "read"} /\ q.pc \in {"check", "get", "read"}
      BY <2>1, <2>2
    <3> QED
      BY <2>1, <2>2, <3>1, RequestStays
  <2> QED
    BY <1>3, <1>14, <2>3 DEF CheckWindow, OnlyReaders
<1>15. CASE CheckLate(r)
  BY <1>2, <1>15 DEF CheckLate, OnlyReaders
<1>16. CASE Get(r)
  <2>1. UNCHANGED <<origin, table, job>> /\ rd[r].pc = "get" /\ (Goto(r, "read") \/ Answer(r))
    BY <1>16 DEF Get, Reader
  <2> QED
    BY <1>2, <1>3, <2>1, GotoStays
<1>17. CASE ReadBlob(r)
  BY <1>2, <1>17 DEF ReadBlob, OnlyReaders
<1>18. CASE ReadBlobFatal(r)
  BY <1>18, DieSim DEF ReadBlobFatal
<1> QED
  BY <1>5, <1>6, <1>7, <1>8, <1>9, <1>10, <1>11, <1>12, <1>13, <1>14, <1>15, <1>16, <1>17,
     <1>18 DEF ReaderStep

(* A goroutine fetches when its DownLoad is over, stores when it seals, and
   gives up on every other way out of Writing. *)
LEMMA WorkerSim ==
  ASSUME TypeOK, NoDuplicateDownload, Remembers, NextH, NEW w \in Workers, WorkerStep(w)
  PROVE  Abstract
<1> USE DEF diskVars, pbhVars, gcVars
<1>1. job \in [Workers -> Jobs] /\ job[w] \in Jobs /\ table \in FilesTables
  BY DEF TypeOK
<1>2. ASSUME UNCHANGED <<origin, table, rd>>, UNCHANGED BeingWritten(job)
      PROVE  Abstract
  BY <1>2, TableStays DEF Abstract, Stutter, InView
<1>3. ASSUME UNCHANGED <<origin, table, rd>>, job[w].pc \in Writing,
             NEW j, job' = [job EXCEPT ![w] = j], j.pc \notin Writing
      PROVE  Abstract
  <2>1. UNCHANGED <<origin, Kept(table), newest, kept, InView(rd)>>
    BY <1>3, TableStays DEF InView
  <2> QED
    BY <1>3, <2>1, MoveEnds, AbstractGiveUp
<1>4. ASSUME EndJob(w)
      PROVE  job' = [job EXCEPT ![w] = IdleJob] /\ IdleJob.pc \notin Writing
  BY <1>4 DEF EndJob, IdleJob, Writing
<1>5. ASSUME EndJob(w), job[w].pc \notin Writing
      PROVE  UNCHANGED BeingWritten(job)
  BY <1>4, <1>5, MoveStays
<1>6. ASSUME NEW pc, GotoJob(w, pc), pc \notin Writing
      PROVE  \E j : job' = [job EXCEPT ![w] = j] /\ j.pc \notin Writing
  <2> DEFINE j == [job[w] EXCEPT !.pc = pc]
  <2>1. job' = [job EXCEPT ![w] = j]
    BY <1>6 DEF GotoJob
  <2>2. j.pc = pc
    BY <1>1 DEF Jobs
  <2> QED
    BY <1>6, <2>1, <2>2
<1>7. ASSUME AfterRollback(w), job[w].pc \notin Writing
      PROVE  UNCHANGED BeingWritten(job)
  <2>1. "evict" \notin Writing
    BY DEF Writing
  <2> QED
    BY <1>5, <1>7, <2>1, GotoJobStays DEF AfterRollback
<1>8. CASE DownLoad(w)
  <2> DEFINE f == job[w].file
             j == [job[w] EXCEPT !.pc = "admit", !.ver = origin[f]]
  <2>1. f \in Files /\ job[w].pc = "fetch"
    BY <1>1, <1>8, JobFields DEF DownLoad, Worker
  <2>2. job' = [job EXCEPT ![w] = j]
    BY <1>8 DEF DownLoad
  <2>3. j.pc = "admit" /\ j.file = f /\ j.ver = origin[f]
    BY <1>1 DEF Jobs
  <2> HIDE DEF j
  <2>4. \A v \in Workers : job'[v] = IF v = w THEN j ELSE job[v]
    BY <1>1, <2>2
  <2>5. \A v \in Workers : job[v].pc \in Writing => job[v].file # f
    BY <2>1 DEF NoDuplicateDownload, Writing
  <2>6. BeingWritten(job)[f] = {}
    BY <2>1, <2>5 DEF BeingWritten
  <2>7. BeingWritten(job)'[f] = {origin[f]}
    BY <2>1, <2>3, <2>4, <2>5 DEF BeingWritten, Writing
  <2>8. \A g \in Files \ {f} : BeingWritten(job)'[g] = BeingWritten(job)[g]
    BY <2>1, <2>3, <2>4, <2>5 DEF BeingWritten, Writing
  <2>9. BeingWritten(job)' = [BeingWritten(job) EXCEPT ![f] = {origin[f]}]
    BY <2>1, <2>7, <2>8 DEF BeingWritten
  <2>10. UNCHANGED <<origin, Kept(table), newest, kept, InView(rd)>>
    BY <1>8, TableStays DEF DownLoad, OnlyJobs, InView
  <2> QED
    BY <2>1, <2>6, <2>9, <2>10, AbstractFetch
<1>9. CASE FetchFails(w)
  <2>1. job[w].pc \notin Writing
    BY <1>9 DEF FetchFails, Worker, Writing
  <2> QED
    BY <1>2, <1>5, <1>9, <2>1 DEF FetchFails, OnlyJobs
<1>10. CASE DownLoadPanics(w) \/ ResolvePanics(w)
  BY <1>10, DieSim DEF DownLoadPanics, ResolvePanics
<1>11. CASE Admit(w) \/ ResolvePick(w) \/ PutBin(w) \/ PutIdx(w)
  <2>1. /\ UNCHANGED <<origin, table, rd>>
        /\ \E pc \in Writing : GotoJob(w, pc)
        /\ job[w].pc \in Writing
    BY <1>11 DEF Admit, ResolvePick, PutBin, PutIdx, OnlyJobs, Worker, Writing
  <2> QED
    BY <1>2, <2>1, GotoJobStays
<1>12. CASE PutLarge(w) \/ PickOpen(w)
  <2>1. PICK t \in TripletIds, pc \in {"bin", "resolve"} :
            job' = [job EXCEPT ![w] = [job[w] EXCEPT !.pc = pc, !.tri = t]]
    <3>1. CASE PutLarge(w)
      BY <3>1 DEF PutLarge, TripletIds
    <3>2. CASE PickOpen(w)
      <4>1. open \subseteq TripletIds
        BY DEF TypeOK, TripletIds
      <4> QED
        BY <3>2, <4>1 DEF PickOpen
    <3> QED
      BY <1>12, <3>1, <3>2
  <2> DEFINE j == [job[w] EXCEPT !.pc = pc, !.tri = t]
  <2>2. j.pc = pc /\ j.file = job[w].file /\ j.ver = job[w].ver
    BY <1>1 DEF Jobs
  <2> HIDE DEF j
  <2>3. job[w].pc \in Writing /\ j.pc \in Writing
    BY <1>12, <2>2 DEF PutLarge, PickOpen, Worker, Writing
  <2>4. UNCHANGED BeingWritten(job)
    BY <2>1, <2>2, <2>3, MoveStays DEF j
  <2> QED
    BY <1>2, <1>12, <2>4 DEF PutLarge, PickOpen, OnlyJobs
<1>13. CASE CacheFull(w) \/ PutIdxFails(w)
  <2>1. UNCHANGED <<origin, table, rd>> /\ (GotoJob(w, "full") \/ GotoJob(w, "failed"))
    BY <1>13 DEF CacheFull, PutIdxFails, OnlyJobs
  <2>2. job[w].pc \in Writing /\ "full" \notin Writing /\ "failed" \notin Writing
    BY <1>13 DEF CacheFull, PutIdxFails, Worker, Writing
  <2> QED
    BY <1>3, <1>6, <2>1, <2>2
<1>14. CASE SealFileAtCache(w)
  <2> DEFINE f == job[w].file
             v == job[w].ver
  <2>1. job[w].pc \in Writing /\ table[f].state # "absent"
    BY <1>14 DEF SealFileAtCache, CanCommit, Worker, Writing
  <2>2. /\ f \in Files
        /\ v \in BeingWritten(job)[f]
        /\ BeingWritten(job)' = [BeingWritten(job) EXCEPT ![f] = {}]
    BY <1>4, <1>14, <2>1, MoveEnds DEF SealFileAtCache
  <2>3. /\ table'[f].state = "ready" /\ table'[f].ver = v
        /\ \A g \in Files \ {f} : table'[g] = table[g]
    BY <1>1, <1>14, <2>2 DEF SealFileAtCache, CommitCacheFileInDB, FilesTables, Row
  <2>4. Kept(table)' = [Kept(table) EXCEPT ![f] = {v}]
    BY <2>2, <2>3 DEF Kept
  <2>5. newest' = [newest EXCEPT ![f] = v]
    <3>1. newest' = [g \in Files |-> IF table'[g].state = "ready" THEN table'[g].ver
                                     ELSE newest[g]]
      BY DEF NextH
    <3>2. \A g \in Files \ {f} : newest'[g] = newest[g]
      BY <2>3, <3>1 DEF Remembers
    <3>3. newest'[f] = v
      BY <2>2, <2>3, <3>1
    <3> QED
      BY <2>2, <3>1, <3>2, <3>3 DEF Remembers
  <2>6. kept' = [kept EXCEPT ![f] = @ \cup {v}]
    <3>1. kept' = [g \in Files |-> kept[g] \cup Kept(table')[g]]
      BY DEF NextH
    <3>2. \A g \in Files \ {f} : Kept(table')[g] \subseteq kept[g]
      BY <2>3 DEF Remembers, Kept
    <3>3. Kept(table')[f] = {v}
      BY <2>2, <2>3 DEF Kept
    <3>4. \A g \in Files : kept'[g] = IF g = f THEN kept[f] \cup {v} ELSE kept[g]
      BY <3>1, <3>2, <3>3
    <3> QED
      BY <2>2, <3>1, <3>4 DEF Remembers
  <2>7. UNCHANGED <<origin, InView(rd)>>
    BY <1>14 DEF SealFileAtCache, InView
  <2> QED
    BY <2>2, <2>4, <2>5, <2>6, <2>7, AbstractStore
<1>15. CASE SealFails(w)
  <2>1. job[w].pc \in Writing /\ EndJob(w) /\ UNCHANGED <<origin, table, rd>>
    BY <1>15 DEF SealFails, Worker, Writing, OnlyJobs
  <2> QED
    BY <1>3, <1>4, <2>1
<1>16. CASE RollbackFileInDB(w)
  <2>1. job[w].pc \notin Writing /\ UNCHANGED <<origin, rd>>
    BY <1>16 DEF RollbackFileInDB, Worker, Writing
  <2>2. UNCHANGED BeingWritten(job)
    BY <1>7, <1>16, <2>1 DEF RollbackFileInDB
  <2>3. UNCHANGED InView(rd)
    BY <2>1 DEF InView
  <2> DEFINE gone == {f \in {job[w].file} : table[f].state = "pending"}
  <2>4. \A f \in Files : table'[f] = IF f \in gone THEN NoRow ELSE table[f]
    BY <1>16 DEF RollbackFileInDB, DeletePendingFileWithFIdInDB, DeleteWhere
  <2>5. NoRow.state # "ready"
    BY DEF NoRow
  <2>6. (\A f \in gone \cap Files : table'[f].state # "ready")
        /\ (\A f \in Files \ gone : table'[f] = table[f])
    BY <2>4, <2>5
  <2>7. gone \cap Files \in SUBSET Files /\ Files \ gone = Files \ (gone \cap Files)
    OBVIOUS
  <2> HIDE DEF gone
  <2> QED
    BY <2>1, <2>2, <2>3, <2>6, <2>7, RowsLost
<1>17. CASE RollbackFails(w)
  <2>1. job[w].pc \notin Writing /\ UNCHANGED <<origin, table, rd>> /\ AfterRollback(w)
    BY <1>17 DEF RollbackFails, Worker, Writing, OnlyJobs
  <2> QED
    BY <1>2, <1>7, <2>1
<1>18. CASE EnqueueDeletionReq(w)
  <2>1. UNCHANGED <<origin, BeingWritten(job)>>
    BY <1>5, <1>18 DEF EnqueueDeletionReq, Worker, Writing
  <2>2. UNCHANGED InView(rd)
    <3>1. rd \in [Readers -> Requests]
      BY DEF TypeOK
    <3>2. \A r \in Readers : /\ [rd[r] EXCEPT !.win = "open"].pc = rd[r].pc
                             /\ [rd[r] EXCEPT !.win = "open"].file = rd[r].file
                             /\ [rd[r] EXCEPT !.win = "open"].ver = rd[r].ver
      BY <3>1 DEF Requests
    <3>3. \A r \in Readers :
             rd'[r].pc = rd[r].pc /\ rd'[r].file = rd[r].file /\ rd'[r].ver = rd[r].ver
      BY <1>18, <3>2 DEF EnqueueDeletionReq
    <3> QED
      BY <3>3, ViewStays
  <2> DEFINE lost == {f \in Files : table[f].state # "absent" /\ table[f].owner = Victim}
  <2>3. \A f \in Files : table'[f] = IF f \in lost THEN NoRow ELSE table[f]
    BY <1>18 DEF EnqueueDeletionReq, DeleteFileWithTripleIdInDB, DeleteWhere
  <2>4. NoRow.state # "ready"
    BY DEF NoRow
  <2>5. lost \in SUBSET Files /\ \A f \in lost : table'[f].state # "ready"
    BY <2>3, <2>4
  <2>6. \A f \in Files \ lost : table'[f] = table[f]
    BY <2>3
  <2> HIDE DEF lost
  <2> QED
    BY <2>1, <2>2, <2>5, <2>6, RowsLost
<1>19. CASE EvictNothing(w) \/ EvictFails(w)
  <2>1. job[w].pc \notin Writing /\ UNCHANGED <<origin, table, rd>> /\ EndJob(w)
    BY <1>19 DEF EvictNothing, EvictFails, Worker, Writing, OnlyJobs
  <2> QED
    BY <1>2, <1>5, <2>1
<1> QED
  BY <1>8, <1>9, <1>10, <1>11, <1>12, <1>13, <1>14, <1>15, <1>16, <1>17, <1>18, <1>19
  DEF WorkerStep

(* The loops, the purge, the swapper and the origin: none of them touches a
   row, and a batch starts outside Writing. *)
LEMMA LoopSim ==
  ASSUME TypeOK, Remembers, NextH,
         \/ Kill \/ LoopBatchWrite \/ LoopGarbageCollection \/ SwapStep
         \/ \E r \in Readers, f \in Files : HttpRead(r, f)
         \/ \E t \in TripletIds : PurgeWaitOver(t) \/ PurgeTriplet(t)
         \/ \E f \in Files : OriginUpdate(f)
  PROVE  Abstract
<1> USE DEF diskVars, pbhVars, gcVars
<1>1. rd \in [Readers -> Requests] /\ origin \in [Files -> Versions]
  BY DEF TypeOK
<1>2. ASSUME UNCHANGED <<origin, table>>, UNCHANGED <<BeingWritten(job), InView(rd)>>
      PROVE  Abstract
  BY <1>2, TableStays DEF Abstract, Stutter
<1>3. ASSUME UNCHANGED <<origin, table, job, rd>>
      PROVE  Abstract
  BY <1>2, <1>3 DEF BeingWritten, InView
<1>4. CASE Kill
  BY <1>4, DieSim DEF Kill
<1>5. CASE LoopBatchWrite
  <2>1. \A w \in Workers : job[w].pc \notin Writing /\ job'[w].pc \notin Writing
    BY <1>5 DEF LoopBatchWrite, IdleJob, Writing
  <2>2. UNCHANGED BeingWritten(job)
    BY <2>1, WritingStays
  <2> QED
    BY <1>2, <1>5, <2>2 DEF LoopBatchWrite, InView
<1>6. CASE LoopGarbageCollection
  BY <1>3, <1>6 DEF LoopGarbageCollection
<1>7. CASE SwapStep
  BY <1>3, <1>7, DieSim DEF SwapStep, ScanOpenTriplets, PublishTriplets, CloseTriplet,
     RetireTriplet, RetirePanics
<1>8. ASSUME NEW r \in Readers, NEW f \in Files, HttpRead(r, f)
      PROVE  Abstract
  <2> DEFINE q == [IdleReader EXCEPT !.pc = "list", !.file = f, !.etag = origin[f]]
  <2>1. rd' = [rd EXCEPT ![r] = q] /\ rd[r].pc \notin {"check", "get", "read"}
    BY <1>8 DEF HttpRead, Reader
  <2>2. q.pc \notin {"check", "get", "read"}
    BY DEF IdleReader
  <2> HIDE DEF q
  <2>3. UNCHANGED InView(rd)
    BY <2>1, <2>2, RequestStays
  <2> QED
    BY <1>2, <1>8, <2>3 DEF HttpRead, OnlyReaders, BeingWritten
<1>9. ASSUME NEW t \in TripletIds, PurgeWaitOver(t)
      PROVE  Abstract
  <2>1. \A r \in Readers :
           rd'[r].pc = rd[r].pc /\ rd'[r].file = rd[r].file /\ rd'[r].ver = rd[r].ver
    BY <1>1, <1>9, WaitOverSteps
  <2>2. UNCHANGED InView(rd)
    BY <2>1, ViewStays
  <2> QED
    BY <1>2, <1>9, <2>2 DEF PurgeWaitOver, BeingWritten
<1>10. ASSUME NEW t \in TripletIds, PurgeTriplet(t)
       PROVE  Abstract
  BY <1>3, <1>10 DEF PurgeTriplet
<1>11. ASSUME NEW f \in Files, OriginUpdate(f)
       PROVE  Abstract
  <2>1. UNCHANGED <<Kept(table), newest, kept, BeingWritten(job), InView(rd)>>
    BY <1>11, TableStays DEF OriginUpdate, BeingWritten, InView
  <2>2. origin' = [origin EXCEPT ![f] = @ + 1]
    BY <1>11 DEF OriginUpdate
  <2> QED
    BY <2>1, <2>2, AbstractUpdate
<1> QED
  BY <1>4, <1>5, <1>6, <1>7, <1>8, <1>9, <1>10, <1>11

(* A start deletes PENDING rows, and keeps what is READY. *)
LEMMA RestartSim ==
  ASSUME TypeOK, Remembers, NextH, Restart
  PROVE  Abstract
<1> DEFINE gone == {f \in Files : table[f].state = "pending"}
<1>1. \A f \in Files : table'[f] = IF f \in gone THEN NoRow ELSE table[f]
  BY DEF Restart, DeleteAllPendingFileInDB, DeleteWhere
<1>2. NoRow.state # "ready"
  BY DEF NoRow
<1>3. gone \in SUBSET Files /\ (\A f \in gone : table'[f].state # "ready")
      /\ (\A f \in Files \ gone : table'[f] = table[f])
  BY <1>1, <1>2
<1>4. UNCHANGED <<origin, BeingWritten(job), InView(rd)>>
  BY DEF Restart, BeingWritten, InView
<1> HIDE DEF gone
<1> QED
  BY <1>3, <1>4, RowsLost

-----------------------------------------------------------------------------
(* The history variable takes no step away from the server. *)
LEMMA TypesOfH == SpecH => [](TypeOK /\ NoDuplicateDownload)
<1>1. InitH => Init
  BY DEF InitH
<1>2. [NextH]_varsH => [Next]_vars
  BY DEF NextH, varsH
<1>3. SpecH => Spec
  BY <1>1, <1>2, PTL DEF SpecH, Spec
<1> QED
  BY <1>3, TypeCorrect, NoDuplicates, PTL

LEMMA RemembersAlways == SpecH => []Remembers
<1>1. InitH => Remembers
  BY ZeroVersion DEF InitH, Init, EmptyTable, NoRow, Remembers
<1>2. TypeOK /\ Remembers /\ [NextH]_varsH => Remembers'
  <2> SUFFICES ASSUME TypeOK, Remembers, [NextH]_varsH
               PROVE  Remembers'
    OBVIOUS
  <2>1. CASE UNCHANGED varsH
    BY <2>1 DEF varsH, vars, Remembers
  <2>2. CASE NextH
    <3>1. table' \in FilesTables
      BY <2>2, NextType DEF NextH, TypeOK
    <3>2. \A f \in Files : table'[f].ver \in Versions
      BY <3>1 DEF FilesTables, Row
    <3>3. \A f \in Files : Kept(table')[f] \in SUBSET Versions
                          /\ (table'[f].state = "ready" => table'[f].ver \in Kept(table')[f])
      BY <3>2 DEF Kept
    <3>4. kept' \in [Files -> SUBSET Versions]
          /\ \A f \in Files : Kept(table')[f] \subseteq kept'[f]
      BY <2>2, <3>3 DEF NextH, Remembers
    <3> QED
      BY <2>2, <3>2, <3>3, <3>4 DEF NextH, Remembers
  <2> QED
    BY <2>1, <2>2
<1> QED
  BY <1>1, <1>2, TypesOfH, PTL DEF SpecH

LEMMA InitSim == InitH => Cache!Init
<1> SUFFICES ASSUME InitH
             PROVE  Cache!Init
  OBVIOUS
<1>1. Kept(table) = [f \in Files |-> {}]
  BY DEF InitH, Init, EmptyTable, NoRow, Kept
<1>2. BeingWritten(job) = [f \in Files |-> {}]
  BY DEF InitH, Init, IdleJob, Writing, BeingWritten
<1>3. InView(rd) = [r \in Readers |-> {}]
  BY DEF InitH, Init, IdleReader, InView
<1> QED
  BY <1>1, <1>2, <1>3 DEF InitH, Init, Cache!Init

LEMMA NextSim ==
  ASSUME TypeOK, NoDuplicateDownload, Remembers, [NextH]_varsH
  PROVE  [Cache!Next]_(Cache!vars)
<1>1. Stutter => UNCHANGED Cache!vars
  BY DEF Stutter, Cache!vars
<1>2. CASE UNCHANGED varsH
  <2>1. UNCHANGED <<origin, table, job, rd, newest, kept>>
    BY <1>2 DEF varsH, vars
  <2>2. Stutter
    BY <2>1 DEF Stutter, Kept, BeingWritten, InView
  <2> QED
    BY <1>1, <2>2
<1>3. CASE NextH
  <2>1. Next
    BY <1>3 DEF NextH
  <2>2. Abstract
    BY <1>3, <2>1, ReaderSim, WorkerSim, LoopSim, RestartSim DEF Next
  <2> QED
    BY <1>1, <2>2 DEF Abstract
<1> QED
  BY <1>2, <1>3

(* Whatever the requests, the goroutines, the garbage collector, the swapper,
   failing statements and restarts do, the holder is a persistent cache: rows
   get READY only with what their one goroutine fetched, and a request answers
   only from a row that is READY when it is listed. *)
THEOREM Implements == SpecH => ImplementsPersistentCache
<1>1. SpecH => []Remembers
  BY RemembersAlways
<1> QED
  BY <1>1, InitSim, NextSim, TypesOfH, PTL DEF SpecH, ImplementsPersistentCache, Cache!Spec

-----------------------------------------------------------------------------
(* What the abstract cache promises holds of the server. *)
Promises == INSTANCE PersistentCacheProofs WITH
    content <- Kept(table), download <- BeingWritten(job), view <- InView(rd)

LEMMA SamePromise == Cache!Spec => Promises!Spec
<1>1. Cache!Init => Promises!Init
  BY DEF Cache!Init, Promises!Init
<1>2. [Cache!Next]_(Cache!vars) => [Promises!Next]_(Promises!vars)
  BY DEF Cache!Next, Cache!Update, Cache!Fetch, Cache!Store, Cache!GiveUp, Cache!Lose,
     Cache!Look, Cache!Reply, Cache!Crash, Cache!vars,
     Promises!Next, Promises!Update, Promises!Fetch, Promises!Store, Promises!GiveUp,
     Promises!Lose, Promises!Look, Promises!Reply, Promises!Crash, Promises!vars
<1> QED
  BY <1>1, <1>2, PTL DEF Cache!Spec, Promises!Spec

(* A file is never READY with content older than it was READY with before,
   although requests put rows back to PENDING with what they remember. *)
THEOREM NeverGoesBack == SpecH => ContentNeverGoesBack
<1>1. Promises!Spec => Promises!NeverOlder
  BY Promises!NeverGetsOlder
<1> QED
  BY <1>1, SamePromise, Implements, PTL
     DEF ImplementsPersistentCache, ContentNeverGoesBack, Promises!NeverOlder

(* What the goroutines are about to write is at least as new as what was READY
   last, and what the requests are about to answer was READY once, with no newer
   version than the last. *)
THEOREM FetchedAlwaysNewest == SpecH => []FetchedIsNewest
<1>1. Promises!Spec => []Promises!NewestKept
  BY Promises!KeepsNewest
<1>2. Promises!Spec => []Promises!AnswersWereKept
  BY Promises!AnswersKept
<1>3. Promises!Spec => []Promises!KeptHistory
  BY Promises!HistoryHolds
<1>4. TypeOK /\ Promises!NewestKept /\ Promises!AnswersWereKept /\ Promises!KeptHistory
      => FetchedIsNewest
  <2> SUFFICES ASSUME TypeOK, Promises!NewestKept, Promises!AnswersWereKept, Promises!KeptHistory
               PROVE  FetchedIsNewest
    OBVIOUS
  <2>1. ASSUME NEW w \in Workers, job[w].pc \in Writing
        PROVE  newest[job[w].file] <= job[w].ver /\ job[w].ver <= origin[job[w].file]
    <3>1. job[w] \in Jobs /\ job[w].pc # "idle"
      BY <2>1 DEF TypeOK, Writing
    <3>3. job[w].file \in Files
      BY <3>1 DEF Jobs
    <3>2. job[w].ver \in BeingWritten(job)[job[w].file]
      BY <2>1, <3>3 DEF BeingWritten
    <3> QED
      BY <3>2, <3>3 DEF Promises!NewestKept
  <2>2. ASSUME NEW r \in Readers, rd[r].pc \in {"check", "get", "read"}
        PROVE  rd[r].ver \in kept[rd[r].file] /\ rd[r].ver <= newest[rd[r].file]
    <3>1. <<rd[r].file, rd[r].ver>> \in InView(rd)[r]
      BY <2>2 DEF InView
    <3>2. rd[r].ver \in kept[rd[r].file]
      BY <3>1 DEF Promises!AnswersWereKept
    <3>3. rd[r].file \in Files
      BY <2>2, RequestFields DEF TypeOK
    <3> QED
      BY <3>2, <3>3 DEF Promises!KeptHistory
  <2> QED
    BY <2>1, <2>2 DEF FetchedIsNewest
<1> QED
  BY <1>1, <1>2, <1>3, <1>4, TypesOfH, SamePromise, Implements, PTL DEF ImplementsPersistentCache
=============================================================================
