---------------------------- MODULE ChunkedFiles ----------------------------
(***************************************************************************)
(* Files written and read in chunks: FileWriter.WriteAt and Close          *)
(* (file_writer.go), FileReader.ReadAt (file_reader.go) and the statements *)
(* of blobs_db.go, over the segments table and the list of ranges in a     *)
(* file's row. A chunk is a segment: PENDING under a partial token until   *)
(* its blob is stored and its range is committed to the file.              *)
(*                                                                         *)
(* The goroutines of one ReadAt share the variable err without a lock:     *)
(* each assigns it and reads it back twice, and either read may see what   *)
(* another goroutine assigned in between.                                  *)
(***************************************************************************)
EXTENDS Integers, Sequences, FiniteSets

CONSTANTS
    Files,      \* fids
    Blobs,      \* blob ids
    Writers, Readers,
    Length,     \* BOUND: bytes of a file are 0..Length-1
    Faults,     \* "full" Put fails, "lost" a triplet is evicted, "kill" the process is killed
    MaxLost,    \* BOUND on the blobs named by segments and not stored, after an eviction
    NoFile, NoBlob

ASSUME ChunksAssumption ==
    /\ Length \in Nat /\ MaxLost \in Nat
    /\ IsFiniteSet(Blobs)
    /\ Faults \subseteq {"full", "lost", "kill"}
    /\ NoFile \notin Files /\ NoBlob \notin Blobs

VARIABLES
    file,     \* rows of the files table: state and RngCodeList
    segs,     \* rows of the segments table
    stored,   \* blobs that PhyBH.Get finds
    wr,       \* a WriteAt in each writer
    rd        \* a ReadAt in each reader; want and failed are history

vars == <<file, segs, stored, wr, rd>>

-----------------------------------------------------------------------------
Positions == 0..Length

Ranges == {r \in [start : Positions, end : Positions, blob : Blobs] : r.start < r.end}

Segments == [file : Files, range : Ranges, state : {"pending", "ready"}]

Bytes(a, b) == a..(b - 1)

NoRange == [start |-> 0, end |-> 0, blob |-> NoBlob]

IdleWriter == [pc |-> "idle", file |-> NoFile, range |-> NoRange]

IdleReader == [pc |-> "idle", file |-> NoFile, start |-> 0, end |-> 0, todo |-> {}, waiting |-> {},
               err |-> FALSE, tmpErr |-> FALSE, failed |-> FALSE, got |-> {}, want |-> {}]

TypeOK ==
    /\ file \in [Files -> [state : {"absent", "pending", "ready"}, ranges : Seq(Ranges)]]
    /\ segs \subseteq Segments
    /\ stored \subseteq Blobs
    /\ wr \in [Writers -> [pc : {"idle", "put", "commit"}, file : Files \cup {NoFile},
                           range : Ranges \cup {NoRange}]]
    /\ \A w \in Writers : wr[w].pc # "idle" => wr[w].file \in Files /\ wr[w].range \in Ranges
    /\ rd \in [Readers -> [pc : {"idle", "read"}, file : Files \cup {NoFile},
                           start : Positions, end : Positions,
                           todo : SUBSET Segments, waiting : SUBSET (Segments \X BOOLEAN),
                           err : BOOLEAN, tmpErr : BOOLEAN, failed : BOOLEAN,
                           got : SUBSET Positions, want : SUBSET Positions]]

-----------------------------------------------------------------------------
(* The process dies and starts again: PENDING files lose their rows, the
   segments table is left as it is, and so are the blobs whose triplet also
   holds a cached file. The others lie in triplets no row names as its owner:
   CommitFileInDB leaves the owners column alone, and PhyBH.New deletes them. *)
NoFileRow == [state |-> "absent", ranges |-> <<>>]

Die ==
    /\ file' = [f \in Files |-> IF file[f].state = "pending" THEN NoFileRow ELSE file[f]]
    /\ wr' = [w \in Writers |-> IdleWriter]
    /\ rd' = [r \in Readers |-> IdleReader]
    /\ stored' \in SUBSET stored
    /\ UNCHANGED segs

Kill == "kill" \in Faults /\ Die

-----------------------------------------------------------------------------
(* Writing. *)

SegmentsOf(f) == {s \in segs : s.file = f}

(* A fid is a new guid. *)
CreateFile(f) ==
    /\ file[f].state = "absent" /\ SegmentsOf(f) = {}
    /\ file' = [file EXCEPT ![f].state = "pending"]
    /\ UNCHANGED <<segs, stored, wr, rd>>

(* The caller was given the fid, and may not know that a restart took the row. *)
Given(f) == file[f].state # "absent" \/ SegmentsOf(f) # {}

(* Mutated: the segment ends at the size, not at offset + size. *)
CreateBlobSegSized(w, f, range) ==
    /\ wr[w].pc = "idle" /\ Given(f)
    /\ \A s \in segs : s.range.blob # range.blob
    /\ LET sized == [range EXCEPT !.end = @ - range.start] IN
         /\ segs' = segs \cup {[file |-> f, range |-> sized, state |-> "pending"]}
         /\ wr' = [wr EXCEPT ![w] = [pc |-> "put", file |-> f, range |-> sized]]
    /\ UNCHANGED <<file, stored, rd>>

CreateBlobSeg(w, f, range) ==
    /\ wr[w].pc = "idle" /\ Given(f)
    /\ \A s \in segs : s.range.blob # range.blob
    /\ segs' = segs \cup {[file |-> f, range |-> range, state |-> "pending"]}
    /\ wr' = [wr EXCEPT ![w] = [pc |-> "put", file |-> f, range |-> range]]
    /\ UNCHANGED <<file, stored, rd>>

PutData(w) ==
    /\ wr[w].pc = "put"
    /\ stored' = stored \cup {wr[w].range.blob}
    /\ wr' = [wr EXCEPT ![w].pc = "commit"]
    /\ UNCHANGED <<file, segs, rd>>

(* "cache full": the PENDING segment stays. *)
PutDataFails(w) ==
    /\ "full" \in Faults
    /\ wr[w].pc = "put"
    /\ wr' = [wr EXCEPT ![w] = IdleWriter]
    /\ UNCHANGED <<file, segs, stored, rd>>

(* Mutated: ranges that only share their ends are taken for disjoint. *)
IsRangeCollisionLoose(ranges, range) ==
    \E i \in DOMAIN ranges :
        ~(ranges[i].start + 1 >= range.end \/ ranges[i].end <= range.start)

IsRangeCollision(ranges, range) ==
    \E i \in DOMAIN ranges :
        ~(ranges[i].start >= range.end \/ ranges[i].end <= range.start)

(* The place of InsertRangeCodeList, which goes from the back: after the last
   range that ends before this one starts. *)
Slots(ranges, range) ==
    {n \in 0..Len(ranges) :
        /\ n > 0 => ranges[n].end <= range.start
        /\ \A m \in (n + 1)..Len(ranges) : ranges[m].end > range.start}

Insert(ranges, n, range) == SubSeq(ranges, 1, n) \o <<range>> \o SubSeq(ranges, n + 1, Len(ranges))

(* Mutated: the segment keeps its state and its partial token. *)
CommitBlobKeepsSegment(w) ==
    /\ wr[w].pc = "commit"
    /\ LET f == wr[w].file
           range == wr[w].range
       IN  /\ file[f].state # "absent"
           /\ ~IsRangeCollision(file[f].ranges, range)
           /\ \E n \in Slots(file[f].ranges, range) :
                file' = [file EXCEPT ![f].ranges = Insert(@, n, range)]
    /\ wr' = [wr EXCEPT ![w] = IdleWriter]
    /\ UNCHANGED <<segs, stored, rd>>

(* One transaction that locks the file's row, whatever the file's state. *)
CommitBlob(w) ==
    /\ wr[w].pc = "commit"
    /\ LET f == wr[w].file
           range == wr[w].range
           seg(state) == [file |-> f, range |-> range, state |-> state]
       IN  /\ file[f].state # "absent"
           /\ ~IsRangeCollision(file[f].ranges, range)
           /\ \E n \in Slots(file[f].ranges, range) :
                file' = [file EXCEPT ![f].ranges = Insert(@, n, range)]
           /\ segs' = (segs \ {seg("pending")}) \cup {seg("ready")}
    /\ wr' = [wr EXCEPT ![w] = IdleWriter]
    /\ UNCHANGED <<stored, rd>>

(* "range code collision": the PENDING segment and the blob stay. *)
CommitBlobCollides(w) ==
    /\ wr[w].pc = "commit"
    /\ file[wr[w].file].state # "absent"
    /\ IsRangeCollision(file[wr[w].file].ranges, wr[w].range)
    /\ wr' = [wr EXCEPT ![w] = IdleWriter]
    /\ UNCHANGED <<file, segs, stored, rd>>

(* The row of the file is gone: log.Fatal. *)
CommitBlobFatal(w) ==
    /\ wr[w].pc = "commit"
    /\ file[wr[w].file].state = "absent"
    /\ Die

(* Mutated: the last pair of ranges is not compared. *)
IsRangeFullCoverageShort(ranges) ==
    \A i \in 1..(Len(ranges) - 2) : ranges[i].end = ranges[i + 1].start

IsRangeFullCoverage(ranges) ==
    \A i \in 1..(Len(ranges) - 1) : ranges[i].end = ranges[i + 1].start

(* FileWriter.Close: CommitFileInDB. *)
CommitFile(f) ==
    /\ file[f].state = "pending"
    /\ IsRangeFullCoverage(file[f].ranges)
    /\ file' = [file EXCEPT ![f].state = "ready"]
    /\ UNCHANGED <<segs, stored, wr, rd>>

(* The triplet that holds the blob is evicted, and the rows of segments are not
   looked at. *)
EvictBlob(b) ==
    /\ "lost" \in Faults
    /\ b \in stored /\ Cardinality({s.range.blob : s \in segs} \ (stored \ {b})) <= MaxLost
    /\ stored' = stored \ {b}
    /\ UNCHANGED <<file, segs, wr, rd>>

-----------------------------------------------------------------------------
(* Reading. *)

Larger(a, b) == IF a > b THEN a ELSE b
Smaller(a, b) == IF a < b THEN a ELSE b

(* What a segment is asked for, counted from its start. *)
PieceStart(q, s) == Larger(s.range.start, q.start) - s.range.start
PieceEnd(q, s) == Smaller(s.range.end, q.end) - s.range.start

Piece(q, s) == Bytes(s.range.start + PieceStart(q, s), s.range.start + PieceEnd(q, s))

(* Mutated: the loop ends one byte early. *)
WindowShort(f, start, end) ==
    {s \in SegmentsOf(f) : ~(s.range.end < start) /\ ~(s.range.start >= end - 1)}

(* The segments of the loop, in whatever state: those that end before the
   window are passed over, the first that starts after it ends the loop. *)
Window(f, start, end) ==
    {s \in SegmentsOf(f) : ~(s.range.end < start) /\ ~(s.range.start >= end)}

Committed(f) == UNION {Bytes(r.start, r.end) : r \in {file[f].ranges[i] : i \in DOMAIN file[f].ranges}}

ListBlobSegs(r, f, start, end) ==
    /\ rd[r].pc = "idle" /\ Given(f)
    /\ rd' = [rd EXCEPT ![r] = [IdleReader EXCEPT
                !.pc = "read", !.file = f, !.start = start, !.end = end,
                !.todo = Window(f, start, end),
                !.want = Bytes(start, end) \cap Committed(f)]]
    /\ UNCHANGED <<file, segs, stored, wr>>

(* readPiece succeeds, for a segment whose token names a triplet. *)
PieceFound(q, s) ==
    /\ s.range.blob \in stored
    /\ PieceStart(q, s) < s.range.end - s.range.start
    /\ PieceEnd(q, s) <= s.range.end - s.range.start

(* curBlobData, err = readPiece(...): err is shared. *)
ReadPiece(r, s) ==
    /\ s \in rd[r].todo /\ s.state = "ready"
    /\ LET ok == PieceFound(rd[r], s) IN
         rd' = [rd EXCEPT ![r].todo = @ \ {s}, ![r].waiting = @ \cup {<<s, ok>>},
                          ![r].err = ~ok, ![r].failed = @ \/ ~ok]
    /\ UNCHANGED <<file, segs, stored, wr>>

(* A partial token names no triplet: its match is nil, and indexing it panics
   in a goroutine nobody recovers. *)
ReadPiecePanics(r, s) ==
    /\ s \in rd[r].todo /\ s.state = "pending"
    /\ Die

(* if err != nil { tmpErr = err }: the race lets each of the two reads of err
   see this goroutine's own value or the last one assigned. A piece that failed
   copies nothing. *)
TestErr(r, s, ok) ==
    /\ <<s, ok>> \in rd[r].waiting
    /\ \E tested, assigned \in {rd[r].err, ~ok} :
         rd' = [rd EXCEPT ![r].waiting = @ \ {<<s, ok>>},
                          ![r].tmpErr = IF tested THEN assigned ELSE @,
                          ![r].got = IF tested \/ ~ok THEN @
                                     ELSE @ \cup Piece(rd[r], s)]
    /\ UNCHANGED <<file, segs, stored, wr>>

(* wg.Wait() is over: the bytes got, the rest zero, or tmpErr. *)
Joined(r) == rd[r].pc = "read" /\ rd[r].todo = {} /\ rd[r].waiting = {}

Return(r) ==
    /\ Joined(r)
    /\ rd' = [rd EXCEPT ![r] = IdleReader]
    /\ UNCHANGED <<file, segs, stored, wr>>

-----------------------------------------------------------------------------
Init ==
    /\ file = [f \in Files |-> NoFileRow]
    /\ segs = {}
    /\ stored = {}
    /\ wr = [w \in Writers |-> IdleWriter]
    /\ rd = [r \in Readers |-> IdleReader]

WriterStep(w) ==
    \/ \E f \in Files, range \in Ranges : CreateBlobSeg(w, f, range)
    \/ PutData(w) \/ PutDataFails(w)
    \/ CommitBlob(w) \/ CommitBlobCollides(w) \/ CommitBlobFatal(w)

ReaderStep(r) ==
    \/ \E f \in Files, start, end \in Positions : start < end /\ ListBlobSegs(r, f, start, end)
    \/ \E s \in rd[r].todo : ReadPiece(r, s) \/ ReadPiecePanics(r, s)
    \/ \E p \in rd[r].waiting : TestErr(r, p[1], p[2])
    \/ Return(r)

Next ==
    \/ \E f \in Files : CreateFile(f) \/ CommitFile(f)
    \/ \E w \in Writers : WriterStep(w)
    \/ \E r \in Readers : ReaderStep(r)
    \/ \E b \in Blobs : EvictBlob(b)
    \/ Kill

Spec == Init /\ [][Next]_vars

-----------------------------------------------------------------------------
(* Safety. *)

(* "ranges are non-overlapped": whatever order concurrent writers commit in,
   the list of a file stays sorted, and no two of its ranges share a byte. *)
Sorted(ranges) == \A i, j \in DOMAIN ranges : i < j => ranges[i].end <= ranges[j].start

RangesSorted == \A f \in Files : Sorted(file[f].ranges)

(* The two tables agree, through writers that fail or die in between: a range
   of a file is a READY segment, and a READY segment of a file that exists is
   one of its ranges. *)
SegmentsMatchRanges ==
    \A f \in Files :
        /\ \A i \in DOMAIN file[f].ranges :
             [file |-> f, range |-> file[f].ranges[i], state |-> "ready"] \in segs
        /\ file[f].state # "absent" =>
             \A s \in SegmentsOf(f) : s.state = "ready" =>
                \E i \in DOMAIN file[f].ranges : file[f].ranges[i] = s.range

(* A read none of whose pieces fails returns every byte that was committed
   when it listed the segments: next to writers that commit, collide, give up
   and die, at every offset, and in spite of the variable its goroutines share. *)
ReadsAreWhole ==
    \A r \in Readers :
        Joined(r) /\ ~rd[r].failed => ~rd[r].tmpErr /\ rd[r].want \subseteq rd[r].got

(* The bytes the row of a file accounts for, each with the blob it names. *)
Contents(f) ==
    UNION {Bytes(r.start, r.end) \X {r.blob} : r \in {file[f].ranges[i] : i \in DOMAIN file[f].ranges}}

Promise == INSTANCE WriteOnceFile WITH
    written <- [f \in Files |-> Contents(f)],
    sealed <- {f \in Files : file[f].state = "ready"}

(* The rows of files implement files whose bytes are written once: no commit,
   in whatever order and next to whatever other writer, replaces or shares a
   byte; Close seals no file with a hole; a restart takes unsealed files only. *)
WritesOnce == Promise!Spec

-----------------------------------------------------------------------------
(* What TEST_file_io_ops expects, and the code does not keep. *)

(* log.Fatal(err): a read of bytes that are all committed does not fail. *)
ReadsSucceed ==
    \A r \in Readers : Joined(r) /\ rd[r].want = Bytes(rd[r].start, rd[r].end) => ~rd[r].tmpErr
=============================================================================
