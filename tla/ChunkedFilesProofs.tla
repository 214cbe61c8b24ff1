------------------------- MODULE ChunkedFilesProofs -------------------------
(* Theorems about ChunkedFiles, for any number of writers and readers, files  *)
(* of any length and every combination of faults.                            *)
EXTENDS ChunkedFiles, SequenceTheorems, TLAPS

USE ChunksAssumption

-----------------------------------------------------------------------------
(* Lists of ranges. *)

LEMMA RangeFields ==
  ASSUME NEW r \in Ranges
  PROVE  /\ r.start \in Positions /\ r.end \in Positions /\ r.blob \in Blobs
         /\ r.start \in Int /\ r.end \in Int /\ r.start < r.end
  BY DEF Ranges, Positions

(* Insert(ranges, n, range), element by element. *)
LEMMA InsertElements ==
  ASSUME NEW ranges \in Seq(Ranges), NEW range \in Ranges, NEW n \in 0..Len(ranges)
  PROVE  /\ Insert(ranges, n, range) \in Seq(Ranges)
         /\ Len(Insert(ranges, n, range)) = Len(ranges) + 1
         /\ \A i \in 1..n : Insert(ranges, n, range)[i] = ranges[i]
         /\ Insert(ranges, n, range)[n + 1] = range
         /\ \A i \in (n + 2)..(Len(ranges) + 1) : Insert(ranges, n, range)[i] = ranges[i - 1]
<1> DEFINE a == SubSeq(ranges, 1, n)
           b == SubSeq(ranges, n + 1, Len(ranges))
<1>1. Len(ranges) \in Nat /\ n \in Nat /\ n <= Len(ranges)
  OBVIOUS
<1>2. a \in Seq(Ranges) /\ Len(a) = n /\ \A i \in 1..n : a[i] = ranges[i]
  BY <1>1, SubSeqProperties
<1>3. b \in Seq(Ranges) /\ Len(b) = Len(ranges) - n
      /\ \A i \in 1..(Len(ranges) - n) : b[i] = ranges[n + i]
  BY <1>1, SubSeqProperties
<1> HIDE DEF a, b
<1>4. <<range>> \in Seq(Ranges) /\ Len(<<range>>) = 1 /\ <<range>>[1] = range
  OBVIOUS
<1>5. /\ a \o <<range>> \in Seq(Ranges) /\ Len(a \o <<range>>) = n + 1
      /\ \A i \in 1..n : (a \o <<range>>)[i] = ranges[i]
      /\ (a \o <<range>>)[n + 1] = range
  BY <1>1, <1>2, <1>4, ConcatProperties
<1> DEFINE c == a \o <<range>>
<1>9. c \in Seq(Ranges) /\ Len(c) = n + 1
  BY <1>5
<1> HIDE DEF c
<1>6. /\ c \o b \in Seq(Ranges) /\ Len(c \o b) = Len(ranges) + 1
      /\ \A i \in 1..(n + 1) : (c \o b)[i] = c[i]
      /\ \A i \in (n + 2)..(Len(ranges) + 1) : (c \o b)[i] = b[i - (n + 1)]
  BY <1>1, <1>3, <1>9, ConcatProperties
<1>7. \A i \in (n + 2)..(Len(ranges) + 1) : b[i - (n + 1)] = ranges[i - 1]
  BY <1>1, <1>3
<1>8. Insert(ranges, n, range) = c \o b
  BY DEF Insert, a, b, c
<1> QED
  BY <1>1, <1>5, <1>6, <1>7, <1>8 DEF c

(* A range that collides with none, put into the place InsertRangeCodeList
   finds, keeps the list sorted. *)
LEMMA InsertSorts ==
  ASSUME NEW ranges \in Seq(Ranges), NEW range \in Ranges, Sorted(ranges),
         ~IsRangeCollision(ranges, range), NEW n \in Slots(ranges, range)
  PROVE  Sorted(Insert(ranges, n, range))
<1> DEFINE new == Insert(ranges, n, range)
<1>1. Len(ranges) \in Nat /\ n \in 0..Len(ranges) /\ DOMAIN ranges = 1..Len(ranges)
  BY DEF Slots
<1>2. \A i \in 1..Len(ranges) : ranges[i] \in Ranges
  OBVIOUS
<1>3. \A i \in 1..Len(ranges) : ranges[i].start >= range.end \/ ranges[i].end <= range.start
  BY <1>1 DEF IsRangeCollision
<1>4. \A i, j \in 1..Len(ranges) : i < j => ranges[i].end <= ranges[j].start
  BY <1>1 DEF Sorted
<1>5. \A i \in 1..n : ranges[i].end <= range.start
  <2>1. SUFFICES ASSUME NEW i \in 1..n
                 PROVE  ranges[i].end <= range.start
    OBVIOUS
  <2>2. ranges[n].end <= range.start /\ ranges[n] \in Ranges /\ ranges[i] \in Ranges
    BY <1>1, <1>2 DEF Slots
  <2>3. i < n => ranges[i].end <= ranges[n].start
    BY <1>1, <1>4
  <2> QED
    BY <1>1, <2>2, <2>3, RangeFields
<1>6. \A i \in (n + 1)..Len(ranges) : range.end <= ranges[i].start
  <2>1. SUFFICES ASSUME NEW i \in (n + 1)..Len(ranges)
                 PROVE  range.end <= ranges[i].start
    OBVIOUS
  <2>2. ranges[i].end > range.start /\ ranges[i] \in Ranges
    BY <1>1, <1>2 DEF Slots
  <2>3. ranges[i].start >= range.end \/ ranges[i].end <= range.start
    BY <1>1, <1>3
  <2> QED
    BY <2>2, <2>3, RangeFields
<1>7. /\ DOMAIN new = 1..(Len(ranges) + 1)
      /\ \A i \in 1..n : new[i] = ranges[i]
      /\ new[n + 1] = range
      /\ \A i \in (n + 2)..(Len(ranges) + 1) : new[i] = ranges[i - 1]
  <2>1. new \in Seq(Ranges) /\ Len(new) = Len(ranges) + 1
    BY <1>1, InsertElements
  <2>2. DOMAIN new = 1..(Len(ranges) + 1)
    BY <2>1
  <2>3. /\ \A i \in 1..n : new[i] = ranges[i]
        /\ new[n + 1] = range
        /\ \A i \in (n + 2)..(Len(ranges) + 1) : new[i] = ranges[i - 1]
    BY <1>1, InsertElements, ZenonT(40)
  <2> QED
    BY <2>2, <2>3
<1> HIDE DEF new
<1>8. SUFFICES ASSUME NEW i \in 1..(Len(ranges) + 1), NEW j \in 1..(Len(ranges) + 1), i < j
               PROVE  new[i].end <= new[j].start
  BY <1>7 DEF Sorted, new
<1>9. CASE j <= n
  BY <1>1, <1>4, <1>7, <1>8, <1>9
<1>10. CASE j = n + 1
  BY <1>1, <1>5, <1>7, <1>8, <1>10
<1>11. CASE i = n + 1 /\ j > n + 1
  BY <1>1, <1>6, <1>7, <1>8, <1>11
<1>12. CASE i <= n /\ j > n + 1
  BY <1>1, <1>4, <1>7, <1>8, <1>12
<1>13. CASE i > n + 1
  BY <1>1, <1>4, <1>7, <1>8, <1>13
<1> QED
  BY <1>1, <1>8, <1>9, <1>10, <1>11, <1>12, <1>13

-----------------------------------------------------------------------------
(* The types. *)

FileRows == [state : {"absent", "pending", "ready"}, ranges : Seq(Ranges)]

WriterStates == [pc : {"idle", "put", "commit"}, file : Files \cup {NoFile},
                 range : Ranges \cup {NoRange}]

ReaderStates == [pc : {"idle", "read"}, file : Files \cup {NoFile},
                 start : Positions, end : Positions,
                 todo : SUBSET Segments, waiting : SUBSET (Segments \X BOOLEAN),
                 err : BOOLEAN, tmpErr : BOOLEAN, failed : BOOLEAN,
                 got : SUBSET Positions, want : SUBSET Positions]

LEMMA Idle ==
  /\ NoFileRow \in FileRows /\ NoFileRow.state = "absent" /\ NoFileRow.ranges = <<>>
  /\ IdleWriter \in WriterStates /\ IdleWriter.pc = "idle"
  /\ IdleReader \in ReaderStates /\ IdleReader.pc = "idle"
<1>1. 0 \in Positions
  BY DEF Positions
<1>2. <<>> \in Seq(Ranges)
  OBVIOUS
<1> QED
  BY <1>1, <1>2 DEF NoFileRow, FileRows, IdleWriter, WriterStates, IdleReader, ReaderStates

LEMMA Types ==
  TypeOK <=> /\ file \in [Files -> FileRows] /\ segs \in SUBSET Segments /\ stored \in SUBSET Blobs
             /\ wr \in [Writers -> WriterStates]
             /\ \A w \in Writers : wr[w].pc # "idle" => wr[w].file \in Files /\ wr[w].range \in Ranges
             /\ rd \in [Readers -> ReaderStates]
  BY DEF TypeOK, FileRows, WriterStates, ReaderStates

LEMMA TypesAfter ==
  TypeOK' <=> /\ file' \in [Files -> FileRows] /\ segs' \in SUBSET Segments /\ stored' \in SUBSET Blobs
              /\ wr' \in [Writers -> WriterStates]
              /\ \A w \in Writers : wr'[w].pc # "idle" => wr'[w].file \in Files /\ wr'[w].range \in Ranges
              /\ rd' \in [Readers -> ReaderStates]
  BY DEF TypeOK, FileRows, WriterStates, ReaderStates

LEMMA DieTypes ==
  ASSUME TypeOK, Die
  PROVE  TypeOK'
<1>1. file' \in [Files -> FileRows]
  BY Types, Idle DEF Die
<1>2. wr' \in [Writers -> WriterStates] /\ \A w \in Writers : wr'[w].pc = "idle"
  BY Idle DEF Die
<1>3. rd' \in [Readers -> ReaderStates]
  BY Idle DEF Die
<1>4. segs' \in SUBSET Segments /\ stored' \in SUBSET Blobs
  BY Types DEF Die
<1> QED
  BY <1>1, <1>2, <1>3, <1>4, TypesAfter

LEMMA WriterTypes ==
  ASSUME TypeOK, NEW w \in Writers, WriterStep(w)
  PROVE  TypeOK'
<1>1. /\ file \in [Files -> FileRows] /\ segs \in SUBSET Segments /\ stored \in SUBSET Blobs
      /\ wr \in [Writers -> WriterStates]
      /\ \A v \in Writers : wr[v].pc # "idle" => wr[v].file \in Files /\ wr[v].range \in Ranges
      /\ rd \in [Readers -> ReaderStates]
  BY Types
<1>2. ASSUME NEW x \in WriterStates, x.pc # "idle" => x.file \in Files /\ x.range \in Ranges,
             wr' = [wr EXCEPT ![w] = x], file' \in [Files -> FileRows],
             segs' \in SUBSET Segments, stored' \in SUBSET Blobs, rd' = rd
      PROVE  TypeOK'
  <2>1. wr' \in [Writers -> WriterStates]
        /\ \A v \in Writers : wr'[v].pc # "idle" => wr'[v].file \in Files /\ wr'[v].range \in Ranges
    BY <1>1, <1>2
  <2> QED
    BY <1>1, <1>2, <2>1, TypesAfter
<1>3. ASSUME NEW f \in Files, NEW range \in Ranges, CreateBlobSeg(w, f, range)
      PROVE  TypeOK'
  <2>1. [pc |-> "put", file |-> f, range |-> range] \in WriterStates
    BY DEF WriterStates
  <2>2. [file |-> f, range |-> range, state |-> "pending"] \in Segments
    BY DEF Segments
  <2> QED
    BY <1>1, <1>2, <1>3, <2>1, <2>2 DEF CreateBlobSeg
<1>4. CASE PutData(w)
  <2> DEFINE x == [wr[w] EXCEPT !.pc = "commit"]
  <2>1. x \in WriterStates /\ x.file = wr[w].file /\ x.range = wr[w].range
    BY <1>1 DEF WriterStates
  <2>2. wr[w].file \in Files /\ wr[w].range \in Ranges
    BY <1>1, <1>4 DEF PutData
  <2>3. wr' = [wr EXCEPT ![w] = x] /\ UNCHANGED <<file, segs, rd>>
        /\ stored' = stored \cup {wr[w].range.blob}
    BY <1>4 DEF PutData
  <2> HIDE DEF x
  <2>4. stored' \in SUBSET Blobs
    BY <1>1, <2>2, <2>3, RangeFields
  <2> QED
    BY <1>1, <1>2, <2>1, <2>2, <2>3, <2>4
<1>5. CASE PutDataFails(w) \/ CommitBlobCollides(w)
  BY <1>1, <1>2, <1>5, Idle DEF PutDataFails, CommitBlobCollides
<1>6. CASE CommitBlob(w)
  <2> DEFINE f == wr[w].file
             range == wr[w].range
             ready == [file |-> f, range |-> range, state |-> "ready"]
  <2>1. f \in Files /\ range \in Ranges
    BY <1>1, <1>6 DEF CommitBlob
  <2>2. ready \in Segments
    BY <2>1 DEF Segments
  <2>3. segs' \in SUBSET Segments
    BY <1>1, <1>6, <2>2 DEF CommitBlob
  <2>4. PICK n \in Slots(file[f].ranges, range) :
          file' = [file EXCEPT ![f].ranges = Insert(file[f].ranges, n, range)]
    BY <1>6 DEF CommitBlob
  <2>5. file[f] \in FileRows /\ file[f].ranges \in Seq(Ranges) /\ n \in 0..Len(file[f].ranges)
    BY <1>1, <2>1, <2>4 DEF FileRows, Slots
  <2>6. Insert(file[f].ranges, n, range) \in Seq(Ranges)
    BY <2>1, <2>5, InsertElements
  <2>7. [file[f] EXCEPT !.ranges = Insert(file[f].ranges, n, range)] \in FileRows
    BY <2>5, <2>6 DEF FileRows
  <2>8. file' \in [Files -> FileRows]
    BY <1>1, <2>4, <2>7
  <2>9. wr' = [wr EXCEPT ![w] = IdleWriter] /\ UNCHANGED <<stored, rd>>
    BY <1>6 DEF CommitBlob
  <2> QED
    BY <1>1, <1>2, <2>3, <2>8, <2>9, Idle
<1>7. CASE CommitBlobFatal(w)
  BY <1>7, DieTypes DEF CommitBlobFatal
<1> QED
  BY <1>3, <1>4, <1>5, <1>6, <1>7 DEF WriterStep

(* The bytes a piece copies are the reader's. *)
LEMMA PieceBytes ==
  ASSUME NEW q \in ReaderStates, NEW s \in Segments
  PROVE  /\ s.range.start + PieceStart(q, s) = Larger(s.range.start, q.start)
         /\ s.range.start + PieceEnd(q, s) = Smaller(s.range.end, q.end)
         /\ Piece(q, s) = Bytes(q.start, q.end) \cap Bytes(s.range.start, s.range.end)
         /\ Bytes(s.range.start, s.range.end) \subseteq Positions
<1>1. s.range \in Ranges /\ q.start \in Int /\ q.end \in Int
  BY DEF Segments, ReaderStates, Positions
<1>2. s.range.start \in Int /\ s.range.end \in Int
      /\ s.range.start \in Positions /\ s.range.end \in Positions
  BY <1>1, RangeFields
<1> QED
  BY <1>1, <1>2 DEF Piece, PieceStart, PieceEnd, Larger, Smaller, Bytes, Positions

LEMMA ReaderTypes ==
  ASSUME TypeOK, NEW r \in Readers, ReaderStep(r)
  PROVE  TypeOK'
<1>1. /\ file \in [Files -> FileRows] /\ segs \in SUBSET Segments
      /\ rd \in [Readers -> ReaderStates] /\ rd[r] \in ReaderStates
  BY Types
<1>2. ASSUME NEW q \in ReaderStates, rd' = [rd EXCEPT ![r] = q],
             UNCHANGED <<file, segs, stored, wr>>
      PROVE  TypeOK'
  <2>1. rd' \in [Readers -> ReaderStates]
    BY <1>1, <1>2
  <2> QED
    BY <1>2, <2>1, Types, TypesAfter
<1>3. ASSUME NEW f \in Files, NEW start \in Positions, NEW end \in Positions,
             ListBlobSegs(r, f, start, end)
      PROVE  TypeOK'
  <2> DEFINE q == [IdleReader EXCEPT
                !.pc = "read", !.file = f, !.start = start, !.end = end,
                !.todo = Window(f, start, end),
                !.want = Bytes(start, end) \cap Committed(f)]
  <2>1. Window(f, start, end) \in SUBSET Segments
    BY <1>1 DEF Window, SegmentsOf
  <2>2. Bytes(start, end) \cap Committed(f) \in SUBSET Positions
    BY DEF Bytes, Positions
  <2>3. \A w \in SUBSET Segments, b \in SUBSET Positions :
          [IdleReader EXCEPT !.pc = "read", !.file = f, !.start = start, !.end = end,
                             !.todo = w, !.want = b] \in ReaderStates
    BY Idle DEF ReaderStates
  <2> QED
    BY <1>2, <1>3, <2>1, <2>2, <2>3 DEF ListBlobSegs
<1>4. ASSUME NEW s \in rd[r].todo, ReadPiece(r, s)
      PROVE  TypeOK'
  <2> DEFINE ok == PieceFound(rd[r], s)
             left == rd[r].todo \ {s}
             waiting == rd[r].waiting \cup {<<s, ok>>}
             err == ~ok
             failed == rd[r].failed \/ ~ok
             q == [rd[r] EXCEPT !.todo = left, !.waiting = waiting, !.err = err, !.failed = failed]
  <2>1. s \in Segments /\ ok \in BOOLEAN /\ err \in BOOLEAN /\ failed \in BOOLEAN
    BY <1>1 DEF ReaderStates, PieceFound
  <2>3. rd' = [rd EXCEPT ![r] = q]
    BY <1>1, <1>4 DEF ReadPiece
  <2> HIDE DEF ok, err, failed
  <2>4. left \in SUBSET Segments /\ waiting \in SUBSET (Segments \X BOOLEAN)
    BY <1>1, <2>1 DEF ReaderStates
  <2> HIDE DEF left, waiting
  <2>2. q \in ReaderStates
    BY <1>1, <2>1, <2>4 DEF ReaderStates
  <2> HIDE DEF q
  <2> QED
    BY <1>2, <1>4, <2>2, <2>3 DEF ReadPiece
<1>5. ASSUME NEW p \in rd[r].waiting, TestErr(r, p[1], p[2])
      PROVE  TypeOK'
  <2> DEFINE s == p[1]
             left == rd[r].waiting \ {<<s, p[2]>>}
  <2>1. s \in Segments /\ p[2] \in BOOLEAN /\ rd[r].got \in SUBSET Positions
        /\ rd[r].err \in BOOLEAN /\ rd[r].tmpErr \in BOOLEAN
    BY <1>1 DEF ReaderStates
  <2>2. Piece(rd[r], s) \in SUBSET Positions
    BY <1>1, <2>1, PieceBytes
  <2>3. PICK tested \in BOOLEAN, assigned \in BOOLEAN :
          rd' = [rd EXCEPT ![r].waiting = @ \ {<<s, p[2]>>},
                           ![r].tmpErr = IF tested THEN assigned ELSE @,
                           ![r].got = IF tested \/ ~p[2] THEN @ ELSE @ \cup Piece(rd[r], s)]
    BY <1>5, <2>1 DEF TestErr
  <2> DEFINE tmpErr == IF tested THEN assigned ELSE rd[r].tmpErr
             got == IF tested \/ ~p[2] THEN rd[r].got ELSE rd[r].got \cup Piece(rd[r], s)
             q == [rd[r] EXCEPT !.waiting = left, !.tmpErr = tmpErr, !.got = got]
  <2>4. rd' = [rd EXCEPT ![r] = q]
    BY <1>1, <2>3
  <2>5. got \in SUBSET Positions /\ tmpErr \in BOOLEAN
    BY <2>1, <2>2
  <2>6. left \in SUBSET (Segments \X BOOLEAN)
    BY <1>1 DEF ReaderStates
  <2> HIDE DEF left, tmpErr, got
  <2>7. q \in ReaderStates
    BY <1>1, <2>5, <2>6 DEF ReaderStates
  <2> HIDE DEF q
  <2> QED
    BY <1>2, <1>5, <2>4, <2>7 DEF TestErr
<1>6. ASSUME NEW s, ReadPiecePanics(r, s)
      PROVE  TypeOK'
  BY <1>6, DieTypes DEF ReadPiecePanics
<1>7. CASE Return(r)
  BY <1>2, <1>7, Idle DEF Return
<1> QED
  BY <1>3, <1>4, <1>5, <1>6, <1>7 DEF ReaderStep

LEMMA NextTypes ==
  ASSUME TypeOK, [Next]_vars
  PROVE  TypeOK'
<1>1. ASSUME NEW f \in Files, CreateFile(f) \/ CommitFile(f)
      PROVE  TypeOK'
  <2>1. file' \in [Files -> FileRows]
    <3>1. file \in [Files -> FileRows]
      BY Types
    <3>2. \A st \in {"pending", "ready"} : [file[f] EXCEPT !.state = st] \in FileRows
      BY <3>1 DEF FileRows
    <3>3. \E st \in {"pending", "ready"} : file' = [file EXCEPT ![f] = [file[f] EXCEPT !.state = st]]
      BY <1>1 DEF CreateFile, CommitFile
    <3> QED
      BY <3>1, <3>2, <3>3
  <2> QED
    BY <1>1, <2>1, Types, TypesAfter DEF CreateFile, CommitFile
<1>2. ASSUME NEW b \in Blobs, EvictBlob(b)
      PROVE  TypeOK'
  BY <1>2, Types, TypesAfter DEF EvictBlob
<1>3. CASE Kill
  BY <1>3, DieTypes DEF Kill
<1>4. CASE UNCHANGED vars
  BY <1>4, Types, TypesAfter DEF vars
<1> QED
  BY <1>1, <1>2, <1>3, <1>4, WriterTypes, ReaderTypes DEF Next

(* Rows, segments, writers and readers keep their types: a read copies only
   into its own buffer, a commit writes ranges of the file. *)
THEOREM TypesKept == Spec => []TypeOK
<1>1. Init => TypeOK
  BY Types, Idle DEF Init
<1> QED
  BY <1>1, NextTypes, PTL DEF Spec

-----------------------------------------------------------------------------
(* What a step does to the rows of a file. *)

LEMMA CommitSteps ==
  ASSUME TypeOK, NEW w \in Writers, CommitBlob(w)
  PROVE  /\ wr[w].file \in Files /\ wr[w].range \in Ranges
         /\ file[wr[w].file].ranges \in Seq(Ranges)
         /\ ~IsRangeCollision(file[wr[w].file].ranges, wr[w].range)
         /\ \E n \in Slots(file[wr[w].file].ranges, wr[w].range) :
              file'[wr[w].file].ranges = Insert(file[wr[w].file].ranges, n, wr[w].range)
         /\ file'[wr[w].file].state = file[wr[w].file].state
         /\ file[wr[w].file].state # "absent"
         /\ \A f \in Files \ {wr[w].file} : file'[f] = file[f]
<1>1. file \in [Files -> FileRows] /\ wr[w].file \in Files /\ wr[w].range \in Ranges
  BY Types DEF CommitBlob
<1>2. file[wr[w].file] \in FileRows /\ file[wr[w].file].ranges \in Seq(Ranges)
  BY <1>1 DEF FileRows
<1>3. PICK n \in Slots(file[wr[w].file].ranges, wr[w].range) :
        file' = [file EXCEPT ![wr[w].file].ranges = Insert(@, n, wr[w].range)]
  BY DEF CommitBlob
<1> DEFINE new == [file[wr[w].file] EXCEPT !.ranges = Insert(file[wr[w].file].ranges, n, wr[w].range)]
<1>4. file' = [file EXCEPT ![wr[w].file] = new]
  BY <1>3
<1>5. /\ new.ranges = Insert(file[wr[w].file].ranges, n, wr[w].range)
      /\ new.state = file[wr[w].file].state
  BY <1>2 DEF FileRows
<1> HIDE DEF new
<1> QED
  BY <1>1, <1>2, <1>3, <1>4, <1>5 DEF CommitBlob

LEMMA FileSteps ==
  ASSUME TypeOK, [Next]_vars
  PROVE  \/ Die
         \/ \E w \in Writers : CommitBlob(w)
         \/ \E f \in Files :
              /\ CreateFile(f) \/ CommitFile(f)
              /\ \A g \in Files : file'[g].ranges = file[g].ranges
         \/ UNCHANGED file
<1>1. ASSUME NEW f \in Files, CreateFile(f) \/ CommitFile(f)
      PROVE  \A g \in Files : file'[g].ranges = file[g].ranges
  <2>1. \A g \in Files : file[g] \in FileRows
    BY Types
  <2>2. PICK st \in {"pending", "ready"} : file' = [file EXCEPT ![f].state = st]
    BY <1>1 DEF CreateFile, CommitFile
  <2> QED
    BY <2>1, <2>2, Types DEF FileRows
<1>2. ASSUME NEW w \in Writers, WriterStep(w)
      PROVE  Die \/ CommitBlob(w) \/ UNCHANGED file
  BY <1>2 DEF WriterStep, CreateBlobSeg, PutData, PutDataFails, CommitBlobCollides, CommitBlobFatal
<1>3. ASSUME NEW r \in Readers, ReaderStep(r)
      PROVE  Die \/ UNCHANGED file
  BY <1>3 DEF ReaderStep, ListBlobSegs, ReadPiece, ReadPiecePanics, TestErr, Return
<1> QED
  BY <1>1, <1>2, <1>3 DEF Next, Kill, EvictBlob, vars

-----------------------------------------------------------------------------
(* Writers that commit next to each other, collide, fail and die keep the list
   of ranges of every file sorted and its ranges disjoint. *)
THEOREM SortedAlways == Spec => []RangesSorted
<1>1. Init => RangesSorted
  <2>1. Sorted(<<>>)
    BY DEF Sorted
  <2> QED
    BY <2>1, Idle DEF Init, RangesSorted
<1>2. TypeOK /\ RangesSorted /\ [Next]_vars => RangesSorted'
  <2> SUFFICES ASSUME TypeOK, RangesSorted, [Next]_vars, NEW f \in Files
               PROVE  Sorted(file'[f].ranges)
    BY DEF RangesSorted, Sorted
  <2>1. Sorted(file[f].ranges)
    BY DEF RangesSorted
  <2>2. CASE Die
    <3>1. file'[f] = NoFileRow \/ file'[f] = file[f]
      BY <2>2 DEF Die
    <3>2. Sorted(<<>>)
      BY DEF Sorted
    <3> QED
      BY <2>1, <3>1, <3>2, Idle
  <2>3. ASSUME NEW w \in Writers, CommitBlob(w)
        PROVE  Sorted(file'[f].ranges)
    <3>1. CASE f = wr[w].file
      BY <2>1, <2>3, <3>1, CommitSteps, InsertSorts
    <3>2. CASE f # wr[w].file
      BY <2>1, <2>3, <3>2, CommitSteps
    <3> QED
      BY <3>1, <3>2
  <2>4. ASSUME file'[f].ranges = file[f].ranges
        PROVE  Sorted(file'[f].ranges)
    BY <2>1, <2>4
  <2> QED
    BY <2>2, <2>3, <2>4, FileSteps
<1> QED
  BY <1>1, <1>2, TypesKept, PTL DEF Spec

-----------------------------------------------------------------------------
In(ranges, x) == \E i \in DOMAIN ranges : ranges[i] = x

LEMMA InsertAdds ==
  ASSUME NEW ranges \in Seq(Ranges), NEW range \in Ranges, NEW n \in 0..Len(ranges), NEW x
  PROVE  In(Insert(ranges, n, range), x) <=> x = range \/ In(ranges, x)
<1> DEFINE new == Insert(ranges, n, range)
<1>1. new \in Seq(Ranges) /\ Len(new) = Len(ranges) + 1
  BY InsertElements
<1>2. DOMAIN new = 1..(Len(ranges) + 1) /\ DOMAIN ranges = 1..Len(ranges) /\ Len(ranges) \in Nat
  BY <1>1
<1>3. /\ \A i \in 1..n : new[i] = ranges[i]
      /\ new[n + 1] = range
      /\ \A i \in (n + 2)..(Len(ranges) + 1) : new[i] = ranges[i - 1]
  BY InsertElements
<1> HIDE DEF new
<1>4. \A i \in 1..(Len(ranges) + 1) :
         \/ i \in 1..n /\ i \in 1..Len(ranges)
         \/ i = n + 1
         \/ i \in (n + 2)..(Len(ranges) + 1) /\ i - 1 \in 1..Len(ranges)
  BY <1>2
<1>5. ASSUME In(new, x)
      PROVE  x = range \/ In(ranges, x)
  BY <1>2, <1>3, <1>4, <1>5 DEF In
<1>6. ASSUME x = range
      PROVE  In(new, x)
  <2>1. n + 1 \in DOMAIN new
    BY <1>2
  <2> QED
    BY <1>3, <1>6, <2>1 DEF In
<1>7. ASSUME In(ranges, x)
      PROVE  In(new, x)
  <2>1. PICK i \in 1..Len(ranges) : ranges[i] = x
    BY <1>2, <1>7 DEF In
  <2>2. CASE i <= n
    <3>1. i \in 1..n /\ i \in DOMAIN new
      BY <1>2, <2>2
    <3> QED
      BY <1>3, <2>1, <3>1 DEF In
  <2>3. CASE i > n
    <3>1. i + 1 \in (n + 2)..(Len(ranges) + 1) /\ i + 1 \in DOMAIN new /\ (i + 1) - 1 = i
      BY <1>2, <2>3
    <3> QED
      BY <1>3, <2>1, <3>1 DEF In
  <2> QED
    BY <2>2, <2>3
<1> QED
  BY <1>5, <1>6, <1>7 DEF new

Seg(f, range, state) == [file |-> f, range |-> range, state |-> state]

(* SegmentsMatchRanges, said without indices. *)
Matches(f) ==
    /\ \A x : In(file[f].ranges, x) => Seg(f, x, "ready") \in segs
    /\ file[f].state # "absent" =>
         \A s \in segs : s.file = f /\ s.state = "ready" => In(file[f].ranges, s.range)

LEMMA MatchesIs == SegmentsMatchRanges <=> \A f \in Files : Matches(f)
  BY DEF SegmentsMatchRanges, Matches, SegmentsOf, In, Seg

LEMMA MatchesAfter == SegmentsMatchRanges' <=> \A f \in Files : Matches(f)'
  BY DEF SegmentsMatchRanges, Matches, SegmentsOf, In, Seg

LEMMA SegSteps ==
  ASSUME TypeOK, [Next]_vars
  PROVE  \/ UNCHANGED segs
         \/ \E w \in Writers, f \in Files, range \in Ranges : CreateBlobSeg(w, f, range)
         \/ \E w \in Writers : CommitBlob(w)
<1>1. ASSUME NEW w \in Writers, WriterStep(w)
      PROVE  \/ UNCHANGED segs
             \/ \E f \in Files, range \in Ranges : CreateBlobSeg(w, f, range)
             \/ CommitBlob(w)
  BY <1>1 DEF WriterStep, PutData, PutDataFails, CommitBlobCollides, CommitBlobFatal, Die
<1>2. ASSUME NEW r \in Readers, ReaderStep(r)
      PROVE  UNCHANGED segs
  BY <1>2 DEF ReaderStep, ListBlobSegs, ReadPiece, ReadPiecePanics, TestErr, Return, Die
<1> QED
  BY <1>1, <1>2 DEF Next, Kill, Die, EvictBlob, CreateFile, CommitFile, vars

LEMMA MatchStep ==
  ASSUME TypeOK, SegmentsMatchRanges, [Next]_vars
  PROVE  SegmentsMatchRanges'
<1> SUFFICES ASSUME NEW f \in Files
             PROVE  Matches(f)'
  BY MatchesAfter
<1>1. Matches(f)
  BY MatchesIs
<1>2. ASSUME NEW w \in Writers, CommitBlob(w)
      PROVE  Matches(f)'
  <2> DEFINE range == wr[w].range
             ready == Seg(wr[w].file, range, "ready")
             pending == Seg(wr[w].file, range, "pending")
  <2>1. segs' = (segs \ {pending}) \cup {ready}
    BY <1>2 DEF CommitBlob, Seg
  <2>2. ready.file = wr[w].file /\ ready.range = range /\ ready.state = "ready"
    BY DEF Seg
  <2>3. \A x : Seg(f, x, "ready") # pending
    BY DEF Seg
  <2>4. CASE f = wr[w].file
    <3>1. \A x : In(file'[f].ranges, x) <=> x = range \/ In(file[f].ranges, x)
      <4>1. PICK n \in Slots(file[f].ranges, range) :
              file'[f].ranges = Insert(file[f].ranges, n, range)
        BY <1>2, <2>4, CommitSteps
      <4>2. n \in 0..Len(file[f].ranges) /\ file[f].ranges \in Seq(Ranges) /\ range \in Ranges
        BY <1>2, <2>4, CommitSteps DEF Slots
      <4> QED
        BY <4>1, <4>2, InsertAdds
    <3>2. file'[f].state = file[f].state /\ file[f].state # "absent"
      BY <1>2, <2>4, CommitSteps
    <3>3. \A x : In(file'[f].ranges, x) => Seg(f, x, "ready") \in segs'
      BY <1>1, <2>1, <2>3, <2>4, <3>1 DEF Matches
    <3>4. \A s \in segs' : s.file = f /\ s.state = "ready" => In(file'[f].ranges, s.range)
      BY <1>1, <2>1, <2>2, <3>1, <3>2 DEF Matches
    <3> QED
      BY <3>3, <3>4 DEF Matches, In
  <2>5. CASE f # wr[w].file
    <3>1. file'[f] = file[f]
      BY <1>2, <2>5, CommitSteps
    <3>2. \A x : In(file[f].ranges, x) => Seg(f, x, "ready") \in segs'
      BY <1>1, <2>1, <2>3 DEF Matches
    <3>3. file[f].state # "absent" =>
            \A s \in segs' : s.file = f /\ s.state = "ready" => In(file[f].ranges, s.range)
      BY <1>1, <2>1, <2>2, <2>5 DEF Matches
    <3> QED
      BY <3>1, <3>2, <3>3 DEF Matches, In
  <2> QED
    BY <2>4, <2>5
<1>3. ASSUME NEW w \in Writers, NEW g \in Files, NEW range \in Ranges, CreateBlobSeg(w, g, range)
      PROVE  Matches(f)'
  <2>1. segs' = segs \cup {Seg(g, range, "pending")} /\ file' = file
    BY <1>3 DEF CreateBlobSeg, Seg
  <2>2. Seg(g, range, "pending").state = "pending"
    BY DEF Seg
  <2> QED
    BY <1>1, <2>1, <2>2 DEF Matches, In
<1>4. CASE UNCHANGED segs /\ Die
  <2>1. CASE file'[f] = file[f]
    BY <1>1, <1>4, <2>1 DEF Matches, In
  <2>2. CASE file'[f] = NoFileRow
    BY <1>4, <2>2, Idle DEF Matches, In
  <2> QED
    BY <1>4, <2>1, <2>2 DEF Die
<1>5. ASSUME UNCHANGED segs, NEW g \in Files, CreateFile(g) \/ CommitFile(g),
             \A h \in Files : file'[h].ranges = file[h].ranges
      PROVE  Matches(f)'
  <2>1. \A x : In(file'[f].ranges, x) => Seg(f, x, "ready") \in segs'
    BY <1>1, <1>5 DEF Matches
  <2>2. CASE file'[f].state # "absent" => file[f].state # "absent"
    BY <1>1, <1>5, <2>1, <2>2 DEF Matches, In
  <2>3. CASE file[f].state = "absent" /\ file'[f].state # "absent"
    <3>1. g = f /\ CreateFile(f)
      BY <1>5, <2>3, Types DEF CreateFile, CommitFile
    <3>2. \A s \in segs' : s.file # f
      BY <1>5, <3>1 DEF CreateFile, SegmentsOf
    <3> QED
      BY <2>1, <3>2 DEF Matches, In
  <2> QED
    BY <2>2, <2>3
<1>6. CASE UNCHANGED <<segs, file>>
  BY <1>1, <1>6 DEF Matches, In
<1>7. Die => UNCHANGED segs
  BY DEF Die
<1>8. ASSUME NEW g \in Files, CreateFile(g) \/ CommitFile(g)
      PROVE  UNCHANGED segs
  BY <1>8 DEF CreateFile, CommitFile
<1> QED
  BY <1>2, <1>3, <1>4, <1>5, <1>6, <1>7, <1>8, FileSteps, SegSteps

(* The segments table and the ranges in the files' rows agree, although they
   are written by different statements and only one of them survives a start:
   each range is a READY segment, each READY segment of a file is a range. *)
THEOREM TablesAgree == Spec => []SegmentsMatchRanges
<1>1. Init => SegmentsMatchRanges
  BY Idle DEF Init, SegmentsMatchRanges, SegmentsOf
<1> QED
  BY <1>1, MatchStep, TypesKept, PTL DEF Spec

-----------------------------------------------------------------------------
(* What a read under way, none of whose pieces has failed, still has to copy
   is in the pieces it has not read or not tested; err is nil throughout. *)
StillComes(q) ==
    q.got \cup (UNION {Piece(q, s) : s \in q.todo}) \cup (UNION {Piece(q, p[1]) : p \in q.waiting})

OnCourse(q) ==
    q.pc = "read" /\ ~q.failed =>
        /\ ~q.err /\ ~q.tmpErr
        /\ \A p \in q.waiting : p[2]
        /\ q.want \subseteq StillComes(q)

Courses == \A r \in Readers : OnCourse(rd[r])

(* Piece depends on the window of a read only. *)
LEMMA SamePieces ==
  ASSUME NEW q, NEW p, q.start = p.start, q.end = p.end
  PROVE  \A s : Piece(q, s) = Piece(p, s)
  BY DEF Piece, PieceStart, PieceEnd

(* The window holds a segment for every committed byte that is asked for. *)
LEMMA WindowCovers ==
  ASSUME TypeOK, SegmentsMatchRanges, NEW f \in Files,
         NEW start \in Positions, NEW end \in Positions,
         NEW q \in ReaderStates, q.start = start, q.end = end
  PROVE  Bytes(start, end) \cap Committed(f) \subseteq (UNION {Piece(q, s) : s \in Window(f, start, end)})
<1> SUFFICES ASSUME NEW b \in Bytes(start, end), b \in Committed(f)
             PROVE  \E s \in Window(f, start, end) : b \in Piece(q, s)
  OBVIOUS
<1>1. PICK i \in DOMAIN file[f].ranges : b \in Bytes(file[f].ranges[i].start, file[f].ranges[i].end)
  BY DEF Committed
<1> DEFINE s == [file |-> f, range |-> file[f].ranges[i], state |-> "ready"]
<1>2. s \in segs /\ s \in Segments
  BY <1>1, Types DEF SegmentsMatchRanges
<1>3. s.file = f /\ s.range = file[f].ranges[i] /\ s.range \in Ranges
  BY <1>2 DEF Segments
<1> HIDE DEF s
<1>4. /\ start \in Int /\ end \in Int /\ b \in Int
      /\ start <= b /\ b < end /\ s.range.start <= b /\ b < s.range.end
      /\ s.range.start \in Int /\ s.range.end \in Int
  BY <1>1, <1>3, RangeFields DEF Bytes, Positions
<1>5. s \in Window(f, start, end)
  BY <1>2, <1>3, <1>4 DEF Window, SegmentsOf
<1>6. b \in Piece(q, s)
  BY <1>1, <1>2, <1>3, PieceBytes
<1> QED
  BY <1>5, <1>6

LEMMA CourseStep ==
  ASSUME TypeOK, SegmentsMatchRanges, Courses, NEW r \in Readers, ReaderStep(r)
  PROVE  Courses'
<1>1. rd \in [Readers -> ReaderStates] /\ rd[r] \in ReaderStates
  BY Types
<1>2. ASSUME NEW q, OnCourse(q), rd' = [rd EXCEPT ![r] = q]
      PROVE  Courses'
  <2>1. \A p \in Readers : rd'[p] = (IF p = r THEN q ELSE rd[p])
    BY <1>1, <1>2
  <2>2. SUFFICES ASSUME NEW p \in Readers
                 PROVE  OnCourse(rd'[p])
    BY DEF Courses, OnCourse, StillComes, Piece, PieceStart, PieceEnd
  <2> QED
    BY <1>2, <2>1 DEF Courses
<1>3. ASSUME NEW f \in Files, NEW start \in Positions, NEW end \in Positions,
             ListBlobSegs(r, f, start, end)
      PROVE  Courses'
  <2> DEFINE window == Window(f, start, end)
             want == Bytes(start, end) \cap Committed(f)
             q == [IdleReader EXCEPT !.pc = "read", !.file = f, !.start = start, !.end = end,
                                     !.todo = window, !.want = want]
  <2>1. rd' = [rd EXCEPT ![r] = q]
    BY <1>3 DEF ListBlobSegs
  <2>2. window \in SUBSET Segments /\ want \in SUBSET Positions
    BY Types DEF Window, SegmentsOf, Bytes, Positions
  <2> HIDE DEF window, want
  <2>3. /\ q \in ReaderStates
        /\ q.start = start /\ q.end = end /\ q.todo = window /\ q.want = want
        /\ q.waiting = {} /\ ~q.err /\ ~q.tmpErr
    BY <2>2, Idle DEF ReaderStates, IdleReader
  <2> HIDE DEF q
  <2>4. q.want \subseteq (UNION {Piece(q, s) : s \in window})
    BY <2>3, WindowCovers DEF window, want
  <2>5. OnCourse(q)
    BY <2>3, <2>4 DEF OnCourse, StillComes
  <2> QED
    BY <1>2, <2>1, <2>5
<1>4. ASSUME NEW s \in rd[r].todo, ReadPiece(r, s)
      PROVE  Courses'
  <2> DEFINE ok == PieceFound(rd[r], s)
             left == rd[r].todo \ {s}
             waiting == rd[r].waiting \cup {<<s, ok>>}
             err == ~ok
             failed == rd[r].failed \/ ~ok
             q == [rd[r] EXCEPT !.todo = left, !.waiting = waiting, !.err = err, !.failed = failed]
  <2>1. rd' = [rd EXCEPT ![r] = q]
    BY <1>1, <1>4 DEF ReadPiece
  <2>2. rd[r].pc = q.pc /\ q.todo = left /\ q.waiting = waiting /\ q.err = err /\ q.failed = failed
        /\ q.start = rd[r].start /\ q.end = rd[r].end /\ q.tmpErr = rd[r].tmpErr
        /\ q.want = rd[r].want /\ q.got = rd[r].got
    BY <1>1 DEF ReaderStates
  <2> HIDE DEF q
  <2>3. SUFFICES ASSUME q.pc = "read", ~q.failed
                 PROVE  OnCourse(q)
    BY <1>2, <2>1 DEF OnCourse
  <2>4. ok /\ ~err /\ ~rd[r].failed
    BY <2>2, <2>3
  <2>5. OnCourse(rd[r])
    BY DEF Courses
  <2>6. /\ ~rd[r].tmpErr /\ \A p \in rd[r].waiting : p[2]
        /\ rd[r].want \subseteq StillComes(rd[r])
    BY <2>2, <2>3, <2>4, <2>5 DEF OnCourse
  <2>7. \A p \in waiting : p[2]
    <3>1. ok = TRUE
      BY <2>4 DEF PieceFound
    <3>2. <<s, TRUE>>[2] = TRUE
      OBVIOUS
    <3>3. waiting = rd[r].waiting \cup {<<s, TRUE>>}
      BY <3>1
    <3> HIDE DEF waiting, ok
    <3> QED
      BY <2>6, <3>2, <3>3
  <2>8. StillComes(rd[r]) \subseteq StillComes(q)
    <3>1. \A t : Piece(q, t) = Piece(rd[r], t)
      BY <2>2, SamePieces
    <3>2. rd[r].todo \subseteq left \cup {s} /\ <<s, ok>>[1] = s /\ <<s, ok>> \in waiting
          /\ rd[r].waiting \subseteq waiting
      OBVIOUS
    <3> HIDE DEF left, waiting, ok
    <3>3. Piece(rd[r], s) \subseteq (UNION {Piece(q, x[1]) : x \in q.waiting})
      BY <2>2, <3>1, <3>2
    <3>4. (UNION {Piece(rd[r], x) : x \in rd[r].todo}) \subseteq (UNION {Piece(q, x) : x \in q.todo}) \cup Piece(rd[r], s)
      BY <2>2, <3>1, <3>2
    <3>5. (UNION {Piece(rd[r], x[1]) : x \in rd[r].waiting}) \subseteq (UNION {Piece(q, x[1]) : x \in q.waiting})
      <4>1. \A x \in rd[r].waiting : x \in q.waiting /\ Piece(rd[r], x[1]) = Piece(q, x[1])
        BY <2>2, <3>1, <3>2
      <4> QED
        BY <4>1
    <3> QED
      BY <2>2, <3>3, <3>4, <3>5 DEF StillComes
  <2> QED
    BY <2>2, <2>4, <2>6, <2>7, <2>8 DEF OnCourse
<1>5. ASSUME NEW p \in rd[r].waiting, TestErr(r, p[1], p[2])
      PROVE  Courses'
  <2> DEFINE s == p[1]
             left == rd[r].waiting \ {<<s, p[2]>>}
  <2>1. p = <<s, p[2]>> /\ p[2] \in BOOLEAN /\ rd[r].err \in BOOLEAN
    BY <1>1 DEF ReaderStates
  <2>2. PICK tested \in {rd[r].err, ~p[2]}, assigned \in {rd[r].err, ~p[2]} :
          rd' = [rd EXCEPT ![r].waiting = @ \ {<<s, p[2]>>},
                           ![r].tmpErr = IF tested THEN assigned ELSE @,
                           ![r].got = IF tested \/ ~p[2] THEN @ ELSE @ \cup Piece(rd[r], s)]
    BY <1>5 DEF TestErr
  <2> DEFINE tmpErr == IF tested THEN assigned ELSE rd[r].tmpErr
             got == IF tested \/ ~p[2] THEN rd[r].got ELSE rd[r].got \cup Piece(rd[r], s)
             q == [rd[r] EXCEPT !.waiting = left, !.tmpErr = tmpErr, !.got = got]
  <2>3. rd' = [rd EXCEPT ![r] = q]
    BY <1>1, <2>2
  <2> HIDE DEF left, tmpErr, got
  <2>4. rd[r].pc = q.pc /\ q.todo = rd[r].todo /\ q.waiting = left /\ q.err = rd[r].err
        /\ q.failed = rd[r].failed
        /\ q.start = rd[r].start /\ q.end = rd[r].end /\ q.tmpErr = tmpErr
        /\ q.want = rd[r].want /\ q.got = got
    BY <1>1 DEF ReaderStates
  <2> HIDE DEF q
  <2>5. SUFFICES ASSUME q.pc = "read", ~q.failed
                 PROVE  OnCourse(q)
    BY <1>2, <2>3 DEF OnCourse
  <2>6. /\ ~rd[r].err /\ ~rd[r].tmpErr /\ \A x \in rd[r].waiting : x[2]
        /\ rd[r].want \subseteq StillComes(rd[r])
    <3>1. OnCourse(rd[r])
      BY DEF Courses
    <3> QED
      BY <2>4, <2>5, <3>1 DEF OnCourse
  <2>7. p[2]
    BY <2>6
  <2>8. ~tested /\ ~tmpErr /\ got = rd[r].got \cup Piece(rd[r], s)
    BY <2>1, <2>2, <2>6, <2>7 DEF tmpErr, got
  <2>9. StillComes(rd[r]) \subseteq StillComes(q)
    <3>1. \A t : Piece(q, t) = Piece(rd[r], t)
      BY <2>4, SamePieces
    <3>2. rd[r].waiting \subseteq left \cup {p}
      BY <2>1 DEF left
    <3>3. (UNION {Piece(rd[r], x) : x \in rd[r].todo}) = (UNION {Piece(q, x) : x \in q.todo})
      BY <2>4, <3>1
    <3> HIDE DEF s
    <3>4. (UNION {Piece(rd[r], x[1]) : x \in rd[r].waiting})
            \subseteq (UNION {Piece(q, x[1]) : x \in q.waiting}) \cup Piece(rd[r], s)
      <4>1. \A x \in rd[r].waiting : x \in q.waiting \/ x[1] = s
        BY <2>4, <3>2 DEF s
      <4>2. \A x \in rd[r].waiting : Piece(rd[r], x[1]) = Piece(q, x[1])
        BY <3>1
      <4> QED
        BY <4>1, <4>2
    <3> QED
      BY <2>4, <2>8, <3>3, <3>4 DEF StillComes
  <2>10. \A x \in left : x[2]
    BY <2>6 DEF left
  <2> QED
    BY <2>4, <2>6, <2>8, <2>9, <2>10 DEF OnCourse
<1>6. OnCourse(IdleReader)
  BY Idle DEF OnCourse
<1>7. ASSUME Die
      PROVE  Courses'
  <2>1. \A p \in Readers : rd'[p] = IdleReader
    BY <1>7 DEF Die
  <2> QED
    BY <1>6, <2>1 DEF Courses, OnCourse, StillComes, Piece, PieceStart, PieceEnd
<1>8. CASE Return(r)
  BY <1>2, <1>6, <1>8 DEF Return
<1> QED
  BY <1>3, <1>4, <1>5, <1>7, <1>8 DEF ReaderStep, ReadPiecePanics

(* A read without a failing piece is whole, whatever the writers do and
   whatever its goroutines see of the variable they share. *)
THEOREM WholeReads == Spec => []ReadsAreWhole
<1>1. Init => Courses
  BY Idle DEF Init, Courses, OnCourse
<1>2. TypeOK /\ SegmentsMatchRanges /\ Courses /\ [Next]_vars => Courses'
  <2> SUFFICES ASSUME TypeOK, SegmentsMatchRanges, Courses, [Next]_vars
               PROVE  Courses'
    OBVIOUS
  <2>1. CASE UNCHANGED rd
    BY <2>1 DEF Courses, OnCourse, StillComes, Piece, PieceStart, PieceEnd
  <2>2. ASSUME Die
        PROVE  Courses'
    <3>1. \A p \in Readers : rd'[p] = IdleReader
      BY <2>2 DEF Die
    <3> QED
      BY <3>1, Idle DEF Courses, OnCourse, StillComes, Piece, PieceStart, PieceEnd
  <2>3. ASSUME NEW w \in Writers, WriterStep(w)
        PROVE  Die \/ UNCHANGED rd
    BY <2>3 DEF WriterStep, CreateBlobSeg, PutData, PutDataFails, CommitBlob, CommitBlobCollides,
               CommitBlobFatal
  <2>4. ASSUME NEW f \in Files, CreateFile(f) \/ CommitFile(f)
        PROVE  UNCHANGED rd
    BY <2>4 DEF CreateFile, CommitFile
  <2>5. ASSUME NEW b \in Blobs, EvictBlob(b)
        PROVE  UNCHANGED rd
    BY <2>5 DEF EvictBlob
  <2> QED
    BY <2>1, <2>2, <2>3, <2>4, <2>5, CourseStep DEF Next, Kill, vars
<1>3. Courses => ReadsAreWhole
  <2> SUFFICES ASSUME Courses, NEW r \in Readers, Joined(r), ~rd[r].failed
               PROVE  ~rd[r].tmpErr /\ rd[r].want \subseteq rd[r].got
    BY DEF ReadsAreWhole
  <2>1. OnCourse(rd[r]) /\ rd[r].pc = "read" /\ rd[r].todo = {} /\ rd[r].waiting = {}
    BY DEF Courses, Joined
  <2> QED
    BY <2>1 DEF OnCourse, StillComes
<1> QED
  BY <1>1, <1>2, <1>3, TypesKept, TablesAgree, PTL DEF Spec

-----------------------------------------------------------------------------
(* A list in which InsertRangeCodeList finds a place for any chunk. *)
Open(ranges) ==
    \A p \in Positions : \E n \in 0..Len(ranges) :
        /\ n > 0 => ranges[n].end <= p
        /\ \A m \in (n + 1)..Len(ranges) : ranges[m].end > p

(* Inserting keeps it so. *)
LEMMA InsertOpens ==
  ASSUME NEW ranges \in Seq(Ranges), NEW range \in Ranges, NEW n \in 0..Len(ranges), Open(ranges)
  PROVE  Open(Insert(ranges, n, range))
<1> DEFINE new == Insert(ranges, n, range)
<1>1. /\ new \in Seq(Ranges) /\ Len(new) = Len(ranges) + 1
      /\ \A i \in 1..n : new[i] = ranges[i]
      /\ new[n + 1] = range
      /\ \A i \in (n + 2)..(Len(ranges) + 1) : new[i] = ranges[i - 1]
  BY InsertElements, ZenonT(40)
<1> HIDE DEF new
<1>2. Len(ranges) \in Nat /\ n \in Nat /\ n <= Len(ranges)
  OBVIOUS
<1> SUFFICES ASSUME NEW p \in Positions
             PROVE  \E k \in 0..Len(new) : /\ k > 0 => new[k].end <= p
                                           /\ \A m \in (k + 1)..Len(new) : new[m].end > p
  BY DEF Open, new
<1>3. PICK k \in 0..Len(ranges) : /\ k > 0 => ranges[k].end <= p
                                  /\ \A m \in (k + 1)..Len(ranges) : ranges[m].end > p
  BY DEF Open
<1>4. p \in Int /\ range.end \in Int
  BY RangeFields DEF Positions
<1>5. CASE k > n
  <2>1. new[k + 1].end <= p
    BY <1>1, <1>2, <1>3, <1>5
  <2>2. \A m \in (k + 2)..Len(new) : new[m].end > p
    BY <1>1, <1>2, <1>3, <1>5
  <2>3. k + 1 \in 0..Len(new) /\ (k + 1) + 1 = k + 2
    BY <1>1, <1>2
  <2> QED
    BY <2>1, <2>2, <2>3
<1>6. CASE k <= n /\ range.end <= p
  <2>1. \A m \in (n + 2)..Len(new) : new[m].end > p
    BY <1>1, <1>2, <1>3, <1>6
  <2>2. n + 1 \in 0..Len(new) /\ (n + 1) + 1 = n + 2
    BY <1>1, <1>2
  <2>3. new[n + 1].end <= p
    BY <1>1, <1>6
  <2> QED
    BY <2>1, <2>2, <2>3
<1>7. CASE k <= n /\ range.end > p
  <2>1. k > 0 => new[k].end <= p
    BY <1>1, <1>2, <1>3, <1>7
  <2>2. ASSUME NEW m \in (k + 1)..Len(new)
        PROVE  new[m].end > p
    <3>1. m \in 1..n \/ m = n + 1 \/ m \in (n + 2)..(Len(ranges) + 1)
      BY <1>1, <1>2
    <3>2. CASE m \in 1..n
      <4>1. m \in (k + 1)..Len(ranges) /\ new[m] = ranges[m]
        BY <1>1, <1>2, <3>2
      <4> QED
        BY <1>3, <4>1
    <3>3. CASE m \in (n + 2)..(Len(ranges) + 1)
      <4>1. m - 1 \in (k + 1)..Len(ranges) /\ new[m] = ranges[m - 1]
        BY <1>1, <1>2, <1>7, <3>3
      <4> QED
        BY <1>3, <4>1
    <3> QED
      BY <1>1, <1>7, <3>1, <3>2, <3>3
  <2>3. k \in 0..Len(new)
    BY <1>1, <1>2
  <2> QED
    BY <2>1, <2>2, <2>3
<1> QED
  BY <1>2, <1>4, <1>5, <1>6, <1>7

(* A list without ranges that do not meet their neighbours has no hole. *)
LEMMA CoverageIsGapless ==
  ASSUME NEW ranges \in Seq(Ranges), Sorted(ranges), Open(ranges), IsRangeFullCoverage(ranges),
         NEW i \in DOMAIN ranges, NEW j \in DOMAIN ranges, NEW p \in Positions,
         ranges[i].start <= p, p < ranges[j].end
  PROVE  \E k \in DOMAIN ranges : p \in Bytes(ranges[k].start, ranges[k].end)
<1>1. Len(ranges) \in Nat /\ DOMAIN ranges = 1..Len(ranges) /\ p \in Int
  BY DEF Positions
<1>2. \A k \in 1..Len(ranges) : /\ ranges[k] \in Ranges
                                /\ ranges[k].start \in Int /\ ranges[k].end \in Int
                                /\ ranges[k].start < ranges[k].end
  BY <1>1, RangeFields
<1>3. PICK n \in 0..Len(ranges) : /\ n > 0 => ranges[n].end <= p
                                  /\ \A m \in (n + 1)..Len(ranges) : ranges[m].end > p
  BY DEF Open
<1>4. j > n
  <2>1. SUFFICES ASSUME j <= n
                 PROVE  FALSE
    BY <1>1
  <2>2. n \in 1..Len(ranges) /\ ranges[n].end <= p
    BY <1>1, <1>3, <2>1
  <2>3. j < n => ranges[j].end <= ranges[n].start
    BY <1>1, <2>2 DEF Sorted
  <2> QED
    BY <1>1, <1>2, <2>1, <2>2, <2>3
<1>5. n + 1 \in 1..Len(ranges) /\ ranges[n + 1].end > p
  BY <1>1, <1>3, <1>4
<1>6. ranges[n + 1].start <= p
  <2>1. CASE n > 0
    <3>1. ranges[n].end = ranges[n + 1].start
      BY <1>1, <1>5, <2>1 DEF IsRangeFullCoverage
    <3> QED
      BY <1>3, <2>1, <3>1
  <2>2. CASE n = 0
    <3>1. i > 1 => ranges[1].end <= ranges[i].start
      BY <1>1, <1>5, <2>2 DEF Sorted
    <3> QED
      BY <1>1, <1>2, <1>5, <2>2, <3>1
  <2> QED
    BY <2>1, <2>2
<1>7. p \in Bytes(ranges[n + 1].start, ranges[n + 1].end)
  BY <1>1, <1>2, <1>5, <1>6 DEF Bytes
<1> QED
  BY <1>1, <1>5, <1>7

-----------------------------------------------------------------------------
(* The rest of the inductive invariant: every file's list has a place for any
   chunk, an absent row has no list, a blob is in one segment, and the segment
   of a writer under way is PENDING and its own. *)
Rows ==
    \A f \in Files : /\ Open(file[f].ranges)
                     /\ file[f].state = "absent" => file[f].ranges = <<>>

OneSegment == \A s, t \in segs : s.range.blob = t.range.blob => s = t

OwnSegments ==
    /\ \A w \in Writers : wr[w].pc # "idle" => Seg(wr[w].file, wr[w].range, "pending") \in segs
    /\ \A v, w \in Writers :
         wr[v].pc # "idle" /\ wr[w].pc # "idle" /\ wr[v].range.blob = wr[w].range.blob => v = w

LEMMA EmptyOpen == Open(<<>>)
<1>1. 0 \in 0..Len(<<>>) /\ (0 + 1)..Len(<<>>) = {}
  OBVIOUS
<1> QED
  BY <1>1 DEF Open

LEMMA RowsStay ==
  ASSUME TypeOK, Rows, [Next]_vars
  PROVE  Rows'
<1> SUFFICES ASSUME NEW f \in Files
             PROVE  Open(file'[f].ranges) /\ (file'[f].state = "absent" => file'[f].ranges = <<>>)
  BY DEF Rows, Open
<1>1. Open(file[f].ranges) /\ (file[f].state = "absent" => file[f].ranges = <<>>)
  BY DEF Rows
<1>2. CASE Die
  <2>1. file'[f] = file[f] \/ file'[f] = NoFileRow
    BY <1>2 DEF Die
  <2> QED
    BY <1>1, <2>1, Idle, EmptyOpen
<1>3. ASSUME NEW w \in Writers, CommitBlob(w)
      PROVE  Open(file'[f].ranges) /\ (file'[f].state = "absent" => file'[f].ranges = <<>>)
  <2>1. CASE f = wr[w].file
    <3>1. PICK n \in Slots(file[f].ranges, wr[w].range) :
            file'[f].ranges = Insert(file[f].ranges, n, wr[w].range)
      BY <1>3, <2>1, CommitSteps
    <3>2. n \in 0..Len(file[f].ranges)
      BY <3>1 DEF Slots
    <3>3. /\ file[f].ranges \in Seq(Ranges) /\ wr[w].range \in Ranges
          /\ file'[f].state = file[f].state /\ file[f].state # "absent"
      BY <1>3, <2>1, CommitSteps
    <3>4. Open(Insert(file[f].ranges, n, wr[w].range))
      BY <1>1, <3>2, <3>3, InsertOpens
    <3> QED
      BY <3>1, <3>3, <3>4
  <2>2. CASE f # wr[w].file
    BY <1>1, <1>3, <2>2, CommitSteps
  <2> QED
    BY <2>1, <2>2
<1>4. ASSUME NEW g \in Files, CreateFile(g) \/ CommitFile(g),
             \A h \in Files : file'[h].ranges = file[h].ranges
      PROVE  Open(file'[f].ranges) /\ (file'[f].state = "absent" => file'[f].ranges = <<>>)
  <2>1. file'[f].state = "absent" => file[f].state = "absent"
    <3>1. file \in [Files -> FileRows] /\ file[f] \in FileRows
      BY Types
    <3>2. PICK st \in {"pending", "ready"} : file' = [file EXCEPT ![g].state = st]
      BY <1>4 DEF CreateFile, CommitFile
    <3> QED
      BY <3>1, <3>2 DEF FileRows
  <2> QED
    BY <1>1, <1>4, <2>1
<1>5. CASE UNCHANGED file
  BY <1>1, <1>5
<1> QED
  BY <1>2, <1>3, <1>4, <1>5, FileSteps

LEMMA SegmentsStay ==
  ASSUME TypeOK, OneSegment, OwnSegments, [Next]_vars
  PROVE  OneSegment' /\ OwnSegments'
<1>0. /\ wr \in [Writers -> WriterStates] /\ segs \in SUBSET Segments
      /\ \A w \in Writers : wr[w].pc # "idle" => wr[w].file \in Files /\ wr[w].range \in Ranges
  BY Types
<1>1. CASE UNCHANGED <<segs, wr>>
  BY <1>1 DEF OneSegment, OwnSegments
<1>2. CASE Die
  <2>1. segs' = segs /\ \A w \in Writers : wr'[w].pc = "idle"
    BY <1>2, Idle DEF Die
  <2> QED
    BY <2>1 DEF OneSegment, OwnSegments
<1>3. ASSUME NEW w \in Writers, NEW f \in Files, NEW range \in Ranges, CreateBlobSeg(w, f, range)
      PROVE  OneSegment' /\ OwnSegments'
  <2> DEFINE new == Seg(f, range, "pending")
             x == [pc |-> "put", file |-> f, range |-> range]
  <2>1. segs' = segs \cup {new} /\ wr' = [wr EXCEPT ![w] = x]
        /\ \A s \in segs : s.range.blob # range.blob
    BY <1>3 DEF CreateBlobSeg, Seg
  <2>2. new.range = range /\ x.file = f /\ x.range = range
    BY DEF Seg
  <2>3. \A v \in Writers : wr'[v] = IF v = w THEN x ELSE wr[v]
    BY <1>0, <2>1
  <2>4. OneSegment'
    BY <2>1, <2>2 DEF OneSegment
  <2>5. \A v \in Writers : wr[v].pc # "idle" => wr[v].range.blob # range.blob
    <3>1. \A v \in Writers : Seg(wr[v].file, wr[v].range, "pending").range = wr[v].range
      BY DEF Seg
    <3> QED
      BY <2>1, <3>1 DEF OwnSegments
  <2>6. \A v \in Writers : wr'[v].pc # "idle" => Seg(wr'[v].file, wr'[v].range, "pending") \in segs'
    BY <2>1, <2>2, <2>3 DEF OwnSegments
  <2>7. \A v, u \in Writers :
          wr'[v].pc # "idle" /\ wr'[u].pc # "idle" /\ wr'[v].range.blob = wr'[u].range.blob => v = u
    BY <2>2, <2>3, <2>5 DEF OwnSegments
  <2> QED
    BY <2>4, <2>6, <2>7 DEF OwnSegments, Seg
<1>4. ASSUME NEW w \in Writers, wr' = [wr EXCEPT ![w].pc = "commit"] \/ wr' = [wr EXCEPT ![w] = IdleWriter],
             wr[w].pc # "idle", segs' = segs
      PROVE  OneSegment' /\ OwnSegments'
  <2>1. \A v \in Writers : wr'[v].pc # "idle" =>
          wr[v].pc # "idle" /\ wr'[v].file = wr[v].file /\ wr'[v].range = wr[v].range
    <3>1. [wr[w] EXCEPT !.pc = "commit"].file = wr[w].file /\ [wr[w] EXCEPT !.pc = "commit"].range = wr[w].range
      BY <1>0 DEF WriterStates
    <3>2. \A v \in Writers : v # w => wr'[v] = wr[v]
      BY <1>0, <1>4
    <3>3. wr'[w] = [wr[w] EXCEPT !.pc = "commit"] \/ wr'[w] = IdleWriter
      BY <1>0, <1>4
    <3> QED
      BY <1>4, <3>1, <3>2, <3>3, Idle
  <2> QED
    BY <1>4, <2>1 DEF OneSegment, OwnSegments, Seg
<1>5. ASSUME NEW w \in Writers, CommitBlob(w)
      PROVE  OneSegment' /\ OwnSegments'
  <2> DEFINE pending == Seg(wr[w].file, wr[w].range, "pending")
             ready == Seg(wr[w].file, wr[w].range, "ready")
  <2>1. segs' = (segs \ {pending}) \cup {ready} /\ wr' = [wr EXCEPT ![w] = IdleWriter]
        /\ wr[w].pc # "idle"
    BY <1>5 DEF CommitBlob, Seg
  <2>2. pending.range = wr[w].range /\ ready.range = wr[w].range
    BY DEF Seg
  <2>3. pending \in segs
    BY <2>1 DEF OwnSegments
  <2>4. OneSegment'
    BY <2>1, <2>2, <2>3 DEF OneSegment
  <2>5. \A v \in Writers : wr'[v].pc # "idle" => v # w /\ wr'[v] = wr[v]
    BY <1>0, <2>1, Idle
  <2>6. \A v \in Writers : wr'[v].pc # "idle" => Seg(wr[v].file, wr[v].range, "pending") \in segs'
    <3>1. SUFFICES ASSUME NEW v \in Writers, wr'[v].pc # "idle"
                   PROVE  Seg(wr[v].file, wr[v].range, "pending") # pending
      BY <2>1, <2>5 DEF OwnSegments
    <3>2. wr[v].range.blob # wr[w].range.blob
      BY <2>1, <2>5, <3>1 DEF OwnSegments
    <3>3. Seg(wr[v].file, wr[v].range, "pending").range = wr[v].range
      BY DEF Seg
    <3> QED
      BY <2>2, <3>2, <3>3
  <2> QED
    BY <2>4, <2>5, <2>6 DEF OwnSegments, Seg
<1>6. ASSUME NEW w \in Writers, WriterStep(w)
      PROVE  OneSegment' /\ OwnSegments'
  BY <1>2, <1>3, <1>4, <1>5, <1>6
     DEF WriterStep, PutData, PutDataFails, CommitBlobCollides, CommitBlobFatal
<1>7. ASSUME NEW r \in Readers, ReaderStep(r)
      PROVE  Die \/ UNCHANGED <<segs, wr>>
  BY <1>7 DEF ReaderStep, ListBlobSegs, ReadPiece, ReadPiecePanics, TestErr, Return
<1> QED
  BY <1>1, <1>2, <1>6, <1>7 DEF Next, Kill, EvictBlob, CreateFile, CommitFile, vars

-----------------------------------------------------------------------------
(* The refinement. *)

LEMMA ContentsAre ==
  ASSUME NEW f
  PROVE  \A x : x \in Contents(f) <=>
           \E i \in DOMAIN file[f].ranges :
              x \in Bytes(file[f].ranges[i].start, file[f].ranges[i].end) \X {file[f].ranges[i].blob}
  BY DEF Contents

LEMMA ContentsAfter ==
  ASSUME NEW f
  PROVE  \A x : x \in Contents(f)' <=>
           \E i \in DOMAIN file'[f].ranges :
              x \in Bytes(file'[f].ranges[i].start, file'[f].ranges[i].end) \X {file'[f].ranges[i].blob}
  BY DEF Contents, Bytes

WrittenNow == [f \in Files |-> Contents(f)]
SealedNow == {f \in Files : file[f].state = "ready"}

LEMMA SameContents ==
  ASSUME NEW f, file'[f].ranges = file[f].ranges
  PROVE  Contents(f)' = Contents(f)
  BY DEF Contents, Bytes

LEMMA DieCrashes ==
  ASSUME TypeOK, Rows, Die
  PROVE  Promise!Crash
<1>1. \A f \in Files : file'[f] = IF file[f].state = "pending" THEN NoFileRow ELSE file[f]
  BY DEF Die
<1>2. SealedNow' = SealedNow
  BY <1>1, Idle DEF SealedNow
<1>3. ASSUME NEW f \in Files
      PROVE  Contents(f)' = IF f \in SealedNow THEN Contents(f) ELSE {}
  <2>1. file[f].state \in {"absent", "pending", "ready"}
    BY Types DEF FileRows
  <2>2. CASE file[f].state = "ready"
    BY <1>1, <2>2, SameContents DEF SealedNow
  <2>3. CASE file[f].state # "ready"
    <3>1. file'[f].ranges = <<>>
      BY <1>1, <2>1, <2>3, Idle DEF Rows
    <3>2. DOMAIN file'[f].ranges = {}
      BY <3>1
    <3>3. \A x : x \notin Contents(f)'
      BY <3>2, ContentsAfter
    <3>4. f \notin SealedNow
      BY <2>3 DEF SealedNow
    <3> QED
      BY <3>3, <3>4
  <2> QED
    BY <2>2, <2>3
<1>4. WrittenNow' = [f \in Files |-> IF f \in SealedNow THEN WrittenNow[f] ELSE {}]
  BY <1>3 DEF WrittenNow
<1> QED
  BY <1>2, <1>4 DEF Promise!Crash, WrittenNow, SealedNow

LEMMA CommitWrites ==
  ASSUME TypeOK, SegmentsMatchRanges, OneSegment, OwnSegments, NEW w \in Writers, CommitBlob(w)
  PROVE  Promise!Next
<1>0. PICK f, range : f = wr[w].file /\ range = wr[w].range
  OBVIOUS
<1> DEFINE chunk == Bytes(range.start, range.end)
<1>1. /\ f \in Files /\ range \in Ranges /\ file[f].ranges \in Seq(Ranges)
      /\ ~IsRangeCollision(file[f].ranges, range)
      /\ file'[f].state = file[f].state
      /\ \A g \in Files \ {f} : file'[g] = file[g]
  BY <1>0, CommitSteps
<1>2. PICK n \in Slots(file[f].ranges, range) : file'[f].ranges = Insert(file[f].ranges, n, range)
  BY <1>0, CommitSteps
<1>3. \A x : In(file'[f].ranges, x) <=> x = range \/ In(file[f].ranges, x)
  <2>1. n \in 0..Len(file[f].ranges)
    BY <1>2 DEF Slots
  <2> QED
    BY <1>1, <1>2, <2>1, InsertAdds
<1>4. SealedNow' = SealedNow
  BY <1>1 DEF SealedNow
<1>5. Contents(f)' = Contents(f) \cup (chunk \X {range.blob})
  <2>1. \A x : x \in Contents(f) <=>
          \E r : In(file[f].ranges, r) /\ x \in Bytes(r.start, r.end) \X {r.blob}
    BY ContentsAre DEF In
  <2>2. \A x : x \in Contents(f)' <=>
          \E r : In(file'[f].ranges, r) /\ x \in Bytes(r.start, r.end) \X {r.blob}
    BY ContentsAfter DEF In
  <2>3. \A x : x \in Contents(f)' <=> x \in Contents(f) \/ x \in chunk \X {range.blob}
    BY <1>3, <2>1, <2>2
  <2> QED
    BY <2>3
<1>6. \A g \in Files \ {f} : Contents(g)' = Contents(g)
  BY <1>1, SameContents
<1>7. WrittenNow' = [WrittenNow EXCEPT ![f] = @ \cup (chunk \X {range.blob})]
  BY <1>1, <1>5, <1>6 DEF WrittenNow
<1>8. chunk \cap {x[1] : x \in Contents(f)} = {}
  <2>1. SUFFICES ASSUME NEW x, x \in Contents(f), x[1] \in chunk
                 PROVE  FALSE
    OBVIOUS
  <2>2. PICK i \in DOMAIN file[f].ranges :
          x \in Bytes(file[f].ranges[i].start, file[f].ranges[i].end) \X {file[f].ranges[i].blob}
    BY <2>1, ContentsAre
  <2>3. file[f].ranges[i] \in Ranges
    BY <1>1
  <2>4. x[1] \in Bytes(file[f].ranges[i].start, file[f].ranges[i].end)
    BY <2>2
  <2>5. file[f].ranges[i].start >= range.end \/ file[f].ranges[i].end <= range.start
    BY <1>1 DEF IsRangeCollision
  <2> QED
    BY <1>1, <2>1, <2>3, <2>4, <2>5, RangeFields DEF Bytes
<1>9. \A g \in Files : \A x \in Contents(g) : x[2] # range.blob
  <2>1. SUFFICES ASSUME NEW g \in Files, NEW x \in Contents(g), x[2] = range.blob
                 PROVE  FALSE
    OBVIOUS
  <2>2. PICK i \in DOMAIN file[g].ranges :
          x \in Bytes(file[g].ranges[i].start, file[g].ranges[i].end) \X {file[g].ranges[i].blob}
    BY ContentsAre
  <2>3. Seg(g, file[g].ranges[i], "ready") \in segs
    BY DEF SegmentsMatchRanges, Seg
  <2>4. Seg(f, range, "pending") \in segs
    BY <1>0 DEF OwnSegments, CommitBlob
  <2>5. /\ Seg(g, file[g].ranges[i], "ready").range = file[g].ranges[i]
        /\ Seg(g, file[g].ranges[i], "ready").state = "ready"
        /\ Seg(f, range, "pending").range = range
        /\ Seg(f, range, "pending").state = "pending"
    BY DEF Seg
  <2>6. file[g].ranges[i].blob = range.blob
    BY <2>1, <2>2
  <2> QED
    BY <2>3, <2>4, <2>5, <2>6 DEF OneSegment
<1>10. chunk \in Promise!Chunks
  <2>1. range.start \in 0..(Length - 1) /\ range.end - 1 \in 0..(Length - 1)
    BY <1>1, RangeFields DEF Positions
  <2>2. chunk = range.start..(range.end - 1)
    BY DEF Bytes
  <2> HIDE DEF chunk
  <2> QED
    BY <2>1, <2>2 DEF Promise!Chunks
<1>11. range.blob \in Blobs
  BY <1>1, RangeFields
<1> HIDE DEF chunk
<1>12. range.blob \in Blobs \ Promise!BlobsUsed
  <2>1. Promise!BlobsUsed = UNION {{x[2] : x \in Contents(g)} : g \in Files}
    BY DEF Promise!BlobsUsed
  <2> QED
    BY <1>9, <1>11, <2>1
<1>13. Promise!Write(f, range.blob, chunk)
  <2>1. Promise!WrittenBytes(f) = {x[1] : x \in Contents(f)}
    BY <1>1 DEF Promise!WrittenBytes
  <2> QED
    BY <1>4, <1>7, <1>8, <2>1 DEF Promise!Write, WrittenNow, SealedNow
<1> QED
  BY <1>1, <1>10, <1>12, <1>13 DEF Promise!Next

LEMMA CloseSeals ==
  ASSUME TypeOK, RangesSorted, Rows, NEW f \in Files, CommitFile(f)
  PROVE  Promise!Seal(f)
<1>1. file \in [Files -> FileRows] /\ file[f].ranges \in Seq(Ranges)
  BY Types DEF FileRows
<1>2. /\ file' = [file EXCEPT ![f].state = "ready"] /\ IsRangeFullCoverage(file[f].ranges)
      /\ \A g \in Files : file'[g].ranges = file[g].ranges
      /\ file'[f].state = "ready" /\ \A g \in Files \ {f} : file'[g] = file[g]
  BY <1>1 DEF CommitFile, FileRows
<1>3. WrittenNow' = WrittenNow
  BY <1>2, SameContents DEF WrittenNow
<1>4. SealedNow' = SealedNow \cup {f}
  BY <1>2 DEF SealedNow
<1> DEFINE bytes == {x[1] : x \in Contents(f)}
<1>5. \A p : p \in bytes <=>
        \E i \in DOMAIN file[f].ranges : p \in Bytes(file[f].ranges[i].start, file[f].ranges[i].end)
  <2>1. ASSUME NEW p \in bytes
        PROVE  \E i \in DOMAIN file[f].ranges : p \in Bytes(file[f].ranges[i].start, file[f].ranges[i].end)
    BY ContentsAre
  <2>2. ASSUME NEW i \in DOMAIN file[f].ranges,
               NEW p \in Bytes(file[f].ranges[i].start, file[f].ranges[i].end)
        PROVE  p \in bytes
    <3>1. <<p, file[f].ranges[i].blob>> \in Contents(f)
      BY ContentsAre
    <3> QED
      BY <3>1
  <2> QED
    BY <2>1, <2>2
<1>6. \A p, q \in bytes : p..q \subseteq bytes
  <2>1. SUFFICES ASSUME NEW p \in bytes, NEW q \in bytes, NEW x \in p..q
                 PROVE  x \in bytes
    OBVIOUS
  <2>2. PICK i \in DOMAIN file[f].ranges : p \in Bytes(file[f].ranges[i].start, file[f].ranges[i].end)
    BY <1>5
  <2>3. PICK j \in DOMAIN file[f].ranges : q \in Bytes(file[f].ranges[j].start, file[f].ranges[j].end)
    BY <1>5
  <2>4. file[f].ranges[i] \in Ranges /\ file[f].ranges[j] \in Ranges
    BY <1>1
  <2>5. file[f].ranges[i].start <= x /\ x < file[f].ranges[j].end /\ x \in Positions
    BY <2>2, <2>3, <2>4, RangeFields DEF Bytes, Positions
  <2>6. Sorted(file[f].ranges) /\ Open(file[f].ranges)
    BY DEF RangesSorted, Rows
  <2> QED
    BY <1>1, <1>2, <1>5, <2>5, <2>6, CoverageIsGapless
<1>7. Promise!WrittenBytes(f) = bytes
  BY DEF Promise!WrittenBytes
<1> QED
  BY <1>3, <1>4, <1>6, <1>7 DEF Promise!Seal, WrittenNow, SealedNow

LEMMA PromiseStep ==
  ASSUME TypeOK, RangesSorted, SegmentsMatchRanges, Rows, OneSegment, OwnSegments, [Next]_vars
  PROVE  [Promise!Next]_Promise!vars
<1>1. ASSUME NEW f \in Files, CreateFile(f)
      PROVE  UNCHANGED Promise!vars
  <2>1. file \in [Files -> FileRows] /\ file[f] \in FileRows
    BY Types
  <2>2. /\ \A g \in Files : file'[g].ranges = file[g].ranges
        /\ \A g \in Files : (file'[g].state = "ready") <=> (file[g].state = "ready")
    BY <1>1, <2>1 DEF CreateFile, FileRows
  <2>3. WrittenNow' = WrittenNow /\ SealedNow' = SealedNow
    BY <2>2, SameContents DEF WrittenNow, SealedNow
  <2> QED
    BY <2>3 DEF Promise!vars, WrittenNow, SealedNow
<1>2. CASE UNCHANGED file
  <2>1. WrittenNow' = WrittenNow /\ SealedNow' = SealedNow
    BY <1>2, SameContents DEF WrittenNow, SealedNow
  <2> QED
    BY <2>1 DEF Promise!vars, WrittenNow, SealedNow
<1>3. ASSUME NEW f \in Files, Promise!Seal(f)
      PROVE  Promise!Next
  BY <1>3 DEF Promise!Next
<1>4. Promise!Crash => Promise!Next
  BY DEF Promise!Next
<1> QED
  BY <1>1, <1>2, <1>3, <1>4, DieCrashes, CommitWrites, CloseSeals, FileSteps

(* Every byte of a file is written once, each blob holds one chunk of one
   file, Close seals no file with a hole, and a restart takes unsealed files
   only: whatever writers do next to each other, and wherever they die. *)
THEOREM BytesAreWrittenOnce == Spec => WritesOnce
<1>1. Init => Promise!Init
  <2> SUFFICES ASSUME Init
               PROVE  Promise!Init
    OBVIOUS
  <2>1. \A f \in Files : file[f] = NoFileRow
    BY DEF Init
  <2>2. \A f \in Files : DOMAIN file[f].ranges = {}
    BY <2>1, Idle
  <2>3. \A f \in Files : Contents(f) = {}
    BY <2>2, ContentsAre
  <2>4. SealedNow = {}
    BY <2>1, Idle DEF SealedNow
  <2> QED
    BY <2>3, <2>4 DEF Promise!Init, SealedNow
<1>2. Init => Rows /\ OneSegment /\ OwnSegments
  <2> SUFFICES ASSUME Init
               PROVE  Rows /\ OneSegment /\ OwnSegments
    OBVIOUS
  <2>1. Rows
    BY Idle, EmptyOpen DEF Init, Rows
  <2>2. OneSegment /\ OwnSegments
    BY Idle DEF Init, OneSegment, OwnSegments
  <2> QED
    BY <2>1, <2>2
<1>3. Spec => [](Rows /\ OneSegment /\ OwnSegments)
  BY <1>2, RowsStay, SegmentsStay, TypesKept, PTL DEF Spec
<1> QED
  BY <1>1, <1>3, PromiseStep, TypesKept, SortedAlways, TablesAgree, PTL
     DEF Spec, WritesOnce, Promise!Spec
=============================================================================
