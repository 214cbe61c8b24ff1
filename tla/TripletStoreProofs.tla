------------------------- MODULE TripletStoreProofs -------------------------
(* Theorems about TripletStore, for every number of files, triplets and       *)
(* writers, every layout and threshold, and every set of faults:              *)
(*   - FilesInv, the inductive invariant of files, rows, start-up and jobs;   *)
(*   - Balance, what totalBytes stands for, from sums over finite sets.       *)
EXTENDS TripletStore, FilesTableProofs, FiniteSetTheorems, WellFoundedInduction

USE StoreAssumption, TripletsAssumption

-----------------------------------------------------------------------------
(* Sums over finite sets. Induction is on sets of numbers and of subsets: a   *)
(* set of naturals has a least element.                                       *)

Less == {p \in Nat \X Nat : p[1] < p[2]}

(* A set of naturals has a least element. *)
LEMMA LeastElement ==
  ASSUME NEW T \in SUBSET Nat, T # {}
  PROVE  \E x \in T : \A y \in T : x <= y
<1>1. IsWellFoundedOn(Less, Nat)
  <2>1. OpToRel(<, Nat) = Less
    BY DEF OpToRel, Less
  <2> QED
    BY <2>1, NatLessThanWellFounded
<1>2. PICK x \in T : \A y \in T : ~(<<y, x>> \in Less)
  BY <1>1, WFMin
<1>3. ASSUME NEW y \in T
      PROVE  x <= y
  <2>1. <<y, x>> \in Less <=> y < x
    BY DEF Less
  <2> QED
    BY <1>2, <2>1
<1> QED
  BY <1>3

(* A set of subsets that has every subset whose smaller subsets it has. *)
LEMMA SubsetInduction ==
  ASSUME NEW D, IsFiniteSet(D), NEW P,
         \A s \in SUBSET D : (\A r \in SUBSET s : r # s => r \in P) => s \in P
  PROVE  \A s \in SUBSET D : s \in P
<1> DEFINE T == {n \in Nat : \E s \in SUBSET D : s \notin P /\ Cardinality(s) = n}
<1>1. SUFFICES ASSUME NEW s0 \in SUBSET D, s0 \notin P
               PROVE  FALSE
  OBVIOUS
<1>2. Cardinality(s0) \in T
  BY <1>1, FS_Subset, FS_CardinalityType
<1>3. PICK n \in T : \A m \in T : n <= m
  <2> HIDE DEF T
  <2>1. T \in SUBSET Nat
    BY DEF T
  <2> QED
    BY <1>2, <2>1, LeastElement
<1>4. PICK s \in SUBSET D : s \notin P /\ Cardinality(s) = n
  OBVIOUS
<1>5. ASSUME NEW r \in SUBSET s, r # s
      PROVE  r \in P
  <2>1. IsFiniteSet(s) /\ IsFiniteSet(r) /\ r \in SUBSET D
    BY FS_Subset
  <2>2. Cardinality(r) \in Nat /\ Cardinality(s) \in Nat /\ Cardinality(r) < Cardinality(s)
    BY <1>5, <2>1, FS_Subset, FS_CardinalityType
  <2> QED
    BY <1>3, <1>4, <2>1, <2>2
<1> QED
  BY <1>4, <1>5

Pick(s) == CHOOSE x \in s : TRUE

Body(g, f, s) == IF s = {} THEN 0 ELSE f[Pick(s)] + g[s \ {Pick(s)}]

IsFold(g, f, S) == g = [s \in SUBSET S |-> Body(g, f, s)]

Sum(f, S) == MapThenSumSet(LAMBDA x : f[x], S)

(* What the community module's operator unfolds to. *)
LEMMA SumUnfolds ==
  ASSUME NEW f, NEW S
  PROVE  Sum(f, S) = (CHOOSE g : IsFold(g, f, S))[S]
  BY DEF Sum, MapThenSumSet, MapThenFoldSet, IsFold, Body, Pick

(* The fold exists. *)
LEMMA FoldExists ==
  ASSUME NEW f, NEW S, IsFiniteSet(S)
  PROVE  \E g : IsFold(g, f, S)
<1> DEFINE Upto(g, n) == /\ g = [s \in SUBSET S |-> g[s]]
                         /\ \A s \in SUBSET S : Cardinality(s) <= n => g[s] = Body(g, f, s)
           T == {n \in Nat : ~ \E g : Upto(g, n)}
<1>1. \A s \in SUBSET S : IsFiniteSet(s) /\ Cardinality(s) \in Nat
                          /\ Cardinality(s) <= Cardinality(S)
  BY FS_Subset, FS_CardinalityType
<1>2. Upto([s \in SUBSET S |-> 0], 0)
  <2>1. \A s \in SUBSET S : Cardinality(s) <= 0 => s = {}
    BY <1>1, FS_EmptySet
  <2> QED
    BY <2>1 DEF Body
<1>3. ASSUME NEW n \in Nat, NEW g, Upto(g, n)
      PROVE  \E h : Upto(h, n + 1)
  <2> DEFINE h == [s \in SUBSET S |-> Body(g, f, s)]
  <2>1. ASSUME NEW s \in SUBSET S, Cardinality(s) <= n + 1
        PROVE  h[s] = Body(h, f, s)
    <3>1. CASE s = {}
      BY <3>1 DEF Body
    <3>2. CASE s # {}
      <4>1. Pick(s) \in s
        BY <3>2 DEF Pick
      <4>2. s \ {Pick(s)} \in SUBSET S /\ Cardinality(s \ {Pick(s)}) <= n
        BY <1>1, <2>1, <4>1, FS_RemoveElement
      <4>3. h[s \ {Pick(s)}] = g[s \ {Pick(s)}]
        BY <1>3, <4>2
      <4> QED
        BY <3>2, <4>3 DEF Body
    <3> QED
      BY <3>1, <3>2
  <2>2. h = [s \in SUBSET S |-> h[s]]
    OBVIOUS
  <2> HIDE DEF h
  <2>3. Upto(h, n + 1)
    BY <2>1, <2>2
  <2> QED
    BY <2>3
<1> HIDE DEF Upto
<1>4. T = {}
  <2>1. SUFFICES ASSUME T # {}
                 PROVE  FALSE
    OBVIOUS
  <2>2. PICK n \in T : \A m \in T : n <= m
    <3>1. T \in SUBSET Nat
      OBVIOUS
    <3> HIDE DEF T
    <3> QED
      BY <2>1, <3>1, LeastElement
  <2>3. n # 0
    BY <1>2
  <2>4. n - 1 \in Nat /\ n - 1 \notin T
    BY <2>2, <2>3
  <2>5. PICK g : Upto(g, n - 1)
    BY <2>4
  <2>6. \E h : Upto(h, (n - 1) + 1)
    BY <1>3, <2>4, <2>5
  <2> QED
    BY <2>4, <2>6
<1>5. PICK g : Upto(g, Cardinality(S))
  BY <1>1, <1>4
<1> QED
  BY <1>1, <1>5 DEF Upto, IsFold

(* Two folds of one function agree where both are defined. *)
LEMMA FoldsAgree ==
  ASSUME NEW f, NEW S, NEW R, IsFiniteSet(S), R \in SUBSET S, NEW g, NEW h,
         IsFold(g, f, S), IsFold(h, f, R)
  PROVE  \A s \in SUBSET R : g[s] = h[s]
<1> DEFINE P == {s \in SUBSET R : g[s] = h[s]}
<1>1. ASSUME NEW s \in SUBSET R, \A r \in SUBSET s : r # s => r \in P
      PROVE  s \in P
  <2>1. g[s] = Body(g, f, s) /\ h[s] = Body(h, f, s)
    BY DEF IsFold
  <2>2. CASE s = {}
    BY <2>1, <2>2 DEF Body
  <2>3. CASE s # {}
    <3>1. Pick(s) \in s
      BY <2>3 DEF Pick
    <3>2. s \ {Pick(s)} \in P
      BY <1>1, <3>1
    <3> QED
      BY <2>1, <2>3, <3>2 DEF Body
  <2> QED
    BY <2>2, <2>3
<1>2. IsFiniteSet(R)
  BY FS_Subset
<1> HIDE DEF P
<1>3. \A s \in SUBSET R : s \in P
  BY <1>1, <1>2, SubsetInduction
<1> QED
  BY <1>3 DEF P

(* The sum, one chosen element at a time. *)
LEMMA SumOfPick ==
  ASSUME NEW f, NEW S, IsFiniteSet(S)
  PROVE  /\ S = {} => Sum(f, S) = 0
         /\ S # {} => Pick(S) \in S /\ Sum(f, S) = f[Pick(S)] + Sum(f, S \ {Pick(S)})
<1> DEFINE g == CHOOSE g : IsFold(g, f, S)
<1>1. IsFold(g, f, S)
  BY FoldExists
<1>2. Sum(f, S) = g[S]
  BY SumUnfolds
<1> HIDE DEF g
<1>3. Sum(f, S) = Body(g, f, S)
  BY <1>1, <1>2 DEF IsFold
<1>4. CASE S = {}
  BY <1>3, <1>4 DEF Body
<1>5. CASE S # {}
  <2> DEFINE R == S \ {Pick(S)}
             h == CHOOSE h : IsFold(h, f, R)
  <2>1. Pick(S) \in S
    BY <1>5 DEF Pick
  <2>2. R \in SUBSET S /\ IsFiniteSet(R)
    BY FS_Subset
  <2>3. IsFold(h, f, R)
    BY <2>2, FoldExists
  <2>4. Sum(f, R) = h[R]
    BY SumUnfolds
  <2> HIDE DEF h, R
  <2>5. g[R] = h[R]
    BY <1>1, <2>2, <2>3, FoldsAgree
  <2> QED
    BY <1>3, <1>5, <2>1, <2>4, <2>5 DEF Body, R
<1> QED
  BY <1>4, <1>5

(* A sum of numbers is a number, and any element can be taken out first. *)
LEMMA SumRemove ==
  ASSUME NEW D, IsFiniteSet(D), NEW f \in [D -> Int]
  PROVE  \A S \in SUBSET D :
           /\ Sum(f, S) \in Int
           /\ \A x \in S : Sum(f, S) = f[x] + Sum(f, S \ {x})
<1> DEFINE P == {S \in SUBSET D : /\ Sum(f, S) \in Int
                                  /\ \A x \in S : Sum(f, S) = f[x] + Sum(f, S \ {x})}
<1>1. ASSUME NEW S \in SUBSET D, \A R \in SUBSET S : R # S => R \in P
      PROVE  S \in P
  <2>1. IsFiniteSet(S)
    BY FS_Subset
  <2>2. CASE S = {}
    <3>1. Sum(f, S) = 0
      BY <2>1, <2>2, SumOfPick
    <3> QED
      BY <2>2, <3>1
  <2>3. CASE S # {}
    <3> DEFINE p == Pick(S)
    <3>1. p \in S /\ Sum(f, S) = f[p] + Sum(f, S \ {p})
      BY <2>1, <2>3, SumOfPick
    <3> HIDE DEF p
    <3>2. S \ {p} \in P
      BY <1>1, <3>1
    <3>3. Sum(f, S) \in Int
      BY <3>1, <3>2
    <3>4. ASSUME NEW x \in S
          PROVE  Sum(f, S) = f[x] + Sum(f, S \ {x})
      <4>1. CASE x = p
        BY <3>1, <4>1
      <4>2. CASE x # p
        <5>1. S \ {x} \in P
          BY <1>1
        <5>2. Sum(f, S \ {p}) = f[x] + Sum(f, (S \ {p}) \ {x})
          BY <3>2, <4>2
        <5>3. Sum(f, S \ {x}) = f[p] + Sum(f, (S \ {x}) \ {p})
          BY <3>1, <4>2, <5>1
        <5>4. (S \ {p}) \ {x} = (S \ {x}) \ {p}
          OBVIOUS
        <5>5. (S \ {x}) \ {p} \in P
          BY <1>1, <3>1
        <5>6. f[x] \in Int /\ f[p] \in Int /\ Sum(f, (S \ {x}) \ {p}) \in Int
          BY <3>1, <5>5
        <5>7. ASSUME NEW a \in Int, NEW b \in Int, NEW c \in Int
              PROVE  a + (b + c) = b + (a + c)
          OBVIOUS
        <5>8. Sum(f, S) = f[p] + (f[x] + Sum(f, (S \ {x}) \ {p}))
          BY <3>1, <5>2, <5>4
        <5>9. f[x] + Sum(f, S \ {x}) = f[x] + (f[p] + Sum(f, (S \ {x}) \ {p}))
          BY <5>3
        <5> HIDE DEF P
        <5> QED
          BY <5>6, <5>7, <5>8, <5>9
      <4> QED
        BY <4>1, <4>2
    <3> QED
      BY <3>3, <3>4
  <2> QED
    BY <2>2, <2>3
<1> HIDE DEF P
<1>2. \A S \in SUBSET D : S \in P
  BY <1>1, SubsetInduction
<1> QED
  BY <1>2 DEF P

(* The empty sum, and one more element. *)
LEMMA SumAdd ==
  ASSUME NEW D, IsFiniteSet(D), NEW f \in [D -> Int], NEW S \in SUBSET D
  PROVE  /\ Sum(f, {}) = 0
         /\ \A x \in D \ S : Sum(f, S \cup {x}) = f[x] + Sum(f, S)
<1>1. Sum(f, {}) = 0
  BY FS_EmptySet, SumOfPick
<1>2. ASSUME NEW x \in D \ S
      PROVE  Sum(f, S \cup {x}) = f[x] + Sum(f, S)
  <2>1. (S \cup {x}) \ {x} = S
    OBVIOUS
  <2> QED
    BY <2>1, SumRemove
<1> QED
  BY <1>1, <1>2

(* Functions that agree on a set have one sum over it. *)
LEMMA SumSame ==
  ASSUME NEW D, IsFiniteSet(D), NEW f \in [D -> Int], NEW g \in [D -> Int],
         NEW S \in SUBSET D, \A x \in S : f[x] = g[x]
  PROVE  Sum(f, S) = Sum(g, S)
<1> DEFINE P == {R \in SUBSET S : Sum(f, R) = Sum(g, R)}
<1>0. IsFiniteSet(S)
  BY FS_Subset
<1>1. ASSUME NEW R \in SUBSET S, \A r \in SUBSET R : r # R => r \in P
      PROVE  R \in P
  <2>1. IsFiniteSet(R)
    BY FS_Subset
  <2>2. CASE R = {}
    BY <2>1, <2>2, SumOfPick
  <2>3. CASE R # {}
    <3> PICK x \in R : TRUE
      BY <2>3
    <3>1. R \ {x} \in P
      BY <1>1
    <3>2. Sum(f, R) = f[x] + Sum(f, R \ {x}) /\ Sum(g, R) = g[x] + Sum(g, R \ {x})
      BY SumRemove
    <3> QED
      BY <3>1, <3>2
  <2> QED
    BY <2>2, <2>3
<1> HIDE DEF P
<1>2. \A R \in SUBSET S : R \in P
  BY <1>0, <1>1, SubsetInduction
<1> QED
  BY <1>2 DEF P

(* One summand changes. *)
LEMMA SumChange ==
  ASSUME NEW D, IsFiniteSet(D), NEW f \in [D -> Int], NEW g \in [D -> Int],
         NEW S \in SUBSET D, NEW x \in S, \A y \in S \ {x} : f[y] = g[y]
  PROVE  Sum(g, S) = Sum(f, S) - f[x] + g[x]
<1>1. Sum(f, S \ {x}) = Sum(g, S \ {x})
  BY SumSame
<1>2. /\ Sum(f, S) = f[x] + Sum(f, S \ {x}) /\ Sum(g, S) = g[x] + Sum(g, S \ {x})
      /\ Sum(f, S \ {x}) \in Int
  BY SumRemove
<1>3. f[x] \in Int /\ g[x] \in Int
  OBVIOUS
<1> QED
  BY <1>1, <1>2, <1>3

(* A sum of naturals. *)
LEMMA SumNat ==
  ASSUME NEW D, IsFiniteSet(D), NEW f \in [D -> Int],
         NEW S \in SUBSET D, \A x \in S : f[x] >= 0
  PROVE  Sum(f, S) \in Nat
<1> DEFINE P == {R \in SUBSET S : Sum(f, R) \in Nat}
<1>0. IsFiniteSet(S)
  BY FS_Subset
<1>1. ASSUME NEW R \in SUBSET S, \A r \in SUBSET R : r # R => r \in P
      PROVE  R \in P
  <2>1. IsFiniteSet(R)
    BY FS_Subset
  <2>2. CASE R = {}
    <3>1. Sum(f, R) = 0
      BY <2>1, <2>2, SumOfPick
    <3> QED
      BY <3>1
  <2>3. CASE R # {}
    <3> PICK x \in R : TRUE
      BY <2>3
    <3>1. R \ {x} \in P
      BY <1>1
    <3>2. Sum(f, R) = f[x] + Sum(f, R \ {x})
      BY SumRemove
    <3> QED
      BY <3>1, <3>2
  <2> QED
    BY <2>2, <2>3
<1> HIDE DEF P
<1>2. \A R \in SUBSET S : R \in P
  BY <1>0, <1>1, SubsetInduction
<1> QED
  BY <1>2 DEF P

(* A set of new elements, all of one size. *)
LEMMA SumJoin ==
  ASSUME NEW D, IsFiniteSet(D), NEW f \in [D -> Int], NEW c \in Int,
         NEW S \in SUBSET D, NEW I \in SUBSET D, I \cap S = {}, \A x \in I : f[x] = c
  PROVE  Sum(f, S \cup I) = Sum(f, S) + Cardinality(I) * c
<1> DEFINE P == {R \in SUBSET I : Sum(f, S \cup R) = Sum(f, S) + Cardinality(R) * c}
<1>0. IsFiniteSet(I) /\ Sum(f, S) \in Int
  BY FS_Subset, SumRemove
<1>1. ASSUME NEW R \in SUBSET I, \A r \in SUBSET R : r # R => r \in P
      PROVE  R \in P
  <2>1. IsFiniteSet(R) /\ Cardinality(R) \in Nat
    BY <1>0, FS_Subset, FS_CardinalityType
  <2>2. CASE R = {}
    <3>1. S \cup R = S /\ Cardinality(R) = 0
      BY <2>1, <2>2, FS_EmptySet
    <3> QED
      BY <1>0, <3>1
  <2>3. CASE R # {}
    <3> PICK x \in R : TRUE
      BY <2>3
    <3>1. R \ {x} \in P
      BY <1>1
    <3>2. Cardinality(R \ {x}) = Cardinality(R) - 1
      BY <2>1, FS_RemoveElement
    <3>3. (S \cup R) \ {x} = S \cup (R \ {x}) /\ x \in S \cup R /\ S \cup R \in SUBSET D
      OBVIOUS
    <3>4. Sum(f, S \cup R) = c + Sum(f, S \cup (R \ {x}))
      BY <3>3, SumRemove
    <3>5. (Cardinality(R) - 1) * c + c = Cardinality(R) * c
      BY <2>1
    <3>6. Sum(f, S \cup (R \ {x})) = Sum(f, S) + (Cardinality(R) - 1) * c
      BY <3>1, <3>2
    <3>7. (Cardinality(R) - 1) * c \in Int /\ Cardinality(R) * c \in Int
      BY <2>1
    <3> QED
      BY <1>0, <3>4, <3>5, <3>6, <3>7
  <2> QED
    BY <2>2, <2>3
<1> HIDE DEF P
<1>2. \A R \in SUBSET I : R \in P
  BY <1>0, <1>1, SubsetInduction
<1> QED
  BY <1>2 DEF P

-----------------------------------------------------------------------------
(* The inductive invariant. *)

Complete == {"ok", "broken"}

Found == {t \in Triplets : idx[t].st # "none"}

(* What the files are at any time, between processes as well. *)
DiskSound ==
  /\ \A t \in TripletIds : /\ IsFiniteSet(idx[t].entries)
                           /\ idx[t].st = "none" => bin[t].size = 0 \/ Stray(t)
                           /\ \A e \in idx[t].entries : e.blob <= puts
  /\ idx[NoTriplet].state # "large"
  /\ idx[NoTriplet].st = "none" => mf[NoTriplet].st = "none"

(* A READY row names a triplet whose files are complete and hold its blob; a
   PENDING row has no owner yet. *)
RowBacked(row) ==
  /\ row.state = "pending" => row.owner = NoTriplet
  /\ row.state = "ready" =>
       /\ row.owner \in Triplets /\ row.tri = row.owner
       /\ idx[row.tri].st \in Complete /\ mf[row.tri].st \in Complete
       /\ Readable(row.tri, row.ver) \/ Empty(row.tri, row.ver)

RowsBacked == \A f \in Files : RowBacked(table[f])

(* How far the process is. *)
PhaseSound ==
  /\ at # "up" => closing = {} /\ \A w \in Writers : job[w].pc = "idle"
  /\ at \notin {"load", "up"} => Loaded = {}
  /\ at = "down" => drift = 0
  /\ at \in {"pending", "list"} => todo = Found
  /\ at = "clean" => /\ todo \subseteq Found /\ todo \cap owners = {}
                     /\ owners = ListTripleIdOfAllFiles(table)
                     /\ Found \subseteq todo \cup owners
  /\ at \in {"load", "up"} => /\ todo \cap Loaded = {}
                              /\ Found = (todo \cup Loaded) \cap Triplets
  /\ at = "up" => todo = {}

(* The caches hold triplets with complete files, whose size they know. *)
PlacedSound ==
  /\ \A t \in Loaded : /\ idx[t].st \in Complete /\ mf[t].st \in Complete
                       /\ curOff[t] = bin[t].size
  /\ closing \subseteq Loaded

(* What a Put under way has done so far. *)
Stored(j) == \E b \in bin[j.tri].blobs :
               /\ b.blob = j.blob /\ b.off = j.off
               /\ b.off + GetPayloadSize(b.len) <= bin[j.tri].size

Bound(pc, len) == CASE pc = "bin" -> EmptyTripletSize
                    [] pc = "idx" -> EmptyTripletSize + GetPayloadSize(len)
                    [] pc = "mf" -> EmptyTripletSize + GetPayloadSize(len) + K_index_entry_len
                    [] OTHER -> 0

JobSound(j) ==
  /\ j.pc # "idle" => j.file \in Files /\ j.len \in Lengths
  /\ j.blob <= puts
  /\ j.pc \in {"bin", "idx", "mf", "seal"} => j.tri \in Loaded
  /\ j.pc \in {"idx", "mf", "seal"} => Stored(j)
  /\ j.pc \in {"mf", "seal"} => [blob |-> j.blob, off |-> j.off] \in idx[j.tri].entries
  /\ j.pc \in {"reserve", "pick", "bin", "idx"} =>
       \A t \in TripletIds : \A e \in idx[t].entries : e.blob # j.blob
  /\ j.pc \in {"reserve", "pick", "bin", "idx", "mf"} => j.grown <= Bound(j.pc, j.len)

JobsSound ==
  /\ \A w \in Writers : JobSound(job[w])
  /\ \A w, v \in Writers : w # v /\ job[w].pc # "idle" /\ job[v].pc # "idle"
                             => job[w].blob # job[v].blob

(* What totalBytes stands for: the files found or loaded, and the part of each
   reservation that is not written yet. *)
Counted == Found \cup ({NoTriplet} \cap Loaded)

HeldBy(j) == IF j.pc \in {"pick", "bin", "idx", "mf"} THEN MaxAllocSize(j.len) - j.grown ELSE 0

Sizes == [t \in TripletIds |-> TripletSize(t)]
Held == [w \in Writers |-> HeldBy(job[w])]

Balance == at # "down" => total + drift = Sum(Sizes, Counted) + Sum(Held, Writers)

FilesInv == TypeOK /\ DiskSound /\ RowsBacked /\ PhaseSound /\ PlacedSound /\ JobsSound

StoreInv == FilesInv /\ Balance

-----------------------------------------------------------------------------
(* Sizes and records. *)

(* Every size in bytes is a natural number. *)
LEMMA PayloadNat ==
  ASSUME NEW len \in Nat
  PROVE  GetPayloadSize(len) \in Nat
<1>1. (len + 3927) \div 3928 \in Nat
  OBVIOUS
<1>2. \A n \in Nat : 4096 * n \in Nat
  OBVIOUS
<1> QED
  BY <1>1, <1>2 DEF GetPayloadSize, F_CONTENT_SIZE, F_BLOBID_SIZE

(* A log of entries, and what one more adds to it. *)
LEMMA GrowthNat ==
  ASSUME NEW n \in Nat, NEW len \in {K_index_entry_len, K_mf_entry_len}
  PROVE  /\ LogSize(n, len) \in Nat /\ Growth(n, len) \in Nat
         /\ Growth(n, len) <= len
         /\ LogSize(n + 1, len) = LogSize(n, len) + Growth(n, len)
<1>1. len \in Nat /\ len >= 2 /\ len * n \in Nat /\ (n + 1) * len = n * len + len
      /\ (n # 0 => n * len >= len)
  BY DEF K_index_entry_len, K_mf_entry_len
<1> HIDE DEF K_index_entry_len, K_mf_entry_len
<1> QED
  BY <1>1 DEF LogSize, Growth

(* What Put reserves, and what it may still write after each step. *)
LEMMA BoundNat ==
  ASSUME NEW len \in Nat, NEW pc
  PROVE  /\ GetPayloadSize(len) \in Nat
         /\ MaxAllocSize(len) \in Nat /\ Bound(pc, len) \in Nat
         /\ Bound(pc, len) <= MaxAllocSize(len)
<1>1. GetPayloadSize(len) \in Nat
  BY PayloadNat
<1> QED
  BY <1>1 DEF Bound, MaxAllocSize, K_index_entry_len, K_mf_entry_len, EmptyTripletSize

(* The files of a triplet, field by field. *)
LEMMA FileFields ==
  /\ \A x \in Idxs : /\ x.st \in {"none", "blank", "ok", "broken"}
                     /\ x.state \in {"open", "closed", "large"}
                     /\ x.entries \in SUBSET [blob : Versions, off : Nat]
                     /\ [x EXCEPT !.st = "broken"] \in Idxs
                     /\ [x EXCEPT !.state = "closed"] \in Idxs
                     /\ \A e \in [blob : Versions, off : Nat] :
                          [x EXCEPT !.entries = @ \cup {e}] \in Idxs
  /\ \A x \in Mfs : /\ x.st \in {"none", "blank", "ok", "broken"} /\ x.n \in Nat
                    /\ [x EXCEPT !.st = "broken"] \in Mfs
                    /\ [x EXCEPT !.st = "blank"] \in Mfs
                    /\ [x EXCEPT !.n = @ + 1] \in Mfs
  /\ \A x \in Bins : /\ x.size \in Nat
                     /\ x.blobs \in SUBSET [blob : Versions, off : Nat, len : Lengths]
                     /\ [x EXCEPT !.size = @ + 1] \in Bins
  /\ NoIdx \in Idxs /\ NoMf \in Mfs /\ NoBin \in Bins
  /\ \A state \in {"open", "closed", "large"} :
       /\ Created(state).idx \in Idxs /\ Created(state).mf \in Mfs
       /\ [NoIdx EXCEPT !.st = "blank", !.state = state] \in Idxs
<1>1. \A x \in Idxs : /\ x.st \in {"none", "blank", "ok", "broken"}
                      /\ x.state \in {"open", "closed", "large"}
                      /\ x.entries \in SUBSET [blob : Versions, off : Nat]
                      /\ [x EXCEPT !.st = "broken"] \in Idxs
                      /\ [x EXCEPT !.state = "closed"] \in Idxs
                      /\ \A e \in [blob : Versions, off : Nat] :
                           [x EXCEPT !.entries = @ \cup {e}] \in Idxs
  BY DEF Idxs
<1>2. \A x \in Mfs : /\ x.st \in {"none", "blank", "ok", "broken"} /\ x.n \in Nat
                     /\ [x EXCEPT !.st = "broken"] \in Mfs
                     /\ [x EXCEPT !.st = "blank"] \in Mfs
                     /\ [x EXCEPT !.n = @ + 1] \in Mfs
  BY DEF Mfs
<1>3. \A x \in Bins : /\ x.size \in Nat
                      /\ x.blobs \in SUBSET [blob : Versions, off : Nat, len : Lengths]
                      /\ [x EXCEPT !.size = @ + 1] \in Bins
  BY DEF Bins
<1>4. NoIdx \in Idxs /\ NoMf \in Mfs /\ NoBin \in Bins
  BY DEF NoIdx, Idxs, NoMf, Mfs, NoBin, Bins
<1>5. \A state \in {"open", "closed", "large"} :
       /\ Created(state).idx \in Idxs /\ Created(state).mf \in Mfs
       /\ [NoIdx EXCEPT !.st = "blank", !.state = state] \in Idxs
  BY DEF Created, NoIdx, Idxs, NoMf, Mfs
<1> QED
  BY <1>1, <1>2, <1>3, <1>4, <1>5

(* A job, field by field, and as it moves on. *)
LEMMA JobFields ==
  /\ IdleJob \in Jobs
  /\ \A f \in Files, len \in Lengths, blob \in Versions :
       [IdleJob EXCEPT !.pc = "reserve", !.file = f, !.blob = blob, !.len = len] \in Jobs
  /\ \A j \in Jobs :
       /\ j.pc \in {"idle", "reserve", "pick", "bin", "idx", "mf", "seal", "rollback"}
       /\ j.file \in Files \cup {NoFile} /\ j.blob \in Versions /\ j.len \in Lengths \cup {0}
       /\ j.tri \in TripletIds /\ j.off \in Nat /\ j.grown \in Nat
       /\ \A pc \in {"reserve", "pick", "bin", "idx", "mf", "seal", "rollback"},
             t \in TripletIds, off \in Nat, grown \in Nat :
            /\ [j EXCEPT !.pc = pc] \in Jobs
            /\ [j EXCEPT !.pc = pc, !.grown = grown] \in Jobs
            /\ [j EXCEPT !.pc = pc, !.tri = t] \in Jobs
            /\ [j EXCEPT !.pc = pc, !.tri = t, !.grown = grown] \in Jobs
            /\ [j EXCEPT !.pc = pc, !.off = off, !.grown = grown] \in Jobs
<1>1. IdleJob \in Jobs
  BY DEF IdleJob, Jobs, Versions, TripletIds
<1>2. \A f \in Files, len \in Lengths, blob \in Versions :
       [IdleJob EXCEPT !.pc = "reserve", !.file = f, !.blob = blob, !.len = len] \in Jobs
  BY DEF IdleJob, Jobs, Versions, TripletIds
<1>3. \A j \in Jobs :
       /\ j.pc \in {"idle", "reserve", "pick", "bin", "idx", "mf", "seal", "rollback"}
       /\ j.file \in Files \cup {NoFile} /\ j.blob \in Versions /\ j.len \in Lengths \cup {0}
       /\ j.tri \in TripletIds /\ j.off \in Nat /\ j.grown \in Nat
  BY DEF Jobs
<1>4. ASSUME NEW j \in Jobs,
             NEW pc \in {"reserve", "pick", "bin", "idx", "mf", "seal", "rollback"},
             NEW t \in TripletIds, NEW off \in Nat, NEW grown \in Nat
      PROVE /\ [j EXCEPT !.pc = pc] \in Jobs
            /\ [j EXCEPT !.pc = pc, !.grown = grown] \in Jobs
            /\ [j EXCEPT !.pc = pc, !.tri = t] \in Jobs
            /\ [j EXCEPT !.pc = pc, !.tri = t, !.grown = grown] \in Jobs
            /\ [j EXCEPT !.pc = pc, !.off = off, !.grown = grown] \in Jobs
  BY DEF Jobs
<1> QED
  BY <1>1, <1>2, <1>3, <1>4

(* The size of a triplet on disk. *)
LEMMA SizesType ==
  TypeOK /\ (\A t \in TripletIds : IsFiniteSet(idx[t].entries))
    => /\ Sizes \in [TripletIds -> Nat]
       /\ \A t \in TripletIds : /\ Sizes[t] = TripletSize(t)
                                /\ IdxSize(t) \in Nat /\ MfSize(t) \in Nat
<1> SUFFICES ASSUME TypeOK, \A t \in TripletIds : IsFiniteSet(idx[t].entries),
                    NEW t \in TripletIds
             PROVE  TripletSize(t) \in Nat /\ IdxSize(t) \in Nat /\ MfSize(t) \in Nat
  BY DEF Sizes
<1>1. mf[t].n \in Nat /\ bin[t].size \in Nat /\ Cardinality(idx[t].entries) \in Nat
  <2>1. mf[t] \in Mfs /\ bin[t] \in Bins
    BY DEF TypeOK
  <2> QED
    BY <2>1, FileFields, FS_CardinalityType
<1>2. IdxSize(t) \in Nat
  <2>1. LogSize(Cardinality(idx[t].entries), K_index_entry_len) \in Nat
    BY <1>1, GrowthNat
  <2> QED
    BY <2>1 DEF IdxSize
<1>3. MfSize(t) \in Nat
  <2>1. LogSize(mf[t].n, K_mf_entry_len) \in Nat
    BY <1>1, GrowthNat
  <2> QED
    BY <2>1 DEF MfSize
<1> QED
  BY <1>1, <1>2, <1>3 DEF TripletSize

(* SizeOf is a sum of those sizes. *)
LEMMA SizeOfIsSum ==
  \A ids \in SUBSET TripletIds : SizeOf(ids) = Sum(Sizes, ids)
<1> SUFFICES ASSUME NEW ids \in SUBSET TripletIds
             PROVE  SizeOf(ids) = Sum(Sizes, ids)
  OBVIOUS
<1> DEFINE direct(g) == [s \in SUBSET ids |-> IF s = {} THEN 0
                           ELSE TripletSize(CHOOSE x \in s : TRUE)
                                  + g[s \ {CHOOSE x \in s : TRUE}]]
           viaSizes(g) == [s \in SUBSET ids |-> IF s = {} THEN 0
                             ELSE Sizes[CHOOSE x \in s : TRUE]
                                    + g[s \ {CHOOSE x \in s : TRUE}]]
<1>1. SizeOf(ids) = (CHOOSE g : g = direct(g))[ids]
  BY DEF SizeOf, MapThenSumSet, MapThenFoldSet
<1>2. Sum(Sizes, ids) = (CHOOSE g : g = viaSizes(g))[ids]
  BY DEF Sum, MapThenSumSet, MapThenFoldSet
<1>3. ASSUME NEW g
      PROVE  direct(g) = viaSizes(g)
  <2>1. ASSUME NEW s \in SUBSET ids, s # {}
        PROVE  TripletSize(CHOOSE x \in s : TRUE) = Sizes[CHOOSE x \in s : TRUE]
    BY <2>1 DEF Sizes
  <2> QED
    BY <2>1
<1> HIDE DEF direct, viaSizes
<1>4. (CHOOSE g : g = direct(g)) = (CHOOSE g : g = viaSizes(g))
  BY <1>3
<1> QED
  BY <1>1, <1>2, <1>4

-----------------------------------------------------------------------------
(* The types. *)

(* The process of a holder that is not running. *)
LEMMA DieType ==
  TypeOK /\ Die => /\ table' = table /\ puts' = puts /\ at' = "down"
                   /\ (idx' \in [TripletIds -> Idxs] /\ mf' \in [TripletIds -> Mfs]
                        /\ bin' \in [TripletIds -> Bins] /\ kills' \in 0..MaxKills) => TypeOK'
<1> SUFFICES ASSUME TypeOK, Die, idx' \in [TripletIds -> Idxs], mf' \in [TripletIds -> Mfs],
                    bin' \in [TripletIds -> Bins], kills' \in 0..MaxKills
             PROVE  TypeOK'
  BY DEF Die
<1>1. [w \in Writers |-> IdleJob] \in [Writers -> Jobs]
  BY JobFields
<1> QED
  BY <1>1 DEF Die, TypeOK

(* A failure is counted. *)
LEMMA FailsType ==
  ASSUME NEW fault, TypeOK, Fails(fault)
  PROVE  kills' \in 0..MaxKills
  BY DEF Fails, TypeOK

(* A creation cut short. *)
LEMMA HalfCreatedType ==
  ASSUME TypeOK, NEW t \in TripletIds, NEW state \in {"open", "large"}, HalfCreated(t, state)
  PROVE  idx' \in [TripletIds -> Idxs] /\ mf' \in [TripletIds -> Mfs]
<1>1. /\ [NoIdx EXCEPT !.st = "blank", !.state = state] \in Idxs
      /\ Created(state).idx \in Idxs
  BY FileFields
<1>2. [mf[t] EXCEPT !.st = "blank"] \in Mfs
  BY FileFields DEF TypeOK
<1> QED
  BY <1>1, <1>2 DEF HalfCreated, TypeOK

(* The ids of triplets are finitely many, and so are the writers. *)
LEMMA IdsFinite == IsFiniteSet(TripletIds) /\ IsFiniteSet(Writers)
  BY FS_AddElement DEF TripletIds

(* What SizeOf adds up. *)
LEMMA SizeOfType ==
  ASSUME TypeOK, DiskSound
  PROVE  /\ \A ids \in SUBSET TripletIds : SizeOf(ids) \in Int
         /\ \A t \in TripletIds : TripletSize(t) \in Nat
<1>1. Sizes \in [TripletIds -> Nat] /\ \A t \in TripletIds : Sizes[t] = TripletSize(t)
  BY SizesType DEF DiskSound
<1>2. Sizes \in [TripletIds -> Int]
  BY <1>1
<1>3. \A ids \in SUBSET TripletIds : Sum(Sizes, ids) \in Int
  BY <1>2, IdsFinite, SumRemove
<1> QED
  BY <1>1, <1>3, SizeOfIsSum

(* The statements of PhyBH.New. *)
LEMMA StartTypes ==
  ASSUME TypeOK, DiskSound, Start
  PROVE  TypeOK'
<1> USE DEF TripletIds
<1>1. CASE ScanLocalFS
  <2>1. \A ids \in SUBSET TripletIds : SizeOf(ids) \in Int
    BY SizeOfType
  <2> QED
    BY <1>1, <2>1 DEF ScanLocalFS, TypeOK, diskVars, cacheVars
<1>2. CASE DeletePending
  BY <1>2, DeleteWhereType DEF DeletePending, DeleteAllPendingFileInDB, TypeOK, diskVars, cacheVars
<1>3. CASE DeletePendingFails
  BY <1>3, FailsType DEF DeletePendingFails, TypeOK, diskVars, cacheVars
<1>4. CASE ListOwners
  <2>1. ListTripleIdOfAllFiles(table) \subseteq TripletIds
    BY RowFields DEF TypeOK, ListTripleIdOfAllFiles, FilesTables
  <2> QED
    BY <1>4, <2>1 DEF ListOwners, TypeOK, diskVars, cacheVars
<1>5. CASE ListOwnersFatal
  BY <1>5, FailsType, DieType DEF ListOwnersFatal, TypeOK, diskVars
<1>6. CASE OrphansGone
  BY <1>6 DEF OrphansGone, TypeOK, diskVars, cacheVars
<1>7. CASE Serve
  BY <1>7 DEF Serve, TypeOK, diskVars, cacheVars
<1>8. ASSUME NEW t \in TripletIds, DeleteOrphan(t)
      PROVE  TypeOK'
  <2>1. TripletSize(t) \in Nat
    BY SizeOfType
  <2> QED
    BY <1>8, <2>1, FileFields DEF DeleteOrphan, DeleteTripletFilesOnDisk, TypeOK, cacheVars
<1>9. ASSUME NEW t \in TripletIds, KillInDeleteOrphan(t)
      PROVE  TypeOK'
  <2>1. /\ idx' \in [TripletIds -> Idxs] /\ mf' \in [TripletIds -> Mfs]
        /\ bin' \in [TripletIds -> Bins]
    BY <1>9, FileFields DEF KillInDeleteOrphan, RemovalCutShort, TypeOK
  <2> QED
    BY <1>9, <2>1, FailsType, DieType DEF KillInDeleteOrphan
<1>10. ASSUME NEW t \in TripletIds, LoadTriplet(t)
       PROVE  TypeOK'
  <2> DEFINE new == Created("open")
             loaded == IF idx[t].st = "none" THEN new.idx ELSE idx[t]
             manifest == IF mf[t].st = "none" THEN new.mf ELSE mf[t]
  <2>1. TripletSize(t) \in Nat
    BY SizeOfType
  <2>2. new.idx \in Idxs /\ new.mf \in Mfs /\ new.idx.state = "open"
    BY FileFields DEF Created, NoIdx
  <2>3. bin[t].size \in Nat
    <3>1. bin[t] \in Bins
      BY DEF TypeOK
    <3> QED
      BY <3>1, FileFields
  <2>4. loaded \in Idxs /\ (loaded.state = "large" => t \in Triplets)
    <3>1. idx[t] \in Idxs
      BY DEF TypeOK
    <3>2. idx[t].state = "large" => t \in Triplets
      BY DEF DiskSound
    <3> QED
      BY <2>2, <3>1, <3>2
  <2>5. manifest \in Mfs
    BY <2>2 DEF TypeOK
  <2>6. /\ idx' = [idx EXCEPT ![t] = loaded] /\ mf' = [mf EXCEPT ![t] = manifest]
        /\ curOff' = [curOff EXCEPT ![t] = bin[t].size]
        /\ open' \in {open, open \cup {t}} /\ closed' \in {closed, closed \cup {t}}
        /\ large' \in {large, IF loaded.state = "large" THEN large \cup {t} ELSE large}
        /\ todo' = todo \ {t}
        /\ UNCHANGED <<table, bin, at, owners, total, job, closing, puts, kills>>
    BY <1>10 DEF LoadTriplet, LoadAs
  <2>7. drift' \in Nat
    BY <1>10, <2>1 DEF LoadTriplet, LoadAs, TypeOK
  <2> HIDE DEF new, loaded, manifest
  <2> QED
    BY <2>3, <2>4, <2>5, <2>6, <2>7 DEF TypeOK
<1>11. ASSUME NEW t \in TripletIds, LoadPanics(t)
       PROVE  TypeOK'
  BY <1>11, DieType DEF LoadPanics, TypeOK, diskVars
<1>12. ASSUME NEW t \in TripletIds, ServeWithNewTriplet(t)
       PROVE  TypeOK'
  BY <1>12, FileFields DEF ServeWithNewTriplet, CreateTriplets, EmptyTripletSize, TypeOK
<1>13. ASSUME NEW t \in TripletIds, KillInLoad(t)
       PROVE  TypeOK'
  <2>1. idx' \in [TripletIds -> Idxs] /\ mf' \in [TripletIds -> Mfs]
    BY <1>13, HalfCreatedType DEF KillInLoad
  <2> QED
    BY <1>13, <2>1, FailsType, DieType DEF KillInLoad, TypeOK
<1> QED
  BY <1>1, <1>2, <1>3, <1>4, <1>5, <1>6, <1>7, <1>8, <1>9, <1>10, <1>11, <1>12, <1>13 DEF Start

(* What the steps of a Put rely on. *)
LEMMA JobTypes ==
  ASSUME TypeOK, NEW w \in Writers
  PROVE  /\ job[w] \in Jobs /\ job[w].len \in Nat /\ job[w].tri \in TripletIds
         /\ job[w].off \in Nat /\ job[w].grown \in Nat /\ job[w].blob \in Versions
         /\ GetPayloadSize(job[w].len) \in Nat /\ MaxAllocSize(job[w].len) \in Nat
<1>1. job[w] \in Jobs
  BY DEF TypeOK
<1>2. /\ job[w].len \in Lengths \cup {0} /\ job[w].tri \in TripletIds
      /\ job[w].off \in Nat /\ job[w].grown \in Nat /\ job[w].blob \in Versions
  BY <1>1, JobFields
<1>3. job[w].len \in Nat
  <2>1. \A len \in Lengths \cup {0} : len \in Nat
    OBVIOUS
  <2> QED
    BY <1>2, <2>1
<1> QED
  BY <1>1, <1>2, <1>3, BoundNat

(* GiveUpPut. *)
LEMMA GiveUpType ==
  ASSUME TypeOK, NEW w \in Writers, GiveUpPut(w)
  PROVE  total' \in Int /\ drift' \in Nat /\ job' \in [Writers -> Jobs]
<1>1. [job[w] EXCEPT !.pc = "rollback"] \in Jobs
  BY JobTypes, JobFields
<1>2. job' = [job EXCEPT ![w] = [job[w] EXCEPT !.pc = "rollback"]]
  BY DEF GiveUpPut, TypeOK
<1> QED
  BY <1>1, <1>2, JobTypes DEF GiveUpPut, TypeOK

(* PhyBH.Put. *)
LEMMA PutTypes ==
  ASSUME TypeOK, DiskSound, JobsSound, NEW w \in Writers, Put(w)
  PROVE  TypeOK'
<1> USE DEF OnlyJobs, diskVars, cacheVars
<1>0. /\ job[w] \in Jobs /\ job[w].len \in Nat /\ job[w].tri \in TripletIds
      /\ job[w].off \in Nat /\ job[w].grown \in Nat /\ job[w].blob \in Versions
      /\ GetPayloadSize(job[w].len) \in Nat /\ MaxAllocSize(job[w].len) \in Nat
  BY JobTypes
<1> DEFINE t == job[w].tri
<1>T. /\ idx[t] \in Idxs /\ mf[t] \in Mfs /\ bin[t] \in Bins /\ curOff[t] \in Nat
      /\ job \in [Writers -> Jobs]
  BY <1>0 DEF TypeOK
<1>F. job[w].pc # "idle" => job[w].file \in Files /\ job[w].len \in Lengths
  BY DEF JobsSound, JobSound
<1>1. CASE Reserve(w)
  <2>1. [job[w] EXCEPT !.pc = "pick"] \in Jobs
    BY <1>0, JobFields
  <2>2. job' = [job EXCEPT ![w] = [job[w] EXCEPT !.pc = "pick"]]
    BY <1>1, <1>T DEF Reserve
  <2> QED
    BY <1>0, <1>1, <2>1, <2>2 DEF Reserve, TypeOK
<1>2. CASE CacheFull(w)
  <2>1. [job[w] EXCEPT !.pc = "rollback"] \in Jobs
    BY ZenonT(60), <1>0, JobFields
  <2>2. job' = [job EXCEPT ![w] = [job[w] EXCEPT !.pc = "rollback"]]
    BY <1>2, <1>T DEF CacheFull
  <2> QED
    BY <1>2, <2>1, <2>2 DEF CacheFull, TypeOK
<1>3. CASE RollbackFileInDB(w)
  <2>1. table' \in FilesTables
    BY <1>3, DeleteWhereType DEF RollbackFileInDB, DeletePendingFileWithFIdInDB, TypeOK
  <2> QED
    BY <1>3, <2>1, JobFields DEF RollbackFileInDB, TypeOK
<1>4. CASE PickOpen(w)
  <2>1. PICK s \in open : job' = [job EXCEPT ![w].pc = "bin", ![w].tri = s]
    BY <1>4 DEF PickOpen
  <2>2. s \in TripletIds
    BY DEF TypeOK
  <2>3. [job[w] EXCEPT !.pc = "bin", !.tri = s] \in Jobs
    BY <1>0, <2>2, JobFields
  <2>4. job' = [job EXCEPT ![w] = [job[w] EXCEPT !.pc = "bin", !.tri = s]]
    BY <2>1, <1>T
  <2> QED
    BY <1>4, <2>3, <2>4 DEF PickOpen, TypeOK
<1>5. ASSUME NEW s \in Triplets, PickLarge(w, s)
      PROVE  TypeOK'
  <2>1. [job[w] EXCEPT !.pc = "bin", !.tri = s, !.grown = EmptyTripletSize] \in Jobs
    <3>1. s \in TripletIds /\ EmptyTripletSize \in Nat
      BY DEF TripletIds, EmptyTripletSize
    <3> QED
      BY <1>0, <3>1, JobFields
  <2>2. job' = [job EXCEPT ![w] = [job[w] EXCEPT !.pc = "bin", !.tri = s,
                                                  !.grown = EmptyTripletSize]]
    BY <1>5, <1>T DEF PickLarge
  <2>3. /\ idx' \in [TripletIds -> Idxs] /\ mf' \in [TripletIds -> Mfs]
        /\ curOff' \in [TripletIds -> Nat] /\ bin' = bin
    BY <1>5, FileFields DEF PickLarge, CreateTriplets, TypeOK
  <2> QED
    BY <1>5, <2>1, <2>2, <2>3 DEF PickLarge, TypeOK
<1>6. CASE PutBin(w)
  <2> DEFINE size == GetPayloadSize(job[w].len)
             grown == [size |-> bin[t].size + size,
                       blobs |-> bin[t].blobs \cup {[blob |-> job[w].blob,
                                      off |-> bin[t].size, len |-> job[w].len]}]
             sofar == job[w].grown + size
             next == [job[w] EXCEPT !.pc = "idx", !.off = curOff[t], !.grown = sofar]
  <2>1. job[w].len \in Lengths
    BY <1>6, <1>F DEF PutBin
  <2>2. bin[t].size \in Nat /\ bin[t].blobs \in SUBSET [blob : Versions, off : Nat, len : Lengths]
    BY <1>T, FileFields
  <2>3. grown \in Bins
    BY <1>0, <2>1, <2>2 DEF Bins
  <2>4. bin' = [bin EXCEPT ![t] = grown]
    BY <1>6, <1>T DEF PutBin, TypeOK
  <2>5. next \in Jobs
    <3>1. sofar \in Nat
      BY <1>0
    <3> HIDE DEF sofar
    <3> QED
      BY ZenonT(60), <1>0, <1>T, <3>1, JobFields
  <2>6. job' = [job EXCEPT ![w] = next]
    BY <1>6, <1>T DEF PutBin
  <2>7. curOff' \in [TripletIds -> Nat]
    BY <1>0, <1>6 DEF PutBin, TypeOK
  <2>8. UNCHANGED <<table, idx, mf, at, todo, owners, open, closed, large, total, closing,
                    puts, kills, drift>>
    BY <1>6 DEF PutBin
  <2> HIDE DEF grown, next, t
  <2>9. bin' \in [TripletIds -> Bins] /\ job' \in [Writers -> Jobs]
    BY <2>3, <2>4, <2>5, <2>6 DEF TypeOK
  <2> QED
    BY <2>7, <2>8, <2>9 DEF TypeOK
<1>7. CASE TornPutBin(w)
  <2>1. [bin[t] EXCEPT !.size = @ + 1] \in Bins
    BY <1>T, FileFields
  <2>2. bin' = [bin EXCEPT ![t] = [bin[t] EXCEPT !.size = @ + 1]]
    BY <1>7 DEF TornPutBin, TypeOK
  <2> QED
    BY ZenonT(60), <1>7, <2>1, <2>2, FailsType, DieType DEF TornPutBin, TypeOK
<1>8. CASE PutIdx(w)
  <2> DEFINE grown == job[w].grown + Growth(Cardinality(idx[t].entries), K_index_entry_len)
  <2>1. [idx[t] EXCEPT !.entries = @ \cup {[blob |-> job[w].blob, off |-> job[w].off]}] \in Idxs
    BY <1>0, <1>T, FileFields
  <2>2. idx' = [idx EXCEPT ![t] = [idx[t] EXCEPT
                  !.entries = @ \cup {[blob |-> job[w].blob, off |-> job[w].off]}]]
    BY <1>8 DEF PutIdx, TypeOK
  <2>3. grown \in Nat
    <3>1. Cardinality(idx[t].entries) \in Nat
      BY <1>0, FS_CardinalityType DEF DiskSound
    <3>2. Growth(Cardinality(idx[t].entries), K_index_entry_len) \in Nat
      BY <3>1, GrowthNat
    <3> QED
      BY <1>0, <3>2
  <2> HIDE DEF grown
  <2>4. [job[w] EXCEPT !.pc = "mf", !.grown = grown] \in Jobs
    BY ZenonT(60), <1>0, <2>3, JobFields
  <2>5. job' = [job EXCEPT ![w] = [job[w] EXCEPT !.pc = "mf", !.grown = grown]]
    BY <1>8, <1>T DEF PutIdx, grown
  <2>6. UNCHANGED <<table, mf, bin, at, todo, owners, open, closed, large, curOff, total,
                    closing, puts, kills, drift>>
    BY <1>8 DEF PutIdx
  <2>7. idx' \in [TripletIds -> Idxs] /\ job' \in [Writers -> Jobs]
    BY <2>1, <2>2, <2>4, <2>5 DEF TypeOK
  <2> QED
    BY <2>6, <2>7 DEF TypeOK
<1>9. CASE PutIdxFails(w)
  <2>1. idx' \in [TripletIds -> Idxs]
    BY <1>9, <1>T, FileFields DEF PutIdxFails, TypeOK
  <2> QED
    BY <1>9, <2>1, GiveUpType, FailsType DEF PutIdxFails, TypeOK
<1>10. CASE PutMf(w)
  <2>1. mf' \in [TripletIds -> Mfs]
    BY <1>10, <1>T, FileFields DEF PutMf, TypeOK
  <2>2. total' \in Int
    <3>1. mf[t].n \in Nat
      BY <1>T, FileFields
    <3>2. Growth(mf[t].n, K_mf_entry_len) \in Nat
      BY <3>1, GrowthNat
    <3> QED
      BY <1>0, <1>10, <3>2 DEF PutMf, TypeOK
  <2>3. [job[w] EXCEPT !.pc = "seal"] \in Jobs
    BY <1>0, JobFields
  <2>4. job' = [job EXCEPT ![w] = [job[w] EXCEPT !.pc = "seal"]]
    BY <1>10, <1>T DEF PutMf
  <2> QED
    BY <1>10, <2>1, <2>2, <2>3, <2>4 DEF PutMf, TypeOK
<1>11. CASE PutMfFails(w)
  <2>1. mf' \in [TripletIds -> Mfs]
    BY <1>11, <1>T, FileFields DEF PutMfFails, TypeOK
  <2> QED
    BY <1>11, <2>1, GiveUpType, FailsType DEF PutMfFails, TypeOK
<1>12. CASE SealFileAtCache(w)
  <2>1. table' \in FilesTables
    BY <1>0, <1>12, <1>F, CommitType DEF SealFileAtCache, TypeOK
  <2> QED
    BY <1>12, <2>1, JobFields DEF SealFileAtCache, TypeOK
<1>13. CASE SealPanics(w)
  BY <1>13, DieType DEF SealPanics, TypeOK
<1> HIDE DEF t
<1> QED
  BY <1>1, <1>2, <1>3, <1>4, <1>5, <1>6, <1>7, <1>8, <1>9, <1>10, <1>11, <1>12, <1>13 DEF Put

(* A Put after a purge makes a binary file, and touches nothing that the
   process or the other triplets have. *)
LEMMA StrayBin ==
  ASSUME TypeOK, NEW t \in Triplets, AppendAfterPurge(t)
  PROVE  /\ bin' \in [TripletIds -> Bins] /\ puts' \in Versions /\ puts' = puts + 1
         /\ t \in TripletIds /\ idx[t].st = "none" /\ at = "up" /\ Stray(t)'
         /\ \A s \in TripletIds \ {t} : bin'[s] = bin[s]
         /\ UNCHANGED <<table, idx, mf, at, todo, owners, open, closed, large, curOff, total,
                        job, closing, kills, drift>>
<1>1. PICK len \in Lengths :
        bin' = [bin EXCEPT ![t] = [size |-> GetPayloadSize(len),
                                   blobs |-> {[blob |-> 0, off |-> 0, len |-> len]}]]
  BY DEF AppendAfterPurge
<1>2. len \in Nat /\ GetPayloadSize(len) \in Nat /\ 0 \in Versions /\ t \in TripletIds
  BY PayloadNat DEF Versions, TripletIds
<1>3. [size |-> GetPayloadSize(len), blobs |-> {[blob |-> 0, off |-> 0, len |-> len]}] \in Bins
  BY <1>2 DEF Bins
<1>4. bin'[t].blobs = {[blob |-> 0, off |-> 0, len |-> len]}
  BY <1>1, <1>2 DEF TypeOK
<1>5. puts' = puts + 1 /\ puts' \in Versions
  BY DEF AppendAfterPurge, TypeOK, Versions
<1>6. idx[t].st = "none"
  BY DEF AppendAfterPurge, Fresh, NoIdx
<1>7. Stray(t)'
  BY <1>4 DEF Stray
<1>8. bin' \in [TripletIds -> Bins] /\ \A s \in TripletIds \ {t} : bin'[s] = bin[s]
  BY <1>1, <1>3 DEF TypeOK
<1> QED
  BY <1>2, <1>5, <1>6, <1>7, <1>8 DEF AppendAfterPurge, cacheVars

(* The initial state, and every step. *)
LEMMA TypeStep ==
  /\ Init => TypeOK
  /\ FilesInv /\ [Next]_vars => TypeOK'
<1>1. ASSUME Init
      PROVE  TypeOK
  <2>1. /\ NoIdx \in Idxs /\ NoMf \in Mfs /\ NoBin \in Bins /\ IdleJob \in Jobs
        /\ EmptyTable \in FilesTables /\ 0 \in Versions /\ 0 \in 0..MaxKills
    <3>1. 0 \in Versions /\ 0 \in 0..MaxKills
      BY DEF Versions
    <3> QED
      BY <3>1, FileFields, JobFields, EmptyTableType
  <2> QED
    BY <1>1, <2>1 DEF Init, TypeOK
<1> SUFFICES ASSUME FilesInv, [Next]_vars
             PROVE  TypeOK'
  BY <1>1
<1> USE DEF FilesInv
<1>2. CASE Start
  BY <1>2, StartTypes
<1>3. CASE Kill
  BY <1>3, DieType, FailsType DEF Kill, diskVars, TypeOK
<1>4. ASSUME NEW f \in Files, Request(f)
      PROVE  TypeOK'
  <2>1. table' \in FilesTables
    BY <1>4, CreateType DEF Request, TypeOK, Versions
  <2> QED
    BY <1>4, <2>1 DEF Request, OnlyJobs, diskVars, cacheVars, TypeOK
<1>5. ASSUME NEW w \in Writers, NEW f \in Files, StartPut(w, f)
      PROVE  TypeOK'
  <2>1. PICK len \in Lengths :
          job' = [job EXCEPT ![w] = [IdleJob EXCEPT !.pc = "reserve", !.file = f,
                                                    !.blob = puts + 1, !.len = len]]
    BY <1>5 DEF StartPut
  <2>2. puts + 1 \in Versions
    BY <1>5 DEF StartPut, TypeOK, Versions
  <2>3. [IdleJob EXCEPT !.pc = "reserve", !.file = f, !.blob = puts + 1, !.len = len] \in Jobs
    BY <2>2, JobFields
  <2> QED
    BY <1>5, <2>1, <2>2, <2>3 DEF StartPut, OnlyJobs, diskVars, cacheVars, TypeOK
<1>6. ASSUME NEW w \in Writers, Put(w)
      PROVE  TypeOK'
  BY <1>6, PutTypes
<1>7. CASE OpenReplacements
  <2>1. PICK ids \in SUBSET Triplets : CreateTriplets(ids, "open") /\ open' = open \cup ids
    BY <1>7 DEF OpenReplacements
  <2>2. /\ idx' \in [TripletIds -> Idxs] /\ mf' \in [TripletIds -> Mfs]
        /\ curOff' \in [TripletIds -> Nat] /\ bin' = bin
    BY <2>1, FileFields DEF CreateTriplets, TypeOK
  <2>3. Cardinality(Full) * EmptyTripletSize \in Nat /\ Full \subseteq TripletIds
    <3>1. Full \in SUBSET TripletIds
      BY DEF Full, TypeOK
    <3>2. Cardinality(Full) \in Nat
      BY <3>1, IdsFinite, FS_Subset, FS_CardinalityType
    <3> QED
      BY <3>1, <3>2 DEF EmptyTripletSize
  <2> QED
    BY <1>7, <2>1, <2>2, <2>3 DEF OpenReplacements, TypeOK, TripletIds
<1>8. ASSUME NEW t \in TripletIds, CloseTriplet(t)
      PROVE  TypeOK'
  BY <1>8, FileFields DEF CloseTriplet, TypeOK
<1>9. ASSUME NEW t \in Triplets, KillInCreate(t)
      PROVE  TypeOK'
  <2>1. t \in TripletIds
    BY DEF TripletIds
  <2>2. idx' \in [TripletIds -> Idxs] /\ mf' \in [TripletIds -> Mfs]
    BY <1>9, <2>1, HalfCreatedType DEF KillInCreate
  <2> QED
    BY <1>9, <2>2, FailsType, DieType DEF KillInCreate, TypeOK
<1>10. CASE UNCHANGED vars
  BY <1>10 DEF vars, diskVars, cacheVars, TypeOK
<1>11. ASSUME NEW t \in Triplets, AppendAfterPurge(t)
      PROVE  TypeOK'
  <2>1. bin' \in [TripletIds -> Bins] /\ puts' \in Versions
    BY <1>11, StrayBin DEF TypeOK
  <2> QED
    BY <1>11, <2>1 DEF AppendAfterPurge, cacheVars, TypeOK
<1> QED
  BY <1>2, <1>3, <1>4, <1>5, <1>6, <1>7, <1>8, <1>9, <1>10, <1>11 DEF Next

-----------------------------------------------------------------------------
(* The files. *)

(* A triplet with complete files keeps them, and what is in them. *)
Keeps(t) ==
  idx[t].st \in Complete /\ mf[t].st \in Complete =>
    /\ idx'[t].st \in Complete /\ mf'[t].st \in Complete
    /\ idx[t].entries \subseteq idx'[t].entries
    /\ bin[t].blobs \subseteq bin'[t].blobs
    /\ bin[t].size <= bin'[t].size

FileStep(t) ==
  /\ IsFiniteSet(idx'[t].entries)
  /\ idx'[t].st = "none" => bin'[t].size = 0 \/ Stray(t)'
  /\ \A e \in idx'[t].entries : e.blob <= puts'
  /\ t = NoTriplet => /\ idx'[t].state # "large"
                      /\ idx'[t].st = "none" => mf'[t].st = "none"
  /\ Keeps(t) \/ (at = "clean" /\ t \in todo)

(* What has just been created is empty. *)
LEMMA NewFiles ==
  ASSUME NEW state \in {"open", "closed", "large"}
  PROVE  /\ IsFiniteSet({}) /\ IsFiniteSet(NoIdx.entries) /\ NoIdx.entries = {}
         /\ NoIdx.st = "none" /\ NoIdx.state = "open" /\ NoMf.st = "none" /\ NoMf.n = 0
         /\ NoBin.size = 0 /\ NoBin.blobs = {}
         /\ Created(state).idx.st = "ok" /\ Created(state).idx.state = state
         /\ Created(state).idx.entries = {} /\ Created(state).mf.st = "ok"
         /\ Created(state).mf.n = 0
         /\ [NoIdx EXCEPT !.st = "blank", !.state = state].st = "blank"
         /\ [NoIdx EXCEPT !.st = "blank", !.state = state].state = state
         /\ [NoIdx EXCEPT !.st = "blank", !.state = state].entries = {}
<1>1. IsFiniteSet({})
  BY FS_EmptySet
<1>2. /\ NoIdx.entries = {} /\ NoIdx.st = "none" /\ NoIdx.state = "open"
      /\ NoMf.st = "none" /\ NoMf.n = 0 /\ NoBin.size = 0 /\ NoBin.blobs = {}
  BY DEF NoIdx, NoMf, NoBin
<1>3. Created(state).idx = [NoIdx EXCEPT !.st = "ok", !.state = state]
      /\ Created(state).mf = [NoMf EXCEPT !.st = "ok"]
  BY DEF Created
<1>4. ASSUME NEW st \in {"ok", "blank"}
      PROVE  /\ [NoIdx EXCEPT !.st = st, !.state = state].st = st
             /\ [NoIdx EXCEPT !.st = st, !.state = state].state = state
             /\ [NoIdx EXCEPT !.st = st, !.state = state].entries = {}
             /\ [NoMf EXCEPT !.st = st].st = st
             /\ [NoMf EXCEPT !.st = st].n = 0
  BY DEF NoIdx, NoMf
<1> QED
  BY <1>1, <1>2, <1>3, <1>4

(* A triplet whose files are left alone. *)
LEMMA FilesAlone ==
  ASSUME TypeOK, DiskSound, puts' \in {puts, puts + 1}, NEW t \in TripletIds,
         idx'[t] = idx[t], mf'[t] = mf[t], bin'[t] = bin[t]
  PROVE  FileStep(t)
<1>0. Stray(t)' <=> Stray(t)
  BY DEF Stray
<1>1. bin[t].size \in Nat /\ \A e \in idx[t].entries : e.blob \in Nat
  <2>1. bin[t] \in Bins /\ idx[t] \in Idxs
    BY DEF TypeOK
  <2>2. bin[t].size \in Nat /\ idx[t].entries \in SUBSET [blob : Versions, off : Nat]
    BY <2>1, FileFields
  <2>3. \A e \in [blob : Versions, off : Nat] : e.blob \in Nat
    BY DEF Versions
  <2> QED
    BY <2>2, <2>3
<1>2. puts \in Nat
  BY DEF TypeOK, Versions
<1> QED
  BY <1>0, <1>1, <1>2 DEF DiskSound, FileStep, Keeps

(* Creation. *)
LEMMA FilesCreated ==
  ASSUME TypeOK, DiskSound, puts' = puts, NEW ids \in SUBSET Triplets,
         NEW state \in {"open", "large"}, \A t \in ids : Fresh(t), CreateTriplets(ids, state)
  PROVE  \A t \in TripletIds : FileStep(t)
<1> SUFFICES ASSUME NEW t \in TripletIds
             PROVE  FileStep(t)
  OBVIOUS
<1>1. CASE t \in ids
  <2>1. idx'[t] = Created(state).idx /\ mf'[t] = Created(state).mf /\ idx[t] = NoIdx
        /\ t # NoTriplet
    BY <1>1 DEF CreateTriplets, Fresh
  <2> QED
    <3>1. /\ idx'[t].st = "ok" /\ idx'[t].entries = {} /\ IsFiniteSet({})
          /\ idx[t].st = "none"
      BY <2>1, NewFiles
    <3> QED
      BY <2>1, <3>1 DEF FileStep, Keeps, Complete
<1>2. CASE t \notin ids
  BY <1>2, FilesAlone DEF CreateTriplets
<1> QED
  BY <1>1, <1>2

(* A creation cut short. *)
LEMMA FilesHalfCreated ==
  ASSUME TypeOK, DiskSound, puts' = puts, bin' = bin, NEW s \in TripletIds,
         NEW state \in {"open", "large"}, idx[s].st = "none", HalfCreated(s, state),
         s = NoTriplet => state = "open"
  PROVE  \A t \in TripletIds : FileStep(t)
<1> SUFFICES ASSUME NEW t \in TripletIds
             PROVE  FileStep(t)
  OBVIOUS
<1>1. CASE t = s
  <2>1. /\ idx'[t].st \in {"blank", "ok"} /\ idx'[t].state = state /\ idx'[t].entries = {}
    <3>1. idx'[t] \in {[NoIdx EXCEPT !.st = "blank", !.state = state], Created(state).idx}
      BY <1>1 DEF HalfCreated, TypeOK
    <3>2. CASE idx'[t] = [NoIdx EXCEPT !.st = "blank", !.state = state]
      BY <3>2, NewFiles
    <3>3. CASE idx'[t] = Created(state).idx
      BY <3>3, NewFiles
    <3> QED
      BY <3>1, <3>2, <3>3
  <2> QED
    BY <1>1, <2>1, FS_EmptySet DEF FileStep, Keeps, Complete
<1>2. CASE t # s
  <2>1. idx'[t] = idx[t] /\ mf'[t] = mf[t]
    BY <1>2 DEF HalfCreated, TypeOK
  <2> QED
    BY <2>1, FilesAlone
<1> QED
  BY <1>1, <1>2

(* The statements of PhyBH.New. *)
LEMMA StartFiles ==
  ASSUME FilesInv, Start, NEW t \in TripletIds
  PROVE  FileStep(t)
<1> USE DEF FilesInv
<1>1. CASE UNCHANGED <<diskVars, puts>>
  BY <1>1, FilesAlone DEF diskVars
<1>2. CASE \/ ScanLocalFS \/ DeletePending \/ DeletePendingFails \/ ListOwners
           \/ OrphansGone \/ Serve
  BY <1>1, <1>2 DEF ScanLocalFS, DeletePending, DeletePendingFails, ListOwners, OrphansGone, Serve
<1>3. CASE ListOwnersFatal \/ \E s \in TripletIds : LoadPanics(s)
  BY <1>1, <1>3 DEF ListOwnersFatal, LoadPanics, Die
<1>4. ASSUME NEW s \in TripletIds, DeleteOrphan(s)
      PROVE  FileStep(t)
  <2>1. CASE t = s
    <3>1. s # NoTriplet
      BY <1>4, TripletsAssumption DEF DeleteOrphan, PhaseSound, Found
    <3>2. idx'[t] = NoIdx /\ bin'[t] = NoBin /\ at = "clean" /\ t \in todo
      BY <1>4, <2>1 DEF DeleteOrphan, DeleteTripletFilesOnDisk, TypeOK
    <3> QED
      BY <2>1, <3>1, <3>2, FS_EmptySet DEF FileStep, NoIdx, NoBin
  <2>2. CASE t # s
    BY <1>4, <2>2, FilesAlone DEF DeleteOrphan, DeleteTripletFilesOnDisk, TypeOK
  <2> QED
    BY <2>1, <2>2
<1>5. ASSUME NEW s \in TripletIds, KillInDeleteOrphan(s)
      PROVE  FileStep(t)
  <2>0. puts' = puts
    BY <1>5 DEF KillInDeleteOrphan, Die
  <2>1. CASE t = s
    <3>1. s # NoTriplet
      BY <1>5, TripletsAssumption DEF KillInDeleteOrphan, PhaseSound, Found
    <3>2. idx'[t] \in {idx[t], NoIdx} /\ bin'[t] = NoBin /\ at = "clean" /\ t \in todo
      BY <1>5, <2>1 DEF KillInDeleteOrphan, RemovalCutShort, TypeOK
    <3>3. puts \in Int /\ IsFiniteSet(idx'[t].entries)
      BY <3>2, NewFiles DEF TypeOK, Versions, DiskSound
    <3>4. \A e \in idx'[t].entries : e.blob <= puts
      BY <3>2, NewFiles DEF DiskSound
    <3> QED
      BY <2>0, <2>1, <3>1, <3>2, <3>3, <3>4, NewFiles DEF FileStep
  <2>2. CASE t # s
    BY <1>5, <2>0, <2>2, FilesAlone DEF KillInDeleteOrphan, RemovalCutShort, TypeOK
  <2> QED
    BY <2>1, <2>2
<1>6. ASSUME NEW s \in TripletIds, LoadTriplet(s)
      PROVE  FileStep(t)
  <2>0. puts' = puts /\ bin' = bin
    BY <1>6 DEF LoadTriplet, LoadAs
  <2>1. CASE t # s
    BY <1>6, <2>0, <2>1, FilesAlone DEF LoadTriplet, LoadAs, TypeOK
  <2>2. CASE t = s /\ idx[t].st # "none"
    <3>1. idx'[t] = idx[t] /\ (mf'[t] = mf[t] \/ mf[t].st = "none")
      BY <1>6, <2>2 DEF LoadTriplet, LoadAs, TypeOK
    <3>2. CASE mf'[t] = mf[t]
      BY <2>0, <3>1, <3>2, FilesAlone
    <3>3. CASE mf[t].st = "none"
      BY <2>0, <2>2, <3>1, <3>3 DEF FileStep, Keeps, Complete, DiskSound
    <3> QED
      BY <3>1, <3>2, <3>3
  <2>3. CASE t = s /\ idx[t].st = "none"
    <3>1. idx'[t] = Created("open").idx
      BY <1>6, <2>3 DEF LoadTriplet, LoadAs, TypeOK
    <3> QED
      BY <2>0, <2>3, <3>1, FS_EmptySet DEF FileStep, Keeps, Complete, Created, NoIdx
  <2> QED
    BY <2>1, <2>2, <2>3
<1>7. ASSUME NEW s \in TripletIds, ServeWithNewTriplet(s)
      PROVE  FileStep(t)
  <2>1. {s} \in SUBSET Triplets /\ puts' = puts /\ CreateTriplets({s}, "open")
        /\ \A x \in {s} : Fresh(x)
    BY <1>7 DEF ServeWithNewTriplet, Fresh
  <2> QED
    BY <2>1, FilesCreated
<1>8. ASSUME NEW s \in TripletIds, KillInLoad(s)
      PROVE  FileStep(t)
  BY <1>8, FilesHalfCreated DEF KillInLoad, Die
<1> QED
  BY <1>2, <1>3, <1>4, <1>5, <1>6, <1>7, <1>8 DEF Start

(* PhyBH.Put. *)
LEMMA PutFiles ==
  ASSUME FilesInv, NEW w \in Writers, Put(w), NEW t \in TripletIds
  PROVE  FileStep(t)
<1> USE DEF FilesInv
<1>0. /\ job[w].tri \in TripletIds /\ job[w].blob \in Versions /\ job[w].blob <= puts
      /\ GetPayloadSize(job[w].len) \in Nat /\ puts \in Nat
  <2>1. puts \in Nat
    BY DEF TypeOK, Versions
  <2>2. job[w].blob <= puts
    BY DEF JobsSound, JobSound
  <2> QED
    BY <2>1, <2>2, JobTypes
<1>S. /\ bin[t].size \in Nat /\ bin[t] \in Bins /\ idx[t] \in Idxs /\ mf[t] \in Mfs
      /\ idx[t].entries \in SUBSET [blob : Versions, off : Nat]
  BY FileFields DEF TypeOK
<1>L. job[w].pc \in {"bin", "idx", "mf"} =>
        idx[job[w].tri].st \in Complete /\ job[w].tri \in Loaded
  BY DEF JobsSound, JobSound, PlacedSound
<1>1. CASE \/ Reserve(w) \/ CacheFull(w) \/ RollbackFileInDB(w) \/ PickOpen(w)
           \/ SealFileAtCache(w) \/ SealPanics(w)
  <2>1. UNCHANGED <<diskVars, puts>>
    BY <1>1 DEF Reserve, CacheFull, RollbackFileInDB, PickOpen, SealFileAtCache, SealPanics,
                OnlyJobs, Die
  <2> QED
    BY <2>1, FilesAlone DEF diskVars
<1>2. ASSUME NEW s \in Triplets, PickLarge(w, s)
      PROVE  FileStep(t)
  <2>1. {s} \in SUBSET Triplets /\ puts' = puts /\ CreateTriplets({s}, "large")
        /\ \A x \in {s} : Fresh(x)
    BY <1>2 DEF PickLarge
  <2> QED
    BY <2>1, FilesCreated
<1>3. CASE PutBin(w)
  <2>1. idx' = idx /\ mf' = mf /\ puts' = puts
    BY <1>3 DEF PutBin
  <2>2. CASE t # job[w].tri
    BY <1>3, <2>1, <2>2, FilesAlone DEF PutBin, TypeOK
  <2>3. CASE t = job[w].tri
    <3>1. /\ bin'[t].size = bin[t].size + GetPayloadSize(job[w].len)
          /\ bin[t].blobs \subseteq bin'[t].blobs
      BY <1>3, <2>3 DEF PutBin, TypeOK
    <3>2. idx[t].st \in Complete
      BY <1>3, <1>L, <2>3 DEF PutBin
    <3> QED
      BY <1>0, <1>S, <2>1, <3>1, <3>2 DEF FileStep, Keeps, DiskSound, Complete
  <2> QED
    BY <2>2, <2>3
<1>4. CASE TornPutBin(w)
  <2>1. idx' = idx /\ mf' = mf /\ puts' = puts
    BY <1>4 DEF TornPutBin, Die
  <2>2. CASE t # job[w].tri
    BY <1>4, <2>1, <2>2, FilesAlone DEF TornPutBin, TypeOK
  <2>3. CASE t = job[w].tri
    <3>1. /\ bin'[t].size = bin[t].size + 1 /\ bin'[t].blobs = bin[t].blobs
      <4>1. bin'[t] = [bin[t] EXCEPT !.size = @ + 1]
        BY <1>4, <2>3 DEF TornPutBin, TypeOK
      <4>2. \A x \in Bins : [x EXCEPT !.size = @ + 1].size = x.size + 1
                            /\ [x EXCEPT !.size = @ + 1].blobs = x.blobs
        BY DEF Bins
      <4> QED
        BY <1>S, <4>1, <4>2
    <3>2. idx[t].st \in Complete
      BY <1>4, <1>L, <2>3 DEF TornPutBin
    <3> QED
      BY <1>0, <1>S, <2>1, <3>1, <3>2 DEF FileStep, Keeps, DiskSound, Complete
  <2> QED
    BY <2>2, <2>3
<1>5. CASE PutIdx(w)
  <2>1. bin' = bin /\ mf' = mf /\ puts' = puts
    BY <1>5 DEF PutIdx
  <2>2. CASE t # job[w].tri
    BY <1>5, <2>1, <2>2, FilesAlone DEF PutIdx, TypeOK
  <2>3. CASE t = job[w].tri
    <3> DEFINE e == [blob |-> job[w].blob, off |-> job[w].off]
    <3>1. /\ idx'[t].st = idx[t].st /\ idx'[t].state = idx[t].state
          /\ idx'[t].entries = idx[t].entries \cup {e}
      <4>1. idx'[t] = [idx[t] EXCEPT !.entries = @ \cup {e}]
        BY <1>5, <2>3 DEF PutIdx, TypeOK
      <4>2. \A x \in Idxs : \A d : /\ [x EXCEPT !.entries = @ \cup {d}].st = x.st
                                   /\ [x EXCEPT !.entries = @ \cup {d}].state = x.state
                                   /\ [x EXCEPT !.entries = @ \cup {d}].entries = x.entries \cup {d}
        BY DEF Idxs
      <4> HIDE DEF e
      <4> QED
        BY <1>S, <4>1, <4>2
    <3>3. e.blob <= puts
      BY <1>0
    <3> HIDE DEF e
    <3>2. IsFiniteSet(idx'[t].entries)
      <4>1. IsFiniteSet(idx[t].entries)
        BY DEF DiskSound
      <4>2. IsFiniteSet(idx[t].entries \cup {e})
        BY <4>1, FS_AddElement
      <4> QED
        BY <3>1, <4>2
    <3> QED
      BY <1>0, <1>S, <2>1, <3>1, <3>2, <3>3 DEF FileStep, Keeps, DiskSound, Stray
  <2> QED
    BY <2>2, <2>3
<1>6. CASE PutIdxFails(w)
  <2>1. bin' = bin /\ mf' = mf /\ puts' = puts
    BY <1>6 DEF PutIdxFails
  <2>2. CASE t # job[w].tri
    BY <1>6, <2>1, <2>2, FilesAlone DEF PutIdxFails, TypeOK
  <2>3. CASE t = job[w].tri
    <3>1. /\ idx'[t].st = "broken" /\ idx'[t].state = idx[t].state
          /\ idx'[t].entries = idx[t].entries
      <4>1. idx'[t] = [idx[t] EXCEPT !.st = "broken"]
        BY <1>6, <2>3 DEF PutIdxFails, TypeOK
      <4>2. \A x \in Idxs : /\ [x EXCEPT !.st = "broken"].st = "broken"
                            /\ [x EXCEPT !.st = "broken"].state = x.state
                            /\ [x EXCEPT !.st = "broken"].entries = x.entries
        BY DEF Idxs
      <4> QED
        BY <1>S, <4>1, <4>2
    <3> QED
      BY <1>0, <1>S, <2>1, <3>1 DEF FileStep, Keeps, DiskSound, Complete
  <2> QED
    BY <2>2, <2>3
<1>7. CASE PutMf(w) \/ PutMfFails(w)
  <2>1. bin' = bin /\ idx' = idx /\ puts' = puts
    BY <1>7 DEF PutMf, PutMfFails
  <2>2. CASE t # job[w].tri
    BY <1>7, <2>1, <2>2, FilesAlone DEF PutMf, PutMfFails, TypeOK
  <2>3. CASE t = job[w].tri
    <3>1. mf'[t].st \in {mf[t].st, "broken"}
      <4>1. mf'[t] \in {[mf[t] EXCEPT !.st = "broken"], [mf[t] EXCEPT !.n = @ + 1]}
        BY <1>7, <2>3 DEF PutMf, PutMfFails, TypeOK
      <4>2. \A x \in Mfs : /\ [x EXCEPT !.st = "broken"].st = "broken"
                           /\ [x EXCEPT !.n = @ + 1].st = x.st
        BY DEF Mfs
      <4> QED
        BY <1>S, <4>1, <4>2
    <3>2. idx[t].st \in Complete
      BY <1>7, <1>L, <2>3 DEF PutMf, PutMfFails
    <3> QED
      BY <1>0, <1>S, <2>1, <3>1, <3>2 DEF FileStep, Keeps, DiskSound, Complete
  <2> QED
    BY <2>2, <2>3
<1> QED
  BY <1>1, <1>2, <1>3, <1>4, <1>5, <1>6, <1>7 DEF Put

(* Every step. *)
LEMMA FilesKept ==
  ASSUME FilesInv, [Next]_vars
  PROVE  \A t \in TripletIds : FileStep(t)
<1> USE DEF FilesInv
<1> SUFFICES ASSUME NEW t \in TripletIds
             PROVE  FileStep(t)
  OBVIOUS
<1>1. CASE UNCHANGED diskVars /\ puts' \in {puts, puts + 1}
  BY <1>1, FilesAlone DEF diskVars
<1>2. CASE \/ Kill \/ (\E f \in Files : Request(f))
           \/ (\E w \in Writers, f \in Files : StartPut(w, f)) \/ UNCHANGED vars
  BY <1>1, <1>2 DEF Kill, Die, Request, StartPut, OnlyJobs, vars
<1>3. CASE Start
  BY <1>3, StartFiles
<1>4. ASSUME NEW w \in Writers, Put(w)
      PROVE  FileStep(t)
  BY <1>4, PutFiles
<1>5. CASE OpenReplacements
  BY <1>5, FilesCreated DEF OpenReplacements
<1>6. ASSUME NEW s \in TripletIds, CloseTriplet(s)
      PROVE  FileStep(t)
  <2>1. bin' = bin /\ mf' = mf /\ puts' = puts
    BY <1>6 DEF CloseTriplet
  <2>2. CASE t # s
    BY <1>6, <2>1, <2>2, FilesAlone DEF CloseTriplet, TypeOK
  <2>3. CASE t = s
    <3>1. idx'[t] = [idx[t] EXCEPT !.state = "closed"] /\ idx[t] \in Idxs /\ bin[t] \in Bins
          /\ puts \in Nat
      BY <1>6, <2>3 DEF CloseTriplet, TypeOK, Versions
    <3>2. \A x \in Idxs : /\ [x EXCEPT !.state = "closed"].st = x.st
                          /\ [x EXCEPT !.state = "closed"].state = "closed"
                          /\ [x EXCEPT !.state = "closed"].entries = x.entries
      BY DEF Idxs
    <3>3. /\ idx'[t].st = idx[t].st /\ idx'[t].state = "closed"
          /\ idx'[t].entries = idx[t].entries
      BY <3>1, <3>2
    <3>4. bin[t].size \in Nat
      BY <3>1, FileFields
    <3> QED
      BY <2>1, <3>1, <3>3, <3>4 DEF FileStep, Keeps, DiskSound, Stray
  <2> QED
    BY <2>2, <2>3
<1>7. ASSUME NEW s \in Triplets, KillInCreate(s)
      PROVE  FileStep(t)
  <2>1. PICK state \in {"open", "large"} : HalfCreated(s, state)
    BY <1>7 DEF KillInCreate
  <2>2. s \in TripletIds /\ s # NoTriplet /\ idx[s].st = "none" /\ puts' = puts /\ bin' = bin
    BY <1>7, NewFiles DEF KillInCreate, Fresh, Die, TripletIds
  <2> QED
    BY <2>1, <2>2, FilesHalfCreated
<1>8. ASSUME NEW s \in Triplets, AppendAfterPurge(s)
      PROVE  FileStep(t)
  <2>1. /\ idx'[t] = idx[t] /\ mf'[t] = mf[t] /\ puts' = puts + 1
        /\ idx[s].st = "none" /\ s # NoTriplet
    BY <1>8, StrayBin
  <2>2. CASE t = s
    <3>1. Stray(t)' /\ \A e \in idx[t].entries : e.blob \in Nat
      <4>1. idx[t] \in Idxs
        BY DEF TypeOK
      <4>2. idx[t].entries \in SUBSET [blob : Versions, off : Nat]
        BY <4>1, FileFields
      <4> QED
        BY <1>8, <2>2, <4>2, StrayBin DEF Versions
    <3> QED
      BY <2>1, <2>2, <3>1 DEF FileStep, Keeps, Complete, DiskSound, TypeOK, Versions
  <2>3. CASE t # s
    BY <1>8, <2>1, <2>3, StrayBin, FilesAlone
  <2> QED
    BY <2>2, <2>3
<1> QED
  BY <1>2, <1>3, <1>4, <1>5, <1>6, <1>7, <1>8 DEF Next

-----------------------------------------------------------------------------
(* The rows. *)

(* What a step leaves in a row. *)
RowStep(f) ==
  \/ table'[f] = table[f]
  \/ table'[f].state = "absent"
  \/ table'[f].state = "pending" /\ table'[f].owner = NoTriplet
  \/ \E w \in Writers : /\ job[w].pc = "seal" /\ job[w].tri # NoTriplet /\ UNCHANGED diskVars
                        /\ table'[f].owner = job[w].tri /\ table'[f].tri = job[w].tri
                        /\ table'[f].ver = job[w].blob /\ table'[f].state = "ready"

(* Every step leaves one of these in a row. *)
LEMMA RowSteps ==
  ASSUME FilesInv, [Next]_vars, NEW f \in Files
  PROVE  RowStep(f)
<1> USE DEF FilesInv
<1>1. CASE UNCHANGED table
  BY <1>1 DEF RowStep
<1>D. ASSUME NEW gone, table' = DeleteWhere(table, gone)
      PROVE  RowStep(f)
  BY <1>D DEF RowStep, DeleteWhere, NoRow
<1>2. CASE Start
  <2>1. CASE DeletePending
    BY <1>D, <2>1 DEF DeletePending, DeleteAllPendingFileInDB
  <2>2. CASE ~DeletePending
    BY <1>1, <1>2, <2>2
    DEF Start, ScanLocalFS, DeletePendingFails, ListOwners, ListOwnersFatal, OrphansGone, Serve,
        DeleteOrphan, KillInDeleteOrphan, LoadTriplet, LoadAs, LoadPanics, ServeWithNewTriplet,
        KillInLoad, Die
  <2> QED
    BY <2>1, <2>2
<1>3. CASE \/ Kill \/ (\E w \in Writers, g \in Files : StartPut(w, g)) \/ UNCHANGED vars
           \/ OpenReplacements \/ (\E t \in TripletIds : CloseTriplet(t))
           \/ (\E t \in Triplets : KillInCreate(t) \/ AppendAfterPurge(t))
  BY <1>1, <1>3
  DEF Kill, Die, StartPut, vars, OpenReplacements, CloseTriplet, KillInCreate, AppendAfterPurge
<1>4. ASSUME NEW g \in Files, Request(g)
      PROVE  RowStep(f)
  <2>1. table' = [table EXCEPT ![g] = [NoRow EXCEPT !.state = "pending", !.etag = 0]]
    BY <1>4 DEF Request, CreateFileWithFidInDB
  <2>2. [NoRow EXCEPT !.state = "pending", !.etag = 0].state = "pending"
        /\ [NoRow EXCEPT !.state = "pending", !.etag = 0].owner = NoTriplet
    BY DEF NoRow
  <2> QED
    BY <2>1, <2>2 DEF RowStep, TypeOK, FilesTables
<1>5. ASSUME NEW w \in Writers, Put(w)
      PROVE  RowStep(f)
  <2>1. CASE RollbackFileInDB(w)
    BY <1>D, <2>1 DEF RollbackFileInDB, DeletePendingFileWithFIdInDB
  <2>2. CASE SealFileAtCache(w)
    <3> DEFINE g == job[w].file
               row == [table[g] EXCEPT !.state = "ready", !.owner = job[w].tri,
                                       !.tri = job[w].tri, !.ver = job[w].blob]
    <3>1. table' \in {table, [table EXCEPT ![g] = row]}
      BY <2>2 DEF SealFileAtCache, CommitCacheFileInDB, TypeOK, FilesTables
    <3>2. f = g => /\ row.state = "ready" /\ row.owner = job[w].tri
                   /\ row.tri = job[w].tri /\ row.ver = job[w].blob
      <4>1. \A r \in Row : \A t, b :
              LET new == [r EXCEPT !.state = "ready", !.owner = t, !.tri = t, !.ver = b]
              IN  new.state = "ready" /\ new.owner = t /\ new.tri = t /\ new.ver = b
        BY DEF Row
      <4>2. f = g => table[g] \in Row
        BY DEF TypeOK, FilesTables
      <4> QED
        BY <4>1, <4>2
    <3>3. UNCHANGED diskVars /\ job[w].pc = "seal" /\ job[w].tri # NoTriplet
      BY <2>2 DEF SealFileAtCache, OnlyJobs
    <3> HIDE DEF g, row
    <3>4. table'[f] = table[f] \/ (f = g /\ table'[f] = row)
      BY <3>1 DEF TypeOK, FilesTables
    <3> QED
      BY <3>2, <3>3, <3>4 DEF RowStep
  <2>3. CASE ~RollbackFileInDB(w) /\ ~SealFileAtCache(w)
    BY <1>1, <1>5, <2>3
    DEF Put, Reserve, CacheFull, PickOpen, PickLarge, PutBin, TornPutBin, PutIdx, PutIdxFails,
        PutMf, PutMfFails, SealPanics, Die
  <2> QED
    BY <2>1, <2>2, <2>3
<1> QED
  BY <1>2, <1>3, <1>4, <1>5 DEF Next

(* A row whose triplet keeps its files is backed after the step as before it. *)
LEMMA RowStays ==
  ASSUME FilesInv, [Next]_vars
  PROVE  \A row \in Row : RowBacked(row) /\ (row.state = "ready" => Keeps(row.tri))
                            => RowBacked(row)'
<1> SUFFICES ASSUME NEW row \in Row, RowBacked(row), row.state = "ready" => Keeps(row.tri)
             PROVE  RowBacked(row)'
  OBVIOUS
<1>1. CASE row.state # "ready"
  BY <1>1 DEF RowBacked
<1>2. CASE row.state = "ready"
  <2> DEFINE t == row.tri
  <2>1. t \in TripletIds
    BY <1>2 DEF RowBacked, TripletIds
  <2>2. /\ idx'[t].st \in Complete /\ mf'[t].st \in Complete
        /\ idx[t].entries \subseteq idx'[t].entries /\ bin[t].blobs \subseteq bin'[t].blobs
        /\ bin[t].size <= bin'[t].size
    BY <1>2 DEF RowBacked, Keeps
  <2>3. bin[t].size \in Int /\ bin'[t].size \in Int /\ bin[t].blobs \in SUBSET
           [blob : Versions, off : Nat, len : Lengths]
    <3>1. bin[t] \in Bins /\ bin'[t] \in Bins
      BY <2>1, TypeStep DEF FilesInv, TypeOK
    <3>2. \A x \in Bins : x.size \in Int /\ x.blobs \in SUBSET
                              [blob : Versions, off : Nat, len : Lengths]
      BY DEF Bins
    <3> QED
      BY <3>1, <3>2
  <2>4. ASSUME Readable(t, row.ver)
        PROVE  Readable(t, row.ver)'
    <3>1. PICK e \in idx[t].entries, b \in bin[t].blobs :
             /\ e.blob = row.ver /\ b.blob = row.ver /\ b.off = e.off
             /\ GetPayloadSize(b.len) > 0
             /\ b.off + GetPayloadSize(b.len) <= bin[t].size
      BY <2>4 DEF Readable
    <3>2. b.off + GetPayloadSize(b.len) \in Int
      <4>1. b.off \in Nat /\ b.len \in Nat
        BY <2>3
      <4> QED
        BY <4>1, PayloadNat
    <3>3. b.off + GetPayloadSize(b.len) <= bin'[t].size
      BY <2>2, <2>3, <3>1, <3>2
    <3> QED
      BY <2>2, <3>1, <3>3 DEF Readable
  <2>5. Empty(t, row.ver) => Empty(t, row.ver)'
    BY <2>2 DEF Empty
  <2>8. (Readable(t, row.ver) \/ Empty(t, row.ver))'
    BY <1>2, <2>4, <2>5 DEF RowBacked
  <2> QED
    BY <1>2, <2>2, <2>8 DEF RowBacked
<1> QED
  BY <1>1, <1>2

(* Every step. *)
LEMMA RowsStep ==
  ASSUME FilesInv, [Next]_vars
  PROVE  RowsBacked'
<1> USE DEF FilesInv
<1> SUFFICES ASSUME NEW f \in Files
             PROVE  RowBacked(table[f])'
  BY DEF RowsBacked
<1>0. table[f] \in Row /\ table'[f] \in Row /\ RowBacked(table[f])
  BY TypeStep DEF TypeOK, FilesTables, RowsBacked
<1>1. CASE table'[f] = table[f]
  <2>1. table[f].state = "ready" => Keeps(table[f].tri)
    <3>1. SUFFICES ASSUME table[f].state = "ready"
                   PROVE  Keeps(table[f].tri)
      OBVIOUS
    <3>2. table[f].tri = table[f].owner /\ table[f].tri \in TripletIds
      BY <1>0, <3>1 DEF RowBacked, TripletIds
    <3>3. ~(at = "clean" /\ table[f].tri \in todo)
      BY <3>1, <3>2 DEF PhaseSound, ListTripleIdOfAllFiles
    <3> QED
      BY <3>2, <3>3, FilesKept DEF FileStep
  <2>2. \A row \in Row : row = table[f] => RowBacked(row)'
    BY <1>0, <2>1, RowStays
  <2> QED
    BY <1>0, <1>1, <2>2 DEF RowBacked, Readable, Empty
<1>2. CASE table'[f].state = "absent"
  BY <1>2 DEF RowBacked
<1>3. CASE table'[f].state = "pending" /\ table'[f].owner = NoTriplet
  BY <1>3 DEF RowBacked
<1>4. ASSUME NEW w \in Writers, job[w].pc = "seal", job[w].tri # NoTriplet, UNCHANGED diskVars,
             table'[f].owner = job[w].tri, table'[f].tri = job[w].tri,
             table'[f].ver = job[w].blob, table'[f].state = "ready"
      PROVE  RowBacked(table[f])'
  <2> DEFINE t == job[w].tri
  <2>1. t \in Triplets /\ t \in Loaded
    BY <1>4, JobTypes DEF TripletIds, JobsSound, JobSound
  <2>2. idx[t].st \in Complete /\ mf[t].st \in Complete
    BY <2>1 DEF PlacedSound
  <2>3. Readable(t, job[w].blob) \/ Empty(t, job[w].blob)
    <3>1. Stored(job[w]) /\ [blob |-> job[w].blob, off |-> job[w].off] \in idx[t].entries
      BY <1>4 DEF JobsSound, JobSound
    <3>2. PICK b \in bin[t].blobs : /\ b.blob = job[w].blob /\ b.off = job[w].off
                                    /\ b.off + GetPayloadSize(b.len) <= bin[t].size
      BY <3>1 DEF Stored
    <3>3. GetPayloadSize(b.len) \in Nat
      <4>1. bin[t] \in Bins
        BY <2>1 DEF TypeOK, TripletIds
      <4>2. b.len \in Nat
        BY <4>1 DEF Bins
      <4> QED
        BY <4>2, PayloadNat
    <3>4. GetPayloadSize(b.len) = 0 => Empty(t, job[w].blob)
      BY <3>2 DEF Empty
    <3>5. GetPayloadSize(b.len) > 0 => Readable(t, job[w].blob)
      BY <3>1, <3>2 DEF Readable
    <3> QED
      BY <3>3, <3>4, <3>5
  <2>4. idx' = idx /\ mf' = mf /\ bin' = bin
    BY <1>4 DEF diskVars
  <2> QED
    BY <1>4, <2>1, <2>2, <2>3, <2>4 DEF RowBacked, Readable, Empty
<1> QED
  BY <1>1, <1>2, <1>3, <1>4, RowSteps DEF RowStep

-----------------------------------------------------------------------------
(* How far the process is. *)

(* Where nothing runs, there is nothing to say. *)
LEMMA DiePhase ==
  ASSUME TypeOK, Die
  PROVE  PhaseSound' /\ PlacedSound' /\ JobsSound'
<1>1. /\ Loaded' = {} /\ closing' = {} /\ at' = "down" /\ drift' = 0 /\ puts' \in Nat
      /\ \A w \in Writers : job'[w] = IdleJob
  BY DEF Die, Loaded, TypeOK, Versions
<1>2. IdleJob.pc = "idle" /\ IdleJob.blob = 0
  BY DEF IdleJob
<1>3. PhaseSound'
  BY <1>1, <1>2 DEF PhaseSound
<1>4. PlacedSound'
  BY <1>1 DEF PlacedSound
<1>5. JobsSound'
  BY <1>1, <1>2 DEF JobsSound, JobSound
<1> QED
  BY <1>3, <1>4, <1>5

(* Steps that kill the process. *)
Dies ==
  \/ Kill \/ ListOwnersFatal
  \/ \E t \in TripletIds : KillInDeleteOrphan(t) \/ LoadPanics(t) \/ KillInLoad(t)
  \/ \E w \in Writers : TornPutBin(w) \/ SealPanics(w)
  \/ \E t \in Triplets : KillInCreate(t)

(* They all end in Die. *)
LEMMA DiesDie == Dies => Die
  BY DEF Dies, Kill, ListOwnersFatal, KillInDeleteOrphan, LoadPanics, KillInLoad, TornPutBin,
         SealPanics, KillInCreate

(* The sets of triplets after a step that leaves what they are made of. *)
LEMMA FoundSame ==
  ASSUME \A t \in Triplets : (idx'[t].st = "none") = (idx[t].st = "none")
  PROVE  Found' = Found
  BY DEF Found

(* A start puts a triplet it loads into the cache of its state, and no triplet is new. *)
LEMMA LoadAdds ==
  ASSUME FilesInv, NEW t \in TripletIds, LoadTriplet(t)
  PROVE  Loaded' = Loaded \cup {t} /\ Found' = Found
<1> USE DEF FilesInv
<1>0. /\ at = "load" /\ at' = "load" /\ t \in todo /\ Loadable(t) /\ todo' = todo \ {t}
      /\ UNCHANGED <<job, closing, bin>>
      /\ curOff' = [curOff EXCEPT ![t] = bin[t].size]
  BY DEF LoadTriplet, LoadAs
<1>1. /\ \A s \in TripletIds \ {t} : idx'[s] = idx[s] /\ mf'[s] = mf[s] /\ curOff'[s] = curOff[s]
      /\ idx'[t] \in {idx[t], Created("open").idx} /\ idx'[t].st # "none"
      /\ idx[t].st # "none" => idx'[t] = idx[t]
      /\ mf'[t] = IF mf[t].st = "none" THEN Created("open").mf ELSE mf[t]
  BY NewFiles DEF LoadTriplet, LoadAs, TypeOK
<1>2. Loaded' = Loaded \cup {t}
  <2> DEFINE loaded == IF idx[t].st = "none" THEN Created("open").idx ELSE idx[t]
  <2>1. /\ open' = IF loaded.state = "open" THEN open \cup {t} ELSE open
        /\ closed' = IF loaded.state = "closed" THEN closed \cup {t} ELSE closed
        /\ large' = IF loaded.state = "large" THEN large \cup {t} ELSE large
    BY DEF LoadTriplet, LoadAs
  <2>2. loaded.state \in {"open", "closed", "large"}
    <3>1. idx[t] \in Idxs
      BY DEF TypeOK
    <3>2. idx[t].state \in {"open", "closed", "large"}
      BY <3>1, FileFields
    <3> QED
      BY <3>2, NewFiles
  <2> HIDE DEF loaded
  <2> QED
    BY <2>1, <2>2 DEF Loaded
<1>3. t \in Triplets => t \in Found
  BY <1>0 DEF PhaseSound
<1>4. Found' = Found
  BY <1>1, <1>3 DEF Found, TripletIds
<1> QED
  BY <1>2, <1>4

(* A start, and the clean-up of what has no owner. *)
LEMMA StartPhase ==
  ASSUME FilesInv, Start, ~Dies
  PROVE  PhaseSound' /\ PlacedSound'
<1> USE DEF FilesInv
<1>1. CASE ScanLocalFS
  BY <1>1 DEF ScanLocalFS, PhaseSound, PlacedSound, Loaded, Found, diskVars, cacheVars
<1>2. CASE DeletePending \/ DeletePendingFails
  BY <1>2 DEF DeletePending, DeletePendingFails, PhaseSound, PlacedSound, Loaded, Found,
              diskVars, cacheVars
<1>3. CASE ListOwners
  BY <1>3 DEF ListOwners, PhaseSound, PlacedSound, Loaded, Found, diskVars, cacheVars
<1>4. ASSUME NEW t \in TripletIds, DeleteOrphan(t)
      PROVE  PhaseSound' /\ PlacedSound'
  <2>1. Found' = Found \ {t}
    <3>1. idx'[t] = NoIdx /\ \A s \in Triplets \ {t} : idx'[s] = idx[s]
      BY <1>4 DEF DeleteOrphan, DeleteTripletFilesOnDisk, TypeOK, TripletIds
    <3> QED
      BY <3>1, NewFiles DEF Found
  <2>2. Loaded = {} /\ Loaded' = {}
    BY <1>4 DEF DeleteOrphan, PhaseSound, Loaded, cacheVars
  <2> QED
    BY <1>4, <2>1, <2>2 DEF DeleteOrphan, PhaseSound, PlacedSound
<1>5. CASE OrphansGone
  <2>1. UNCHANGED <<idx, mf, bin, table, job, closing, owners>> /\ at = "clean" /\ at' = "load"
        /\ todo = {} /\ todo' = owners /\ Found' = Found /\ Loaded' = {} /\ Loaded = {}
    BY <1>5 DEF OrphansGone, PhaseSound, Loaded, Found, diskVars, cacheVars
  <2>2. ASSUME NEW t \in owners, t \in Triplets
        PROVE  t \in Found
    <3>1. PICK f \in Files : table[f].state # "absent" /\ table[f].owner = t
      BY <2>1, <2>2 DEF PhaseSound, ListTripleIdOfAllFiles
    <3>2. table[f].state = "ready"
      <4>1. table[f].state \in {"absent", "pending", "ready"}
        BY RowFields DEF TypeOK, FilesTables
      <4> QED
        BY <2>2, <3>1, <4>1, TripletsAssumption DEF RowsBacked, RowBacked
    <3> QED
      BY <2>2, <3>1, <3>2 DEF RowsBacked, RowBacked, Found, Complete
  <2>3. Found \subseteq owners /\ Found \subseteq Triplets
    BY <2>1 DEF PhaseSound, Found
  <2> QED
    BY <2>1, <2>2, <2>3 DEF PhaseSound, PlacedSound
<1>6. ASSUME NEW t \in TripletIds, LoadTriplet(t)
      PROVE  PhaseSound' /\ PlacedSound'
  <2>0. /\ at = "load" /\ at' = "load" /\ t \in todo /\ Loadable(t) /\ todo' = todo \ {t}
        /\ UNCHANGED <<job, closing, bin>>
        /\ curOff' = [curOff EXCEPT ![t] = bin[t].size]
    BY <1>6 DEF LoadTriplet, LoadAs
  <2>1. /\ \A s \in TripletIds \ {t} : idx'[s] = idx[s] /\ mf'[s] = mf[s] /\ curOff'[s] = curOff[s]
        /\ idx'[t] \in {idx[t], Created("open").idx} /\ idx'[t].st # "none"
        /\ idx[t].st # "none" => idx'[t] = idx[t]
        /\ mf'[t] = IF mf[t].st = "none" THEN Created("open").mf ELSE mf[t]
    BY <1>6, NewFiles DEF LoadTriplet, LoadAs, TypeOK
  <2>2. Loaded' = Loaded \cup {t} /\ Found' = Found
    BY <1>6, LoadAdds
  <2>5. idx'[t].st \in Complete /\ mf'[t].st \in Complete /\ curOff'[t] = bin[t].size
    BY <2>0, <2>1, NewFiles DEF Loadable, Complete, TypeOK
  <2>6. Loaded \subseteq TripletIds
    BY DEF Loaded, TypeOK, TripletIds
  <2>7. PlacedSound'
    BY <2>0, <2>1, <2>2, <2>5, <2>6 DEF PlacedSound, PhaseSound
  <2>8. PhaseSound'
    BY <2>0, <2>2 DEF PhaseSound
  <2> QED
    BY <2>7, <2>8
<1>7. CASE Serve
  BY <1>7 DEF Serve, PhaseSound, PlacedSound, Loaded, Found, diskVars, cacheVars
<1>8. ASSUME NEW t \in TripletIds, ServeWithNewTriplet(t)
      PROVE  PhaseSound' /\ PlacedSound'
  <2>1. /\ at = "load" /\ at' = "up" /\ todo = {} /\ todo' = {} /\ open = {} /\ open' = {t}
        /\ UNCHANGED <<closed, large, job, closing, bin>> /\ t \in Triplets
        /\ idx[t] = NoIdx /\ bin[t] = NoBin
    BY <1>8 DEF ServeWithNewTriplet, Fresh, CreateTriplets
  <2>2. /\ \A s \in TripletIds \ {t} : idx'[s] = idx[s] /\ mf'[s] = mf[s] /\ curOff'[s] = curOff[s]
        /\ idx'[t] = Created("open").idx /\ mf'[t] = Created("open").mf /\ curOff'[t] = 0
    BY <1>8 DEF ServeWithNewTriplet, CreateTriplets
  <2>3. Loaded' = Loaded \cup {t} /\ Loaded \subseteq TripletIds
    BY <2>1 DEF Loaded, TypeOK, TripletIds
  <2>4. Found' = Found \cup {t}
    BY <2>1, <2>2, NewFiles DEF Found, TripletIds
  <2>5. PlacedSound'
    BY <2>1, <2>2, <2>3, NewFiles DEF PlacedSound, PhaseSound, Complete
  <2>6. PhaseSound'
    BY <2>1, <2>3, <2>4 DEF PhaseSound
  <2> QED
    BY <2>5, <2>6
<1>9. ~ListOwnersFatal /\ \A t \in TripletIds : /\ ~KillInDeleteOrphan(t) /\ ~LoadPanics(t)
                                               /\ ~KillInLoad(t)
  BY DEF Dies
<1> QED
  BY <1>1, <1>2, <1>3, <1>4, <1>5, <1>6, <1>7, <1>8, <1>9 DEF Start

(* A Put under way means that the process serves. *)
LEMMA PutServes ==
  ASSUME FilesInv, NEW w \in Writers, Put(w)
  PROVE  at = "up" /\ todo = {} /\ Found = Loaded \cap Triplets /\ job[w].pc # "idle"
<1>1. job[w].pc # "idle"
  BY DEF Put, Reserve, CacheFull, RollbackFileInDB, PickOpen, PickLarge, PutBin, TornPutBin,
         PutIdx, PutIdxFails, PutMf, PutMfFails, SealFileAtCache, SealPanics
<1> QED
  BY <1>1 DEF FilesInv, PhaseSound

(* What a step of a serving process does to the caches. *)
LEMMA CachesKept ==
  ASSUME FilesInv, [Next]_vars, at = "up", ~Dies
  PROVE  /\ at' = "up" /\ todo' = todo /\ Loaded \subseteq Loaded' /\ closing' \subseteq Loaded
         /\ \A t \in Loaded' \ Loaded :
              /\ t \in Triplets /\ idx'[t].st = "ok" /\ mf'[t].st = "ok"
              /\ curOff'[t] = 0 /\ bin'[t].size = 0 /\ idx[t].st = "none"
<1> USE DEF FilesInv
<1>0. ~Start /\ ~Kill
  <2>1. ~Kill
    BY DEF Dies
  <2>2. ~Start
    BY DEF Dies, Start, ScanLocalFS, DeletePending, DeletePendingFails, ListOwners, OrphansGone,
           Serve, DeleteOrphan, LoadTriplet, LoadAs, ServeWithNewTriplet
  <2> QED
    BY <2>1, <2>2
<1>1. CASE UNCHANGED <<at, todo, open, closed, large, closing>>
  BY <1>1 DEF Loaded, PlacedSound
<1>2. CASE \/ \E f \in Files : Request(f)
           \/ \E w \in Writers, f \in Files : StartPut(w, f)
           \/ UNCHANGED vars
  BY <1>1, <1>2 DEF Request, StartPut, OnlyJobs, cacheVars, vars
<1>3. ASSUME NEW ids \in SUBSET Triplets, NEW state \in {"open", "large"},
             \A t \in ids : Fresh(t), CreateTriplets(ids, state)
      PROVE  \A t \in ids : /\ t \in Triplets /\ idx'[t].st = "ok" /\ mf'[t].st = "ok"
                            /\ curOff'[t] = 0 /\ bin'[t].size = 0 /\ idx[t].st = "none"
  BY <1>3, NewFiles DEF CreateTriplets, Fresh, TripletIds
<1>4. ASSUME NEW w \in Writers, Put(w)
      PROVE  /\ at' = "up" /\ todo' = todo /\ Loaded \subseteq Loaded' /\ closing' \subseteq Loaded
             /\ \A t \in Loaded' \ Loaded :
                  /\ t \in Triplets /\ idx'[t].st = "ok" /\ mf'[t].st = "ok"
                  /\ curOff'[t] = 0 /\ bin'[t].size = 0 /\ idx[t].st = "none"
  <2>1. CASE \E t \in Triplets : PickLarge(w, t)
    <3>1. PICK t \in Triplets : PickLarge(w, t)
      BY <2>1
    <3>2. Loaded' = Loaded \cup {t} /\ UNCHANGED <<at, todo, closing>>
      BY <3>1 DEF PickLarge, Loaded
    <3>3. {t} \in SUBSET Triplets /\ CreateTriplets({t}, "large") /\ \A x \in {t} : Fresh(x)
      BY <3>1 DEF PickLarge
    <3>4. /\ t \in Triplets /\ idx'[t].st = "ok" /\ mf'[t].st = "ok"
          /\ curOff'[t] = 0 /\ bin'[t].size = 0 /\ idx[t].st = "none"
      BY <1>3, <3>3
    <3> QED
      BY <3>2, <3>4 DEF PlacedSound
  <2>2. CASE ~ \E t \in Triplets : PickLarge(w, t)
    BY <1>1, <1>4, <2>2
    DEF Dies, Put, Reserve, CacheFull, RollbackFileInDB, PickOpen, PutBin, PutIdx, PutIdxFails,
        PutMf, PutMfFails, SealFileAtCache, OnlyJobs, cacheVars
  <2> QED
    BY <2>1, <2>2
<1>5. CASE OpenReplacements
  <2>1. PICK ids \in SUBSET Triplets : /\ \A t \in ids : Fresh(t)
                                       /\ CreateTriplets(ids, "open") /\ open' = open \cup ids
    BY <1>5 DEF OpenReplacements
  <2>2. Loaded' = Loaded \cup ids /\ UNCHANGED <<at, todo>> /\ closing' \subseteq open
    BY <1>5, <2>1 DEF OpenReplacements, Loaded, Full
  <2>3. \A t \in ids : /\ t \in Triplets /\ idx'[t].st = "ok" /\ mf'[t].st = "ok"
                       /\ curOff'[t] = 0 /\ bin'[t].size = 0 /\ idx[t].st = "none"
    BY <1>3, <2>1
  <2> QED
    BY <2>2, <2>3 DEF Loaded
<1>6. ASSUME NEW t \in TripletIds, CloseTriplet(t)
      PROVE  /\ at' = "up" /\ todo' = todo /\ Loaded' = Loaded /\ closing' \subseteq Loaded
  BY <1>6 DEF CloseTriplet, Loaded, PlacedSound
<1>7. ~ \E t \in Triplets : KillInCreate(t)
  BY DEF Dies
<1>8. CASE \E t \in Triplets : AppendAfterPurge(t)
  BY <1>1, <1>8, StrayBin
<1> QED
  BY <1>0, <1>2, <1>4, <1>5, <1>6, <1>7, <1>8 DEF Next

(* Where the binary file and its counter stand after a step of a serving process. *)
LEMMA OffsetsKept ==
  ASSUME FilesInv, [Next]_vars, at = "up", ~Dies, NEW t \in Loaded
  PROVE  curOff'[t] = bin'[t].size
<1> USE DEF FilesInv
<1>0. curOff[t] = bin[t].size /\ t \in TripletIds
  BY DEF PlacedSound, Loaded, TypeOK, TripletIds
<1>1. CASE curOff'[t] = curOff[t] /\ bin' = bin
  BY <1>0, <1>1
<1>2. CASE UNCHANGED <<curOff, bin>>
  BY <1>1, <1>2
<1>3. ASSUME NEW ids \in SUBSET Triplets, NEW state \in {"open", "large"},
             \A s \in ids : Fresh(s), CreateTriplets(ids, state)
      PROVE  curOff'[t] = bin'[t].size
  <2>1. t \notin ids
    BY <1>3, NewFiles DEF Fresh, PlacedSound, Complete
  <2> QED
    BY <1>0, <1>1, <1>3, <2>1 DEF CreateTriplets
<1>4. ASSUME NEW w \in Writers, Put(w)
      PROVE  curOff'[t] = bin'[t].size
  <2>1. CASE PutBin(w)
    <3>1. CASE t = job[w].tri
      BY <1>0, <2>1, <3>1 DEF PutBin, TypeOK
    <3>2. CASE t # job[w].tri
      BY <1>0, <2>1, <3>2 DEF PutBin, TypeOK
    <3> QED
      BY <3>1, <3>2
  <2>2. ASSUME NEW s \in Triplets, PickLarge(w, s)
        PROVE  curOff'[t] = bin'[t].size
    <3>1. {s} \in SUBSET Triplets /\ CreateTriplets({s}, "large") /\ \A x \in {s} : Fresh(x)
      BY <2>2 DEF PickLarge
    <3> QED
      BY <1>3, <3>1
  <2>3. CASE ~PutBin(w) /\ ~ \E s \in Triplets : PickLarge(w, s)
    BY <1>2, <1>4, <2>3
    DEF Dies, Put, Reserve, CacheFull, RollbackFileInDB, PickOpen, PutIdx, PutIdxFails,
        PutMf, PutMfFails, SealFileAtCache, OnlyJobs, cacheVars, diskVars
  <2> QED
    BY <2>1, <2>2, <2>3
<1>5. CASE OpenReplacements
  BY <1>3, <1>5 DEF OpenReplacements
<1>6. CASE \/ \E f \in Files : Request(f)
           \/ \E w \in Writers, f \in Files : StartPut(w, f)
           \/ \E s \in TripletIds : CloseTriplet(s)
           \/ UNCHANGED vars
  BY <1>2, <1>6 DEF Request, StartPut, CloseTriplet, OnlyJobs, cacheVars, diskVars, vars
<1>7. ~Kill /\ ~ \E s \in Triplets : KillInCreate(s)
  BY DEF Dies
<1>8. ~Start
  BY DEF Dies, Start, ScanLocalFS, DeletePending, DeletePendingFails, ListOwners, OrphansGone,
         Serve, DeleteOrphan, LoadTriplet, LoadAs, ServeWithNewTriplet
<1>9. ASSUME NEW s \in Triplets, AppendAfterPurge(s)
      PROVE  curOff'[t] = bin'[t].size
  <2>1. t # s
    BY <1>9, StrayBin DEF PlacedSound, Complete
  <2> QED
    BY <1>0, <1>9, <2>1, StrayBin
<1> QED
  BY <1>4, <1>5, <1>6, <1>7, <1>8, <1>9 DEF Next

(* No file appears or disappears in a serving process but with its triplet. *)
LEMMA FoundKept ==
  ASSUME FilesInv, [Next]_vars, at = "up", ~Dies, NEW t \in Triplets, t \notin Loaded'
  PROVE  idx'[t].st = "none"
<1> USE DEF FilesInv
<1>0. t \notin Loaded /\ idx[t].st = "none" /\ t \in TripletIds
  BY CachesKept DEF PhaseSound, Found, TripletIds
<1>1. CASE idx'[t] = idx[t]
  BY <1>0, <1>1
<1>2. ASSUME NEW w \in Writers, Put(w)
      PROVE  idx'[t] = idx[t]
  <2>1. CASE \E s \in Triplets : PickLarge(w, s)
    <3>1. PICK s \in Triplets : PickLarge(w, s)
      BY <2>1
    <3>2. s # t
      BY <3>1 DEF PickLarge, Loaded
    <3> QED
      BY <1>0, <3>1, <3>2 DEF PickLarge, CreateTriplets
  <2>2. CASE PutIdx(w) \/ PutIdxFails(w)
    <3>1. job[w].tri # t
      BY <1>0, <2>2 DEF PutIdx, PutIdxFails, JobsSound, JobSound
    <3> QED
      BY <1>0, <2>2, <3>1 DEF PutIdx, PutIdxFails, TypeOK
  <2>3. CASE ~PutIdx(w) /\ ~PutIdxFails(w) /\ ~ \E s \in Triplets : PickLarge(w, s)
    BY <1>2, <2>3
    DEF Dies, Put, Reserve, CacheFull, RollbackFileInDB, PickOpen, PutBin, 
        PutMf, PutMfFails, SealFileAtCache, OnlyJobs, diskVars
  <2> QED
    BY <2>1, <2>2, <2>3
<1>3. CASE OpenReplacements
  <2>1. PICK ids \in SUBSET Triplets : CreateTriplets(ids, "open") /\ open' = open \cup ids
    BY <1>3 DEF OpenReplacements
  <2>2. t \notin ids
    BY <2>1 DEF Loaded
  <2> QED
    BY <1>0, <1>1, <2>1, <2>2 DEF CreateTriplets
<1>4. ASSUME NEW s \in TripletIds, CloseTriplet(s)
      PROVE  idx'[t] = idx[t]
  BY <1>0, <1>4 DEF CloseTriplet, PlacedSound, TypeOK
<1>5. CASE \/ \E f \in Files : Request(f)
           \/ \E w \in Writers, f \in Files : StartPut(w, f)
           \/ UNCHANGED vars
  BY <1>1, <1>5 DEF Request, StartPut, OnlyJobs, diskVars, vars
<1>6. ~Kill /\ ~ \E s \in Triplets : KillInCreate(s)
  BY DEF Dies
<1>7. ~Start
  BY DEF Dies, Start, ScanLocalFS, DeletePending, DeletePendingFails, ListOwners, OrphansGone,
         Serve, DeleteOrphan, LoadTriplet, LoadAs, ServeWithNewTriplet
<1>8. CASE \E s \in Triplets : AppendAfterPurge(s)
  BY <1>1, <1>8, StrayBin
<1> QED
  BY <1>1, <1>2, <1>3, <1>4, <1>5, <1>6, <1>7, <1>8 DEF Next

(* The caches of a serving process agree with the files. *)
LEMMA ServePhase ==
  ASSUME FilesInv, [Next]_vars, at = "up", ~Dies
  PROVE  PhaseSound' /\ PlacedSound'
<1>1. /\ at' = "up" /\ todo' = {} /\ Loaded \subseteq Loaded' /\ closing' \subseteq Loaded
      /\ \A t \in Loaded' \ Loaded :
           /\ t \in Triplets /\ idx'[t].st = "ok" /\ mf'[t].st = "ok"
           /\ curOff'[t] = 0 /\ bin'[t].size = 0 /\ idx[t].st = "none"
  BY CachesKept DEF FilesInv, PhaseSound
<1>2. ASSUME NEW t \in Loaded'
      PROVE  idx'[t].st \in Complete /\ mf'[t].st \in Complete /\ curOff'[t] = bin'[t].size
  <2>1. CASE t \in Loaded
    <3>1. t \in TripletIds /\ idx[t].st \in Complete /\ mf[t].st \in Complete
      BY <2>1 DEF FilesInv, PlacedSound, Loaded, TypeOK, TripletIds
    <3>2. Keeps(t)
      BY <3>1, FilesKept DEF FileStep
    <3> QED
      BY <2>1, <3>1, <3>2, OffsetsKept DEF Keeps
  <2>2. CASE t \notin Loaded
    BY <1>1, <2>2 DEF Complete
  <2> QED
    BY <2>1, <2>2
<1>3. PlacedSound'
  BY <1>1, <1>2 DEF PlacedSound
<1>4. Found' = Loaded' \cap Triplets
  <2>1. \A t \in Triplets : t \notin Loaded' => idx'[t].st = "none"
    BY FoundKept
  <2> QED
    BY <1>2, <2>1 DEF Found, Complete
<1> QED
  BY <1>1, <1>3, <1>4 DEF PhaseSound

-----------------------------------------------------------------------------
(* The jobs. *)

(* Only PutIdx adds an entry, and only for its own blob. *)
LEMMA NewEntries ==
  ASSUME FilesInv, [Next]_vars, at = "up", ~Dies,
         NEW t \in TripletIds, NEW e \in idx'[t].entries, e \notin idx[t].entries
  PROVE  \E w \in Writers : /\ PutIdx(w) /\ t = job[w].tri
                            /\ e = [blob |-> job[w].blob, off |-> job[w].off]
<1> USE DEF FilesInv
<1>0. idx[t] \in Idxs
  BY DEF TypeOK
<1>1. idx'[t].entries # idx[t].entries
  OBVIOUS
<1>2. ASSUME NEW ids \in SUBSET Triplets, NEW state \in {"open", "large"}, CreateTriplets(ids, state)
      PROVE  FALSE
  <2>1. idx'[t] \in {idx[t], Created(state).idx}
    BY <1>2 DEF CreateTriplets
  <2>2. Created(state).idx.entries = {}
    BY NewFiles
  <2> QED
    BY <1>1, <2>1, <2>2
<1>3. ASSUME NEW w \in Writers, Put(w)
      PROVE  /\ PutIdx(w) /\ t = job[w].tri
             /\ e = [blob |-> job[w].blob, off |-> job[w].off]
  <2>1. CASE PutIdx(w)
    <3> DEFINE d == [blob |-> job[w].blob, off |-> job[w].off]
    <3>1. t = job[w].tri
      BY <1>1, <2>1 DEF PutIdx, TypeOK
    <3>2. idx'[t] = [idx[t] EXCEPT !.entries = @ \cup {d}]
      BY <2>1, <3>1 DEF PutIdx, TypeOK
    <3>3. \A x \in Idxs : \A y : [x EXCEPT !.entries = @ \cup {y}].entries = x.entries \cup {y}
      BY DEF Idxs
    <3> HIDE DEF d
    <3>4. e = d
      BY <1>0, <3>2, <3>3
    <3> QED
      BY <2>1, <3>1, <3>4 DEF d
  <2>2. CASE PutIdxFails(w)
    <3>1. idx'[t] \in {idx[t], [idx[t] EXCEPT !.st = "broken"]}
      BY <2>2 DEF PutIdxFails, TypeOK
    <3>2. \A x \in Idxs : [x EXCEPT !.st = "broken"].entries = x.entries
      BY DEF Idxs
    <3> QED
      BY <1>0, <1>1, <3>1, <3>2
  <2>3. CASE \E s \in Triplets : PickLarge(w, s)
    BY <1>2, <2>3 DEF PickLarge
  <2>4. CASE ~PutIdx(w) /\ ~PutIdxFails(w) /\ ~ \E s \in Triplets : PickLarge(w, s)
    BY <1>1, <1>3, <2>4
    DEF Dies, Put, Reserve, CacheFull, RollbackFileInDB, PickOpen, PutBin,
        PutMf, PutMfFails, SealFileAtCache, OnlyJobs, diskVars
  <2> QED
    BY <2>1, <2>2, <2>3, <2>4
<1>4. CASE OpenReplacements
  BY <1>2, <1>4 DEF OpenReplacements
<1>5. ASSUME NEW s \in TripletIds, CloseTriplet(s)
      PROVE  FALSE
  <2>1. idx'[t] \in {idx[t], [idx[t] EXCEPT !.state = "closed"]}
    BY <1>5 DEF CloseTriplet, TypeOK
  <2>2. \A x \in Idxs : [x EXCEPT !.state = "closed"].entries = x.entries
    BY DEF Idxs
  <2> QED
    BY <1>0, <1>1, <2>1, <2>2
<1>6. CASE \/ \E f \in Files : Request(f)
           \/ \E w \in Writers, f \in Files : StartPut(w, f)
           \/ UNCHANGED vars
  BY <1>1, <1>6 DEF Request, StartPut, OnlyJobs, diskVars, vars
<1>7. ~Kill /\ ~ \E s \in Triplets : KillInCreate(s)
  BY DEF Dies
<1>8. ~Start
  BY DEF Dies, Start, ScanLocalFS, DeletePending, DeletePendingFails, ListOwners, OrphansGone,
         Serve, DeleteOrphan, LoadTriplet, LoadAs, ServeWithNewTriplet
<1>9. CASE \E s \in Triplets : AppendAfterPurge(s)
  BY <1>1, <1>9, StrayBin
<1> QED
  BY <1>3, <1>4, <1>5, <1>6, <1>7, <1>8, <1>9 DEF Next

(* What is stored stays stored. *)
LEMMA StoredKept ==
  ASSUME FilesInv, [Next]_vars, at = "up", ~Dies
  PROVE  \A j \in Jobs : j.tri \in Loaded =>
           /\ Stored(j) => Stored(j)'
           /\ \A e \in idx[j.tri].entries : e \in idx'[j.tri].entries
<1> SUFFICES ASSUME NEW j \in Jobs, j.tri \in Loaded
             PROVE  /\ Stored(j) => Stored(j)'
                    /\ \A e \in idx[j.tri].entries : e \in idx'[j.tri].entries
  OBVIOUS
<1> DEFINE t == j.tri
<1>1. t \in TripletIds
  BY DEF FilesInv, Loaded, TypeOK, TripletIds
<1>2. /\ idx[t].entries \subseteq idx'[t].entries /\ bin[t].blobs \subseteq bin'[t].blobs
      /\ bin[t].size <= bin'[t].size
  <2>1. Keeps(t)
    BY <1>1, FilesKept DEF FileStep
  <2> QED
    BY <2>1 DEF FilesInv, PlacedSound, Keeps
<1>3. bin[t] \in Bins /\ bin'[t] \in Bins
  BY <1>1, TypeStep DEF FilesInv, TypeOK
<1>4. bin[t].size \in Int /\ bin'[t].size \in Int
      /\ \A b \in bin[t].blobs : b.off \in Nat /\ b.len \in Nat
  <2>1. \A x \in Bins : /\ x.size \in Int
                       /\ x.blobs \in SUBSET [blob : Versions, off : Nat, len : Lengths]
    BY DEF Bins
  <2>2. \A b \in [blob : Versions, off : Nat, len : Lengths] : b.off \in Nat /\ b.len \in Nat
    OBVIOUS
  <2> QED
    BY <1>3, <2>1, <2>2
<1>5. ASSUME NEW b \in bin[t].blobs, b.off + GetPayloadSize(b.len) <= bin[t].size
      PROVE  b.off + GetPayloadSize(b.len) <= bin'[t].size
  BY <1>2, <1>4, <1>5, PayloadNat
<1>6. Stored(j) => Stored(j)'
  BY <1>2, <1>5 DEF Stored
<1> QED
  BY <1>2, <1>6

(* A job that waits while others move. *)
LEMMA JobWaits ==
  ASSUME FilesInv, [Next]_vars, at = "up", ~Dies, NEW v \in Writers, job'[v] = job[v]
  PROVE  \A j \in Jobs : j = job'[v] => JobSound(j)'
<1> USE DEF FilesInv
<1> SUFFICES ASSUME NEW j \in Jobs, j = job[v]
             PROVE  JobSound(j)'
  OBVIOUS
<1>1. JobSound(j)
  BY DEF JobsSound
<1>2. puts' \in {puts, puts + 1} /\ puts \in Nat /\ j.blob \in Nat
  <2>1. puts' \in {puts, puts + 1}
    BY ZenonT(60) DEF Dies, Next, Start, ScanLocalFS, DeletePending, DeletePendingFails, ListOwners,
           OrphansGone, Serve, DeleteOrphan, LoadTriplet, LoadAs, ServeWithNewTriplet, Request,
           StartPut, OnlyJobs, Put, Reserve, CacheFull, RollbackFileInDB, PickOpen, PickLarge,
           PutBin, PutIdx, PutIdxFails, PutMf, PutMfFails, SealFileAtCache, OpenReplacements,
           CloseTriplet, AppendAfterPurge, vars
  <2>2. puts \in Nat
    BY DEF TypeOK, Versions
  <2>3. \A blob \in Versions : blob \in Nat
    BY DEF Versions
  <2> QED
    BY <2>1, <2>2, <2>3, JobFields
<1>3. j.blob <= puts'
  BY <1>1, <1>2 DEF JobSound
<1>4. Loaded \subseteq Loaded'
  BY CachesKept
<1>5. ASSUME j.pc \in {"reserve", "pick", "bin", "idx"},
             NEW t \in TripletIds, NEW e \in idx'[t].entries
      PROVE  e.blob # j.blob
  <2>1. CASE e \in idx[t].entries
    BY <1>1, <1>5, <2>1 DEF JobSound
  <2>2. CASE e \notin idx[t].entries
    <3>1. PICK w \in Writers : PutIdx(w) /\ e = [blob |-> job[w].blob, off |-> job[w].off]
      BY <2>2, NewEntries
    <3>2. job[w].pc = "idx" /\ job'[w].pc = "mf"
      <4>1. job[w] \in Jobs
        BY DEF TypeOK
      <4>2. \A x \in Jobs : \A g : [x EXCEPT !.pc = "mf", !.grown = g].pc = "mf"
        BY DEF Jobs
      <4>3. \E g : job'[w] = [job[w] EXCEPT !.pc = "mf", !.grown = g]
        BY <3>1 DEF PutIdx, TypeOK
      <4> QED
        BY <3>1, <4>1, <4>2, <4>3 DEF PutIdx
    <3>3. w # v
      BY <3>2
    <3>4. job[w].blob # j.blob
      BY <1>5, <3>2, <3>3 DEF JobsSound
    <3> QED
      BY <3>1, <3>4
  <2> QED
    BY <2>1, <2>2
<1>6. j.pc \in {"idx", "mf", "seal"} => Stored(j)'
  BY <1>1, StoredKept DEF JobSound
<1>7. j.pc \in {"mf", "seal"} => [blob |-> j.blob, off |-> j.off] \in idx'[j.tri].entries
  BY <1>1, StoredKept DEF JobSound
<1> QED
  BY <1>1, <1>3, <1>4, <1>5, <1>6, <1>7 DEF JobSound

(* A job that moves. *)
LEMMA JobGoes ==
  ASSUME FilesInv, NEW w \in Writers, Put(w), ~Dies
  PROVE  \A j \in Jobs : j = job'[w] => JobSound(j)'
<1> USE DEF FilesInv
<1>N. at = "up" /\ [Next]_vars
  BY PutServes DEF Next
<1> SUFFICES ASSUME NEW j \in Jobs, j = job'[w]
             PROVE  JobSound(j)'
  OBVIOUS
<1> DEFINE i == job[w]
           t == i.tri
<1>0. /\ i \in Jobs /\ i.len \in Nat /\ t \in TripletIds /\ i.off \in Nat /\ i.grown \in Nat
      /\ i.blob \in Versions /\ GetPayloadSize(i.len) \in Nat /\ job \in [Writers -> Jobs]
      /\ JobSound(i) /\ i.pc # "idle" /\ puts \in Nat /\ i.blob \in Nat
  <2>1. JobSound(i)
    BY DEF JobsSound
  <2>2. puts \in Nat /\ \A blob \in Versions : blob \in Nat
    BY DEF TypeOK, Versions
  <2>3. job \in [Writers -> Jobs]
    BY DEF TypeOK
  <2> QED
    BY <2>1, <2>2, <2>3, JobTypes, PutServes
<1>1. i.file \in Files /\ i.len \in Lengths /\ i.blob <= puts
  BY <1>0 DEF JobSound
<1>2. /\ t \in TripletIds /\ bin[t].size \in Nat /\ bin[t] \in Bins /\ idx[t] \in Idxs
      /\ mf[t] \in Mfs /\ Cardinality(idx[t].entries) \in Nat
  <2>1. bin[t] \in Bins /\ idx[t] \in Idxs /\ mf[t] \in Mfs
    BY <1>0 DEF TypeOK
  <2> QED
    BY <1>0, <2>1, FileFields, FS_CardinalityType DEF DiskSound
<1>3. puts' \in {puts, puts + 1} => i.blob <= puts'
  BY <1>0, <1>1
<1>4. Loaded \subseteq Loaded'
  BY <1>N, CachesKept
<1>5. (idx' = idx \/ \E ids \in SUBSET Triplets : CreateTriplets(ids, "large")) =>
        (i.pc \in {"reserve", "pick", "bin", "idx"} =>
           \A s \in TripletIds : \A e \in idx'[s].entries : e.blob # i.blob)
  <2>1. i.pc \in {"reserve", "pick", "bin", "idx"} =>
          \A s \in TripletIds : \A e \in idx[s].entries : e.blob # i.blob
    BY <1>0 DEF JobSound
  <2>2. ASSUME NEW ids \in SUBSET Triplets, CreateTriplets(ids, "large"), NEW s \in TripletIds
        PROVE  idx'[s].entries \in {idx[s].entries, {}}
    BY <2>2, NewFiles DEF CreateTriplets
  <2> QED
    BY <2>1, <2>2
<1>6. CASE RollbackFileInDB(w) \/ SealFileAtCache(w)
  <2>1. j = IdleJob /\ puts' = puts
    BY <1>0, <1>6 DEF RollbackFileInDB, SealFileAtCache
  <2>2. IdleJob.pc = "idle" /\ IdleJob.blob = 0
    BY DEF IdleJob
  <2> QED
    BY <1>0, <2>1, <2>2 DEF JobSound
<1>7. CASE Reserve(w) \/ CacheFull(w)
  <2>1. \E pc \in {"pick", "rollback"} :
          j = [i EXCEPT !.pc = pc] /\ (pc = "pick" => Reserve(w))
    BY <1>0, <1>7 DEF Reserve, CacheFull
  <2>2. j.pc \in {"pick", "rollback"} /\ j.file = i.file /\ j.blob = i.blob /\ j.len = i.len
        /\ j.grown = i.grown
    <3>1. \A x \in Jobs : \A pc : LET y == [x EXCEPT !.pc = pc]
                              IN  /\ y.pc = pc /\ y.file = x.file /\ y.blob = x.blob
                                  /\ y.len = x.len /\ y.grown = x.grown
      BY DEF Jobs
    <3> QED
      BY <1>0, <2>1, <3>1
  <2>3. i.pc = "reserve" /\ idx' = idx /\ puts' = puts
    BY <1>7 DEF Reserve, CacheFull, OnlyJobs, diskVars
  <2>4. i.grown <= 0
    BY <1>0, <2>3 DEF JobSound, Bound
  <2> HIDE DEF i
  <2> QED
    BY <1>0, <1>1, <1>3, <1>5, <2>2, <2>3, <2>4 DEF JobSound, Bound
<1>8. CASE PickOpen(w) \/ \E s \in Triplets : PickLarge(w, s)
  <2>1. \E s \in TripletIds, g \in {i.grown, EmptyTripletSize} :
           /\ j = [i EXCEPT !.pc = "bin", !.tri = s, !.grown = g]
           /\ s \in Loaded'
    <3>1. CASE PickOpen(w)
      <4>1. PICK s \in open : job' = [job EXCEPT ![w].pc = "bin", ![w].tri = s]
        BY <3>1 DEF PickOpen
      <4>2. s \in Loaded /\ s \in TripletIds
        BY DEF Loaded, TypeOK
      <4>3. \A x \in Jobs : [x EXCEPT !.pc = "bin", !.tri = s]
                              = [x EXCEPT !.pc = "bin", !.tri = s, !.grown = x.grown]
        BY DEF Jobs
      <4> QED
        BY <1>0, <1>4, <4>1, <4>2, <4>3
    <3>2. ASSUME NEW s \in Triplets, PickLarge(w, s)
          PROVE  /\ j = [i EXCEPT !.pc = "bin", !.tri = s, !.grown = EmptyTripletSize]
                 /\ s \in Loaded' /\ s \in TripletIds
      BY <1>0, <3>2 DEF PickLarge, Loaded, TripletIds
    <3> QED
      BY <1>8, <3>1, <3>2
  <2>2. /\ j.pc = "bin" /\ j.file = i.file /\ j.blob = i.blob /\ j.len = i.len
        /\ j.tri \in Loaded' /\ j.grown \in {i.grown, EmptyTripletSize}
    <3>1. \A x \in Jobs : \A s, g :
            LET y == [x EXCEPT !.pc = "bin", !.tri = s, !.grown = g]
            IN  /\ y.pc = "bin" /\ y.file = x.file /\ y.blob = x.blob
                /\ y.len = x.len /\ y.grown = g /\ y.tri = s
      BY DEF Jobs
    <3> QED
      BY <1>0, <2>1, <3>1
  <2>3. i.pc = "pick" /\ puts' = puts
        /\ (idx' = idx \/ \E ids \in SUBSET Triplets : CreateTriplets(ids, "large"))
    <3>1. CASE PickOpen(w)
      BY <3>1 DEF PickOpen, OnlyJobs, diskVars
    <3>2. ASSUME NEW s \in Triplets, PickLarge(w, s)
          PROVE  i.pc = "pick" /\ puts' = puts /\ {s} \in SUBSET Triplets
                 /\ CreateTriplets({s}, "large")
      BY <3>2 DEF PickLarge
    <3> QED
      BY <1>8, <3>1, <3>2
  <2>4. i.grown <= 0
    BY <1>0, <2>3 DEF JobSound, Bound
  <2> HIDE DEF i
  <2> QED
    BY <1>0, <1>1, <1>3, <1>5, <2>2, <2>3, <2>4 DEF JobSound, Bound, EmptyTripletSize
<1>9. CASE PutBin(w)
  <2> DEFINE size == GetPayloadSize(i.len)
  <2>1. /\ j.pc = "idx" /\ j.file = i.file /\ j.blob = i.blob /\ j.len = i.len
        /\ j.tri = t /\ j.off = curOff[t] /\ j.grown = i.grown + size
    <3>1. j = [i EXCEPT !.pc = "idx", !.off = curOff[t], !.grown = i.grown + size]
      BY <1>0, <1>9 DEF PutBin
    <3>2. \A x \in Jobs : \A o, g :
            LET y == [x EXCEPT !.pc = "idx", !.off = o, !.grown = g]
            IN  /\ y.pc = "idx" /\ y.file = x.file /\ y.blob = x.blob
                /\ y.len = x.len /\ y.grown = g /\ y.tri = x.tri /\ y.off = o
      BY DEF Jobs
    <3> QED
      BY <1>0, <3>1, <3>2
  <2>2. i.pc = "bin" /\ puts' = puts /\ idx' = idx
    BY <1>9 DEF PutBin
  <2>3. t \in Loaded /\ i.grown <= EmptyTripletSize
    BY <1>0, <2>2 DEF JobSound, Bound
  <2>4. Stored(j)'
    <3> DEFINE b == [blob |-> i.blob, off |-> bin[t].size, len |-> i.len]
    <3>1. bin'[t] = [size |-> bin[t].size + size, blobs |-> bin[t].blobs \cup {b}]
      BY <1>0, <1>9 DEF PutBin, TypeOK
    <3>2. b \in bin'[t].blobs /\ b.blob = j.blob /\ b.off = j.off /\ b.len = i.len
          /\ b.off + size <= bin'[t].size
      BY <1>0, <1>2, <2>1, <2>3, <3>1 DEF PlacedSound
    <3> HIDE DEF b
    <3> QED
      BY <2>1, <3>2 DEF Stored
  <2>5. j.grown <= EmptyTripletSize + size
    BY <1>0, <2>1, <2>3 DEF EmptyTripletSize
  <2> HIDE DEF i
  <2> QED
    BY <1>0, <1>1, <1>3, <1>4, <1>5, <2>1, <2>2, <2>3, <2>4, <2>5 DEF JobSound, Bound
<1>10. CASE PutIdx(w)
  <2> DEFINE g == i.grown + Growth(Cardinality(idx[t].entries), K_index_entry_len)
             e == [blob |-> i.blob, off |-> i.off]
  <2>1. /\ j.pc = "mf" /\ j.file = i.file /\ j.blob = i.blob /\ j.len = i.len
        /\ j.tri = t /\ j.off = i.off /\ j.grown = g
    <3>1. j = [i EXCEPT !.pc = "mf", !.grown = g]
      BY <1>0, <1>10 DEF PutIdx
    <3>2. \A x \in Jobs : \A h :
            LET y == [x EXCEPT !.pc = "mf", !.grown = h]
            IN  /\ y.pc = "mf" /\ y.file = x.file /\ y.blob = x.blob
                /\ y.len = x.len /\ y.grown = h /\ y.tri = x.tri /\ y.off = x.off
      BY DEF Jobs
    <3> QED
      BY <1>0, <3>1, <3>2
  <2>2. i.pc = "idx" /\ puts' = puts /\ bin' = bin
    BY <1>10 DEF PutIdx
  <2>3. t \in Loaded /\ i.grown <= EmptyTripletSize + GetPayloadSize(i.len) /\ Stored(i)
    BY <1>0, <2>2 DEF JobSound, Bound
  <2>4. Stored(j)'
    BY <2>1, <2>2, <2>3 DEF Stored
  <2>5. e \in idx'[t].entries
    <3>1. idx'[t] = [idx[t] EXCEPT !.entries = @ \cup {e}]
      BY <1>0, <1>10 DEF PutIdx, TypeOK
    <3>2. \A x \in Idxs : \A y : [x EXCEPT !.entries = @ \cup {y}].entries = x.entries \cup {y}
      BY DEF Idxs
    <3> HIDE DEF e
    <3> QED
      BY <1>2, <3>1, <3>2
  <2>6. j.grown <= EmptyTripletSize + GetPayloadSize(i.len) + K_index_entry_len
    <3>1. Growth(Cardinality(idx[t].entries), K_index_entry_len) <= K_index_entry_len
          /\ Growth(Cardinality(idx[t].entries), K_index_entry_len) \in Nat
      BY <1>2, GrowthNat
    <3> QED
      BY <1>0, <2>1, <2>3, <3>1 DEF EmptyTripletSize, K_index_entry_len
  <2> HIDE DEF i
  <2> QED
    BY <1>0, <1>1, <1>3, <1>4, <2>1, <2>2, <2>3, <2>4, <2>5, <2>6 DEF JobSound, Bound, e
<1>11. CASE PutMf(w)
  <2>1. /\ j.pc = "seal" /\ j.file = i.file /\ j.blob = i.blob /\ j.len = i.len
        /\ j.tri = t /\ j.off = i.off
    <3>1. j = [i EXCEPT !.pc = "seal"]
      BY <1>0, <1>11 DEF PutMf
    <3>2. \A x \in Jobs :
            LET y == [x EXCEPT !.pc = "seal"]
            IN  /\ y.pc = "seal" /\ y.file = x.file /\ y.blob = x.blob
                /\ y.len = x.len /\ y.tri = x.tri /\ y.off = x.off
      BY DEF Jobs
    <3> QED
      BY <1>0, <3>1, <3>2
  <2>2. i.pc = "mf" /\ puts' = puts /\ bin' = bin /\ idx' = idx
    BY <1>11 DEF PutMf
  <2>3. t \in Loaded /\ Stored(i) /\ [blob |-> i.blob, off |-> i.off] \in idx[t].entries
    BY <1>0, <2>2 DEF JobSound
  <2>4. Stored(j)'
    BY <2>1, <2>2, <2>3 DEF Stored
  <2> HIDE DEF i
  <2> QED
    BY <1>0, <1>1, <1>3, <1>4, <2>1, <2>2, <2>3, <2>4 DEF JobSound, Bound
<1>12. CASE PutIdxFails(w) \/ PutMfFails(w)
  <2>1. /\ j.pc = "rollback" /\ j.file = i.file /\ j.blob = i.blob /\ j.len = i.len
    <3>1. j = [i EXCEPT !.pc = "rollback"]
      BY <1>0, <1>12 DEF PutIdxFails, PutMfFails, GiveUpPut
    <3>2. \A x \in Jobs :
            LET y == [x EXCEPT !.pc = "rollback"]
            IN  /\ y.pc = "rollback" /\ y.file = x.file /\ y.blob = x.blob /\ y.len = x.len
      BY DEF Jobs
    <3> QED
      BY <1>0, <3>1, <3>2
  <2>2. puts' = puts
    BY <1>12 DEF PutIdxFails, PutMfFails
  <2> HIDE DEF i
  <2> QED
    BY <1>0, <1>1, <1>3, <2>1, <2>2 DEF JobSound
<1>13. ~TornPutBin(w) /\ ~SealPanics(w)
  BY DEF Dies
<1> HIDE DEF i, t
<1> QED
  BY <1>6, <1>7, <1>8, <1>9, <1>10, <1>11, <1>12, <1>13 DEF Put

(* The blob of a job is its own. *)
LEMMA BlobKept ==
  ASSUME FilesInv, NEW w \in Writers, Put(w), ~Dies
  PROVE  /\ \A v \in Writers \ {w} : job'[v] = job[v]
         /\ job'[w].pc # "idle" => job'[w].blob = job[w].blob
<1>1. job \in [Writers -> Jobs] /\ job[w] \in Jobs
  BY DEF FilesInv, TypeOK
<1>2. \A x \in Jobs : \A a, b, c : /\ [x EXCEPT !.pc = a].blob = x.blob
                                   /\ [x EXCEPT !.pc = a, !.tri = b].blob = x.blob
                                   /\ [x EXCEPT !.pc = a, !.tri = b, !.grown = c].blob = x.blob
                                   /\ [x EXCEPT !.pc = a, !.off = b, !.grown = c].blob = x.blob
                                   /\ [x EXCEPT !.pc = a, !.grown = c].blob = x.blob
  BY DEF Jobs
<1>3. CASE RollbackFileInDB(w) \/ SealFileAtCache(w)
  BY <1>1, <1>3 DEF RollbackFileInDB, SealFileAtCache, IdleJob
<1>4. CASE Reserve(w) \/ CacheFull(w) \/ PutMf(w) \/ PutIdxFails(w) \/ PutMfFails(w)
  <2>1. \E pc : job' = [job EXCEPT ![w] = [job[w] EXCEPT !.pc = pc]]
    BY <1>1, <1>4 DEF Reserve, CacheFull, PutMf, PutIdxFails, PutMfFails, GiveUpPut
  <2> QED
    BY <1>1, <1>2, <2>1
<1>5. CASE PickOpen(w)
  <2>1. \E t : job' = [job EXCEPT ![w] = [job[w] EXCEPT !.pc = "bin", !.tri = t]]
    BY <1>1, <1>5 DEF PickOpen
  <2> QED
    BY <1>1, <1>2, <2>1
<1>6. ASSUME NEW t \in Triplets, PickLarge(w, t)
      PROVE  /\ \A v \in Writers \ {w} : job'[v] = job[v]
             /\ job'[w].blob = job[w].blob
  <2>1. job' = [job EXCEPT ![w] = [job[w] EXCEPT !.pc = "bin", !.tri = t,
                                                 !.grown = EmptyTripletSize]]
    BY <1>1, <1>6 DEF PickLarge
  <2> QED
    BY <1>1, <1>2, <2>1
<1>7. CASE PutBin(w)
  <2>1. \E o, g : job' = [job EXCEPT ![w] = [job[w] EXCEPT !.pc = "idx", !.off = o, !.grown = g]]
    BY <1>1, <1>7 DEF PutBin
  <2> QED
    BY <1>1, <1>2, <2>1
<1>8. CASE PutIdx(w)
  <2>1. \E g : job' = [job EXCEPT ![w] = [job[w] EXCEPT !.pc = "mf", !.grown = g]]
    BY <1>1, <1>8 DEF PutIdx
  <2> QED
    BY <1>1, <1>2, <2>1
<1>9. ~TornPutBin(w) /\ ~SealPanics(w)
  BY DEF Dies
<1> QED
  BY <1>3, <1>4, <1>5, <1>6, <1>7, <1>8, <1>9 DEF Put

(* A new job has a new blob. *)
LEMMA JobStarts ==
  ASSUME FilesInv, NEW w \in Writers, NEW f \in Files, StartPut(w, f)
  PROVE  /\ \A v \in Writers \ {w} : job'[v] = job[v]
         /\ job'[w].blob = puts + 1 /\ puts' = puts + 1
         /\ \A j \in Jobs : j = job'[w] => JobSound(j)'
<1>1. PICK len \in Lengths :
        job' = [job EXCEPT ![w] = [IdleJob EXCEPT !.pc = "reserve", !.file = f,
                                                  !.blob = puts + 1, !.len = len]]
  BY DEF StartPut
<1> DEFINE j0 == [IdleJob EXCEPT !.pc = "reserve", !.file = f, !.blob = puts + 1, !.len = len]
<1>2. /\ j0.pc = "reserve" /\ j0.file = f /\ j0.blob = puts + 1 /\ j0.len = len /\ j0.grown = 0
  BY DEF IdleJob
<1>3. job'[w] = j0 /\ \A v \in Writers \ {w} : job'[v] = job[v]
  BY <1>1 DEF FilesInv, TypeOK
<1>4. puts' = puts + 1 /\ idx' = idx /\ puts \in Nat
  BY DEF StartPut, OnlyJobs, diskVars, FilesInv, TypeOK, Versions
<1>5. \A t \in TripletIds : \A e \in idx[t].entries : e.blob # puts + 1
  <2>1. SUFFICES ASSUME NEW t \in TripletIds, NEW e \in idx[t].entries
                 PROVE  e.blob # puts + 1
    OBVIOUS
  <2>2. e.blob <= puts
    BY DEF FilesInv, DiskSound
  <2> QED
    BY <1>4, <2>2
<1> HIDE DEF j0
<1>6. \A j \in Jobs : j = j0 => JobSound(j)'
  BY <1>2, <1>4, <1>5 DEF JobSound, Bound
<1> QED
  BY <1>2, <1>3, <1>4, <1>6

(* Every step. *)
LEMMA JobsStep ==
  ASSUME FilesInv, [Next]_vars, ~Dies
  PROVE  JobsSound'
<1> USE DEF FilesInv
<1>G. ASSUME \A w \in Writers : \A j \in Jobs : j = job'[w] => JobSound(j)',
             \A w, v \in Writers : w # v /\ job'[w].pc # "idle" /\ job'[v].pc # "idle"
                                     => job'[w].blob # job'[v].blob
      PROVE  JobsSound'
  <2>1. ASSUME NEW w \in Writers
        PROVE  JobSound(job[w])'
    <3>1. job'[w] \in Jobs
      BY TypeStep DEF TypeOK
    <3> QED
      BY <1>G, <3>1 DEF JobSound, Stored, Loaded
  <2> QED
    BY <1>G, <2>1 DEF JobsSound
<1>1. CASE at # "up"
  <2>1. \A w \in Writers : job[w].pc = "idle"
    BY <1>1 DEF PhaseSound
  <2>2. UNCHANGED <<job, puts>>
    BY ZenonT(60), <1>1, <2>1
    DEF Dies, Next, Start, ScanLocalFS, DeletePending, DeletePendingFails, ListOwners,
        OrphansGone, Serve, DeleteOrphan, LoadTriplet, LoadAs, ServeWithNewTriplet, Request,
        StartPut, Put, Reserve, CacheFull, RollbackFileInDB, PickOpen, PickLarge,
        PutBin, PutIdx, PutIdxFails, PutMf, PutMfFails, SealFileAtCache, OpenReplacements,
        CloseTriplet, AppendAfterPurge, vars
  <2>3. \A w \in Writers : job[w].blob <= puts
    BY DEF JobsSound, JobSound
  <2>4. \A w \in Writers : \A j \in Jobs : j = job'[w] => JobSound(j)'
    BY <2>1, <2>2, <2>3 DEF JobSound
  <2> QED
    BY <1>G, <2>1, <2>2, <2>4
<1>2. CASE at = "up"
  <2>1. ASSUME NEW w \in Writers, Put(w)
        PROVE  JobsSound'
    <3>1. \A v \in Writers : \A j \in Jobs : j = job'[v] => JobSound(j)'
      BY <1>2, <2>1, BlobKept, JobWaits, JobGoes
    <3>2. \A v, u \in Writers : v # u /\ job'[v].pc # "idle" /\ job'[u].pc # "idle"
                                  => job'[v].blob # job'[u].blob
      BY <2>1, BlobKept, PutServes DEF JobsSound
    <3> QED
      BY <1>G, <3>1, <3>2
  <2>2. ASSUME NEW w \in Writers, NEW f \in Files, StartPut(w, f)
        PROVE  JobsSound'
    <3>1. \A v \in Writers : \A j \in Jobs : j = job'[v] => JobSound(j)'
      BY <1>2, <2>2, JobStarts, JobWaits
    <3>2. \A v \in Writers : job[v].blob # puts + 1
      <4>1. \A v \in Writers : job[v].blob <= puts /\ job[v].blob \in Int
        <5>1. \A blob \in Versions : blob \in Int
          BY DEF Versions
        <5> QED
          BY <5>1, JobTypes DEF JobsSound, JobSound
      <4>2. puts \in Nat
        BY DEF TypeOK, Versions
      <4> QED
        BY <4>1, <4>2
    <3>3. \A v, u \in Writers : v # u /\ job'[v].pc # "idle" /\ job'[u].pc # "idle"
                                  => job'[v].blob # job'[u].blob
      BY <2>2, <3>2, JobStarts DEF JobsSound
    <3> QED
      BY <1>G, <3>1, <3>3
  <2>3. CASE UNCHANGED job
    <3>1. \A v \in Writers : \A j \in Jobs : j = job'[v] => JobSound(j)'
      BY <1>2, <2>3, JobWaits
    <3> QED
      BY <1>G, <2>3, <3>1 DEF JobsSound
  <2>4. CASE ~(\E w \in Writers : Put(w)) /\ ~(\E w \in Writers, f \in Files : StartPut(w, f))
    <3>1. UNCHANGED job
      BY <1>2, <2>4
      DEF Dies, Next, Start, ScanLocalFS, DeletePending, DeletePendingFails, ListOwners,
          OrphansGone, Serve, DeleteOrphan, LoadTriplet, LoadAs, ServeWithNewTriplet, Request,
          OpenReplacements, CloseTriplet, AppendAfterPurge, vars
    <3> QED
      BY <2>3, <3>1
  <2> QED
    BY <2>1, <2>2, <2>4
<1> QED
  BY <1>1, <1>2

(* The invariant, but for the accounts. *)
LEMMA FilesInvStep ==
  /\ Init => FilesInv
  /\ FilesInv /\ [Next]_vars => FilesInv'
<1>1. ASSUME Init
      PROVE  FilesInv
  <2>1. TypeOK
    BY <1>1, TypeStep
  <2>2. /\ \A t \in TripletIds : idx[t] = NoIdx /\ mf[t] = NoMf /\ bin[t] = NoBin
        /\ NoTriplet \in TripletIds /\ Loaded = {} /\ Found = {} /\ puts = 0
        /\ \A f \in Files : table[f] = NoRow
        /\ \A w \in Writers : job[w] = IdleJob
    BY <1>1, NewFiles DEF Init, TripletIds, Loaded, Found, EmptyTable
  <2>3. DiskSound
    BY <2>2, NewFiles DEF DiskSound
  <2>4. RowsBacked
    BY <2>2 DEF RowsBacked, RowBacked, NoRow
  <2>5. PhaseSound /\ PlacedSound
    BY <1>1, <2>2 DEF Init, PhaseSound, PlacedSound, IdleJob
  <2>6. JobsSound
    BY <2>2 DEF JobsSound, JobSound, IdleJob
  <2> QED
    BY <2>1, <2>3, <2>4, <2>5, <2>6 DEF FilesInv
<1>2. ASSUME FilesInv, [Next]_vars
      PROVE  FilesInv'
  <2>1. TypeOK'
    BY <1>2, TypeStep
  <2>2. DiskSound'
    <3>1. NoTriplet \in TripletIds
      BY DEF TripletIds
    <3> QED
      BY <1>2, <3>1, FilesKept DEF FileStep, DiskSound
  <2>3. RowsBacked'
    BY <1>2, RowsStep
  <2>4. PhaseSound' /\ PlacedSound'
    <3>1. CASE Dies
      BY <1>2, <3>1, DiesDie, DiePhase DEF FilesInv
    <3>2. CASE ~Dies /\ at = "up"
      BY <1>2, <3>2, ServePhase
    <3>3. CASE ~Dies /\ at # "up" /\ Start
      BY <1>2, <3>3, StartPhase
    <3>4. CASE ~Dies /\ at # "up" /\ ~Start
      <4>1. UNCHANGED vars
        <5>1. ~ \E w \in Writers : Put(w)
          BY <1>2, <3>4, PutServes
        <5>2. ~ \E t \in TripletIds : CloseTriplet(t)
          BY <1>2, <3>4 DEF CloseTriplet, FilesInv, PhaseSound
        <5> QED
          BY <1>2, <3>4, <5>1, <5>2
          DEF Next, Dies, Request, StartPut, OpenReplacements, AppendAfterPurge
      <4> QED
        BY <1>2, <4>1 DEF vars, diskVars, cacheVars, FilesInv, PhaseSound, PlacedSound, Loaded,
                          Found
    <3> QED
      BY <3>1, <3>2, <3>3, <3>4
  <2>5. JobsSound'
    <3>1. CASE Dies
      BY <1>2, <3>1, DiesDie, DiePhase DEF FilesInv
    <3> QED
      BY <1>2, <3>1, JobsStep
  <2> QED
    BY <2>1, <2>2, <2>3, <2>4, <2>5 DEF FilesInv
<1> QED
  BY <1>1, <1>2


-----------------------------------------------------------------------------
(* The accounts. *)

(* A sum of zeros. *)
LEMMA SumZero ==
  ASSUME NEW D, IsFiniteSet(D), NEW f \in [D -> Int], \A x \in D : f[x] = 0
  PROVE  Sum(f, D) = 0
<1> DEFINE P == {S \in SUBSET D : Sum(f, S) = 0}
<1>1. ASSUME NEW S \in SUBSET D, \A R \in SUBSET S : R # S => R \in P
      PROVE  S \in P
  <2>1. CASE S = {}
    BY <2>1, SumAdd
  <2>2. CASE S # {}
    <3>1. PICK x \in S : TRUE
      BY <2>2
    <3>2. S \ {x} \in P /\ Sum(f, S) = f[x] + Sum(f, S \ {x})
      BY <1>1, SumRemove
    <3> QED
      BY <3>2
  <2> QED
    BY <2>1, <2>2
<1> HIDE DEF P
<1>2. \A S \in SUBSET D : S \in P
  BY <1>1, SubsetInduction
<1> QED
  BY <1>2 DEF P

(* The sizes and the reservations are numbers. *)
AccountsTyped ==
  /\ Sizes \in [TripletIds -> Int] /\ Held \in [Writers -> Int]
  /\ \A t \in TripletIds : Sizes[t] = TripletSize(t) /\ Sizes[t] \in Nat
                           /\ IdxSize(t) \in Nat /\ MfSize(t) \in Nat
  /\ \A w \in Writers : Held[w] = HeldBy(job[w]) /\ Held[w] >= 0
  /\ Counted \in SUBSET TripletIds

(* The invariant says so. *)
LEMMA AccountTypes == FilesInv => AccountsTyped
<1> SUFFICES ASSUME FilesInv
             PROVE  AccountsTyped
  OBVIOUS
<1>1. Sizes \in [TripletIds -> Nat] /\ \A t \in TripletIds : /\ Sizes[t] = TripletSize(t)
                                                             /\ IdxSize(t) \in Nat
                                                             /\ MfSize(t) \in Nat
  BY SizesType DEF FilesInv, DiskSound
<1>2. ASSUME NEW w \in Writers
      PROVE  HeldBy(job[w]) \in Int /\ HeldBy(job[w]) >= 0
  <2>1. /\ job[w].len \in Nat /\ job[w].grown \in Nat /\ MaxAllocSize(job[w].len) \in Nat
        /\ Bound(job[w].pc, job[w].len) <= MaxAllocSize(job[w].len)
        /\ Bound(job[w].pc, job[w].len) \in Nat
    BY JobTypes, BoundNat DEF FilesInv
  <2>2. job[w].pc \in {"pick", "bin", "idx", "mf"} => job[w].grown <= Bound(job[w].pc, job[w].len)
    BY DEF FilesInv, JobsSound, JobSound
  <2> QED
    BY <2>1, <2>2 DEF HeldBy
<1>3. Counted \in SUBSET TripletIds
  BY DEF Counted, Found, TripletIds
<1> QED
  BY <1>1, <1>2, <1>3 DEF Held, AccountsTyped

(* The same in the next state. *)
LEMMA AccountTypesNext == FilesInv' => AccountsTyped'
  BY AccountTypes, PTL

(* A job that moves changes one reservation. *)
LEMMA HeldMoves ==
  ASSUME FilesInv, FilesInv', NEW w \in Writers, \A v \in Writers \ {w} : job'[v] = job[v]
  PROVE  /\ Sum(Held', Writers) = Sum(Held, Writers) - HeldBy(job[w]) + HeldBy(job'[w])
         /\ Sum(Held, Writers) \in Int /\ HeldBy(job[w]) \in Int /\ HeldBy(job'[w]) \in Int
<1>1. /\ Held \in [Writers -> Int] /\ Held' \in [Writers -> Int]
      /\ \A v \in Writers : Held[v] = HeldBy(job[v]) /\ Held'[v] = HeldBy(job'[v])
  BY AccountTypes, AccountTypesNext DEF AccountsTyped
<1>2. \A v \in Writers \ {w} : Held[v] = Held'[v]
  BY <1>1
<1>3. Sum(Held', Writers) = Sum(Held, Writers) - Held[w] + Held'[w]
  BY <1>1, <1>2, IdsFinite, SumChange
<1>4. Sum(Held, Writers) \in Int
  BY <1>1, IdsFinite, SumRemove
<1> QED
  BY <1>1, <1>3, <1>4

(* A triplet whose files keep their lengths. *)
LEMMA SizeStays ==
  ASSUME FilesInv, FilesInv', NEW t \in TripletIds,
         (idx'[t].st \in {"none", "blank"}) = (idx[t].st \in {"none", "blank"}),
         idx'[t].entries = idx[t].entries,
         (mf'[t].st \in {"none", "blank"}) = (mf[t].st \in {"none", "blank"}),
         mf'[t].n = mf[t].n, bin'[t].size = bin[t].size
  PROVE  Sizes'[t] = Sizes[t]
<1>1. Sizes[t] = TripletSize(t) /\ Sizes'[t] = TripletSize(t)'
  BY AccountTypes, AccountTypesNext DEF AccountsTyped
<1>2. IdxSize(t)' = IdxSize(t)
  BY DEF IdxSize
<1>3. MfSize(t)' = MfSize(t)
  BY DEF MfSize
<1> QED
  BY <1>1, <1>2, <1>3 DEF TripletSize

(* A triplet just created. *)
LEMMA SizeCreated ==
  ASSUME FilesInv', NEW t \in TripletIds, NEW state \in {"open", "large"},
         idx'[t] = Created(state).idx, mf'[t] = Created(state).mf, bin'[t].size = 0
  PROVE  Sizes'[t] = EmptyTripletSize
<1>1. Sizes'[t] = TripletSize(t)'
  BY AccountTypesNext DEF AccountsTyped
<1>2. idx'[t].st = "ok" /\ idx'[t].entries = {} /\ mf'[t].st = "ok" /\ mf'[t].n = 0
      /\ Cardinality({}) = 0
  BY NewFiles, FS_EmptySet
<1>3. IdxSize(t)' = 5
  BY <1>2 DEF IdxSize, LogSize
<1>4. MfSize(t)' = 3
  BY <1>2 DEF MfSize, LogSize
<1> QED
  BY <1>1, <1>3, <1>4 DEF TripletSize, EmptyTripletSize

(* A step that leaves every file its length. *)
LEMMA SizesStay ==
  ASSUME FilesInv, FilesInv', Counted' = Counted, \A t \in TripletIds : Sizes'[t] = Sizes[t]
  PROVE  Sum(Sizes', Counted') = Sum(Sizes, Counted) /\ Sum(Sizes, Counted) \in Int
<1>1. Sizes \in [TripletIds -> Int] /\ Sizes' \in [TripletIds -> Int] /\ Counted \in SUBSET TripletIds
  BY AccountTypes, AccountTypesNext DEF AccountsTyped
<1> QED
  BY <1>1, IdsFinite, SumSame, SumRemove

(* A step that changes the length of one counted triplet. *)
LEMMA SizeMoves ==
  ASSUME FilesInv, FilesInv', Counted' = Counted, NEW t \in Counted,
         \A s \in TripletIds \ {t} : Sizes'[s] = Sizes[s]
  PROVE  /\ Sum(Sizes', Counted') = Sum(Sizes, Counted) - Sizes[t] + Sizes'[t]
         /\ Sum(Sizes, Counted) \in Int /\ Sizes[t] \in Int /\ Sizes'[t] \in Int
<1>1. Sizes \in [TripletIds -> Int] /\ Sizes' \in [TripletIds -> Int] /\ Counted \in SUBSET TripletIds
  BY AccountTypes, AccountTypesNext DEF AccountsTyped
<1>2. \A s \in Counted \ {t} : Sizes[s] = Sizes'[s]
  BY <1>1
<1> QED
  BY <1>1, <1>2, IdsFinite, SumChange, SumRemove

(* A step that adds triplets of one size. *)
LEMMA SizesJoin ==
  ASSUME FilesInv, FilesInv', NEW ids \in SUBSET TripletIds, NEW c \in Int,
         ids \cap Counted = {}, Counted' = Counted \cup ids,
         \A t \in ids : Sizes'[t] = c, \A s \in TripletIds \ ids : Sizes'[s] = Sizes[s]
  PROVE  /\ Sum(Sizes', Counted') = Sum(Sizes, Counted) + Cardinality(ids) * c
         /\ Sum(Sizes, Counted) \in Int
<1>1. Sizes \in [TripletIds -> Int] /\ Sizes' \in [TripletIds -> Int] /\ Counted \in SUBSET TripletIds
  BY AccountTypes, AccountTypesNext DEF AccountsTyped
<1>2. Sum(Sizes', Counted \cup ids) = Sum(Sizes', Counted) + Cardinality(ids) * c
  BY <1>1, IdsFinite, SumJoin
<1>3. \A s \in Counted : Sizes[s] = Sizes'[s]
  BY <1>1
<1>4. Sum(Sizes, Counted) = Sum(Sizes', Counted)
  BY <1>1, <1>3, IdsFinite, SumSame
<1>5. Sum(Sizes, Counted) \in Int
  BY <1>1, IdsFinite, SumRemove
<1> QED
  BY <1>2, <1>4, <1>5

(* A step that touches neither files nor accounts. *)
LEMMA NothingMoves ==
  ASSUME FilesInv, FilesInv', Balance, at # "down", UNCHANGED <<diskVars, cacheVars, total, drift>>,
         \A w \in Writers : HeldBy(job'[w]) = HeldBy(job[w])
  PROVE  Balance'
<1>1. Counted' = Counted /\ Sizes' = Sizes
  BY DEF Counted, Found, Loaded, cacheVars, diskVars, Sizes, TripletSize, IdxSize, MfSize
<1>2. Held' = Held
  BY DEF Held
<1> QED
  BY <1>1, <1>2 DEF Balance

(* Triplets created are counted at once. *)
CreatedJoin(ids) ==
  /\ Sum(Sizes', Counted') = Sum(Sizes, Counted) + Cardinality(ids) * EmptyTripletSize
  /\ Sum(Sizes, Counted) \in Int

(* What CreateTriplets makes has the size of an empty triplet. *)
LEMMA CreatedCounts ==
  ASSUME FilesInv, FilesInv', NEW ids \in SUBSET Triplets, NEW state \in {"open", "large"},
         \A t \in ids : Fresh(t), CreateTriplets(ids, state), Loaded' = Loaded \cup ids
  PROVE  CreatedJoin(ids)
<1>1. ids \in SUBSET TripletIds /\ NoTriplet \notin ids
  BY DEF TripletIds
<1>2. \A t \in ids : /\ idx'[t] = Created(state).idx /\ mf'[t] = Created(state).mf
                     /\ bin'[t].size = 0 /\ idx[t].st = "none" /\ idx'[t].st # "none"
  BY <1>1, NewFiles DEF CreateTriplets, Fresh
<1>3. \A t \in TripletIds \ ids : idx'[t] = idx[t] /\ mf'[t] = mf[t] /\ bin'[t] = bin[t]
  BY DEF CreateTriplets
<1>4. \A t \in ids : Sizes'[t] = EmptyTripletSize
  BY <1>1, <1>2, SizeCreated
<1>5. \A t \in TripletIds \ ids : Sizes'[t] = Sizes[t]
  BY <1>3, SizeStays
<1>6. Found' = Found \cup ids /\ Found \cap ids = {}
  BY <1>1, <1>2, <1>3 DEF Found, TripletIds
<1>7. Counted' = Counted \cup ids /\ ids \cap Counted = {}
  BY <1>1, <1>6 DEF Counted
<1>8. EmptyTripletSize \in Int
  BY DEF EmptyTripletSize
<1> QED
  BY <1>1, <1>4, <1>5, <1>7, <1>8, SizesJoin DEF CreatedJoin

(* What a start cleans up is what it found. *)
LEMMA TodoIsFound ==
  ASSUME FilesInv, at = "clean", NEW t \in todo
  PROVE  t \in Triplets /\ idx[t].st # "none"
  BY DEF FilesInv, PhaseSound, Found

(* A start counts what it finds, gives back what it removes, and is told of what it creates. *)
LEMMA StartBalance ==
  ASSUME FilesInv, FilesInv', Balance, Start, ~Dies
  PROVE  Balance'
<1>T. /\ Sizes \in [TripletIds -> Int] /\ Sizes' \in [TripletIds -> Int]
      /\ \A s \in TripletIds : Sizes[s] = TripletSize(s) /\ Sizes[s] \in Int
      /\ \A s \in TripletIds : Sizes'[s] = TripletSize(s)'
      /\ Counted \in SUBSET TripletIds /\ Held \in [Writers -> Int]
      /\ Sum(Sizes, Counted) \in Int /\ Sum(Held, Writers) \in Int
      /\ total \in Int /\ drift \in Int
  <2>1. total \in Int /\ drift \in Int
    BY DEF FilesInv, TypeOK
  <2> QED
    BY <2>1, AccountTypes, AccountTypesNext, IdsFinite, SumRemove DEF AccountsTyped
<1>1. CASE ScanLocalFS
  <2>1. total' = SizeOf(Found) /\ drift' = 0 /\ at' # "down"
    BY <1>1 DEF ScanLocalFS, FilesInv, PhaseSound, Found
  <2>2. Loaded' = {} /\ Found' = Found /\ Sizes' = Sizes
    BY <1>1 DEF ScanLocalFS, FilesInv, PhaseSound, Loaded, Found, cacheVars, diskVars, Sizes,
                TripletSize, IdxSize, MfSize
  <2>3. Counted' = Found /\ Found \in SUBSET TripletIds
    BY <2>2 DEF Counted, Found, TripletIds
  <2>4. Sum(Held', Writers) = 0
    <3>1. \A w \in Writers : job'[w].pc = "idle"
      BY <1>1 DEF ScanLocalFS, FilesInv, PhaseSound
    <3>2. Held' \in [Writers -> Int] /\ \A w \in Writers : Held'[w] = 0
      BY <3>1, AccountTypesNext DEF AccountsTyped, HeldBy
    <3> QED
      BY <3>2, IdsFinite, SumZero
  <2>5. total' = Sum(Sizes, Found) /\ Sum(Sizes, Found) \in Int
    BY <1>T, <2>1, <2>3, SizeOfIsSum, IdsFinite, SumRemove
  <2> QED
    BY <2>1, <2>2, <2>3, <2>4, <2>5 DEF Balance
<1>2. CASE \/ DeletePending \/ DeletePendingFails \/ ListOwners \/ OrphansGone \/ Serve
  <2>1. at # "down" /\ UNCHANGED <<diskVars, cacheVars, total, drift, job>>
    BY <1>2 DEF DeletePending, DeletePendingFails, ListOwners, OrphansGone, Serve
  <2> QED
    BY <2>1, NothingMoves
<1>3. ASSUME NEW t \in TripletIds, DeleteOrphan(t)
      PROVE  Balance'
  <2>1. /\ at = "clean" /\ at' = "clean" /\ t \in todo /\ total' = total - TripletSize(t)
        /\ UNCHANGED <<cacheVars, job, drift>> /\ Loaded = {} /\ Loaded' = {}
    BY <1>3 DEF DeleteOrphan, FilesInv, PhaseSound, Loaded, cacheVars
  <2>2. /\ idx'[t] = NoIdx
        /\ \A s \in TripletIds \ {t} : idx'[s] = idx[s] /\ mf'[s] = mf[s] /\ bin'[s] = bin[s]
    BY <1>3 DEF DeleteOrphan, DeleteTripletFilesOnDisk, FilesInv, TypeOK
  <2>3. Counted' = Counted \ {t} /\ \A s \in TripletIds \ {t} : Sizes'[s] = Sizes[s]
    <3>1. Found' = Found \ {t}
      BY <2>2, NewFiles DEF Found, TripletIds
    <3> QED
      BY <2>1, <2>2, <3>1, SizeStays DEF Counted
  <2>4. Held' = Held
    BY <2>1 DEF Held
  <2>5. CASE t \in Counted
    <3>1. Sum(Sizes, Counted) = Sizes[t] + Sum(Sizes, Counted \ {t})
      BY <1>T, <2>5, IdsFinite, SumRemove
    <3>2. Sum(Sizes', Counted \ {t}) = Sum(Sizes, Counted \ {t}) /\ Sum(Sizes, Counted \ {t}) \in Int
      <4>1. \A s \in Counted \ {t} : Sizes[s] = Sizes'[s]
        BY <1>T, <2>3
      <4> QED
        BY <1>T, <4>1, IdsFinite, SumSame, SumRemove
    <3> QED
      BY <1>T, <2>1, <2>3, <2>4, <3>1, <3>2 DEF Balance
  <2>6. t \in Counted
    <3>1. t \in Triplets /\ idx[t].st # "none"
      BY <1>3, TodoIsFound DEF DeleteOrphan
    <3> QED
      BY <3>1 DEF Counted, Found
  <2> QED
    BY <2>5, <2>6
<1>4. ASSUME NEW t \in TripletIds, LoadTriplet(t)
      PROVE  Balance'
  <2> DEFINE a == IF idx[t].st = "none" THEN 5 ELSE 0
             b == IF mf[t].st = "none" THEN 3 ELSE 0
             c == IF t = NoTriplet THEN TripletSize(t) ELSE 0
  <2>1. /\ at = "load" /\ at' = "load" /\ t \in todo /\ Loadable(t)
        /\ UNCHANGED <<job, total, bin>> /\ drift' = drift + a + b + c
    BY <1>4 DEF LoadTriplet, LoadAs
  <2>2. /\ \A s \in TripletIds \ {t} : idx'[s] = idx[s] /\ mf'[s] = mf[s]
        /\ idx[t].st # "none" => idx'[t] = idx[t]
        /\ idx[t].st = "none" => idx'[t] = Created("open").idx
        /\ mf'[t] = IF mf[t].st = "none" THEN Created("open").mf ELSE mf[t]
    BY <1>4 DEF LoadTriplet, LoadAs, FilesInv, TypeOK
  <2>3. \A s \in TripletIds \ {t} : Sizes'[s] = Sizes[s]
    BY <2>1, <2>2, SizeStays
  <2>4. IdxSize(t)' = IdxSize(t) + a /\ IdxSize(t) \in Int
    <3>1. Created("open").idx.entries = {} /\ Created("open").idx.st = "ok" /\ Cardinality({}) = 0
      BY NewFiles, FS_EmptySet
    <3>2. CASE idx[t].st = "none"
      <4>1. idx'[t].st = "ok" /\ idx'[t].entries = {} /\ a = 5
        BY <2>2, <3>1, <3>2
      <4>2. IdxSize(t)' = 5 /\ IdxSize(t) = 0
        BY <3>1, <3>2, <4>1 DEF IdxSize, LogSize
      <4> QED
        BY <4>1, <4>2
    <3>3. CASE idx[t].st # "none"
      <4>1. IdxSize(t)' = IdxSize(t) /\ IdxSize(t) \in Int
        BY <2>2, <3>3, AccountTypes DEF IdxSize, AccountsTyped
      <4> QED
        BY <3>3, <4>1
    <3> QED
      BY <3>2, <3>3
  <2>5. MfSize(t)' = MfSize(t) + b /\ MfSize(t) \in Int
    <3>1. Created("open").mf.n = 0 /\ Created("open").mf.st = "ok"
      BY NewFiles
    <3>2. CASE mf[t].st = "none"
      BY <2>2, <3>1, <3>2 DEF MfSize, LogSize
    <3>3. CASE mf[t].st # "none"
      <4>1. MfSize(t)' = MfSize(t) /\ MfSize(t) \in Int
        BY <2>2, <3>3, AccountTypes DEF MfSize, AccountsTyped
      <4> QED
        BY <3>3, <4>1
    <3> QED
      BY <3>2, <3>3
  <2>6. Sizes'[t] = Sizes[t] + a + b /\ a \in Int /\ b \in Int /\ Sizes'[t] \in Int
    <3>1. bin'[t].size = bin[t].size /\ bin[t].size \in Int
      <4>1. bin[t] \in Bins
        BY DEF FilesInv, TypeOK
      <4>2. \A x \in Bins : x.size \in Int
        BY DEF Bins
      <4> QED
        BY <2>1, <4>1, <4>2
    <3>2. TripletSize(t)' = TripletSize(t) + a + b
      BY <2>4, <2>5, <3>1 DEF TripletSize
    <3> QED
      BY <1>T, <3>2
  <2>7. Held' = Held
    BY <2>1 DEF Held
  <2>8. Loaded' = Loaded \cup {t} /\ Found' = Found
    BY <1>4, LoadAdds
  <2> HIDE DEF a, b
  <2>9. CASE t = NoTriplet
    <3>1. {t} \cap Counted = {} /\ Counted' = Counted \cup {t} /\ Cardinality({t}) = 1
      <4>1. t \notin Loaded /\ t \notin Found
        BY <2>1, <2>9, TripletsAssumption DEF FilesInv, PhaseSound, Found
      <4>2. Cardinality({t}) = 1
        BY FS_Singleton
      <4> QED
        BY <2>8, <2>9, <4>1, <4>2 DEF Counted
    <3>2. Sum(Sizes', Counted') = Sum(Sizes, Counted) + 1 * Sizes'[t]
      BY <2>3, <2>6, <3>1, SizesJoin
    <3>3. c = Sizes[t]
      BY <1>T, <2>9
    <3> QED
      BY <1>T, <2>1, <2>6, <2>7, <3>2, <3>3 DEF Balance
  <2>10. CASE t # NoTriplet
    <3>1. t \in Counted /\ Counted' = Counted
      BY <2>1, <2>8, <2>10 DEF Counted, FilesInv, PhaseSound, TripletIds
    <3>2. Sum(Sizes', Counted') = Sum(Sizes, Counted) - Sizes[t] + Sizes'[t]
      BY <2>3, <3>1, SizeMoves
    <3> QED
      BY <1>T, <2>1, <2>6, <2>7, <2>10, <3>2 DEF Balance
  <2> QED
    BY <2>9, <2>10
<1>5. ASSUME NEW t \in TripletIds, ServeWithNewTriplet(t)
      PROVE  Balance'
  <2>1. /\ at = "load" /\ at' = "up" /\ total' = total + EmptyTripletSize
        /\ UNCHANGED <<drift, job, bin, closed, large>> /\ open = {} /\ open' = {t} /\ Fresh(t)
        /\ t \in Triplets /\ CreateTriplets({t}, "open")
    BY <1>5 DEF ServeWithNewTriplet, CreateTriplets, Fresh
  <2>2. CreatedJoin({t})
    BY <2>1, CreatedCounts DEF Loaded
  <2>3. Cardinality({t}) * EmptyTripletSize = EmptyTripletSize
    BY FS_Singleton DEF EmptyTripletSize
  <2>4. Held' = Held
    BY <2>1 DEF Held
  <2> QED
    BY <1>T, <2>1, <2>2, <2>3, <2>4 DEF Balance, CreatedJoin, EmptyTripletSize
<1>6. ~ListOwnersFatal /\ \A t \in TripletIds : /\ ~KillInDeleteOrphan(t) /\ ~LoadPanics(t)
                                               /\ ~KillInLoad(t)
  BY DEF Dies
<1> QED
  BY <1>1, <1>2, <1>3, <1>4, <1>5, <1>6 DEF Start

(* A Put moves bytes from its reservation to the files. *)
LEMMA PutBalance ==
  ASSUME FilesInv, FilesInv', Balance, NEW w \in Writers, Put(w), ~Dies
  PROVE  Balance'
<1> DEFINE i == job[w]
           held == HeldBy(i)
           held2 == HeldBy(job'[w])
<1>t. PICK t \in TripletIds : t = job[w].tri
  BY JobTypes DEF FilesInv
<1>0. /\ t = i.tri
      /\ at = "up" /\ i \in Jobs /\ i.len \in Nat /\ t \in TripletIds /\ i.grown \in Nat
      /\ GetPayloadSize(i.len) \in Nat /\ MaxAllocSize(i.len) \in Nat /\ job \in [Writers -> Jobs]
      /\ JobSound(i) /\ i.pc # "idle" /\ total \in Int /\ drift \in Int
  <2>1. JobSound(i)
    BY DEF FilesInv, JobsSound
  <2>2. job \in [Writers -> Jobs] /\ total \in Int /\ drift \in Int
    BY DEF FilesInv, TypeOK
  <2> QED
    BY <1>t, <2>1, <2>2, JobTypes, PutServes DEF FilesInv
<1>M. /\ Sum(Held', Writers) = Sum(Held, Writers) - held + held2
      /\ Sum(Held, Writers) \in Int /\ held \in Int /\ held2 \in Int
  <2>1. \A v \in Writers \ {w} : job'[v] = job[v]
    BY BlobKept
  <2> QED
    BY <2>1, HeldMoves
<1>B. total + drift = Sum(Sizes, Counted) + Sum(Held, Writers)
  BY <1>0 DEF Balance
<1>G. i.pc \in {"reserve", "pick"} => i.grown = 0
  BY <1>0 DEF JobSound, Bound
<1>L. i.pc \in {"bin", "idx", "mf"} =>
        t \in Counted /\ idx[t].st \in Complete /\ mf[t].st \in Complete
  <2>1. i.pc \in {"bin", "idx", "mf"} => t \in Loaded
    BY <1>0 DEF JobSound
  <2> QED
    BY <1>0, <2>1 DEF FilesInv, PhaseSound, PlacedSound, Counted, TripletIds
<1>F. /\ bin[t] \in Bins /\ idx[t] \in Idxs /\ mf[t] \in Mfs
      /\ Cardinality(idx[t].entries) \in Nat /\ mf[t].n \in Nat /\ bin[t].size \in Nat
      /\ IsFiniteSet(idx[t].entries)
  <2>1. bin[t] \in Bins /\ idx[t] \in Idxs /\ mf[t] \in Mfs
    BY <1>0 DEF FilesInv, TypeOK
  <2> QED
    BY <1>0, <2>1, FileFields, FS_CardinalityType DEF FilesInv, DiskSound
<1>S. /\ Sizes[t] = TripletSize(t) /\ Sizes'[t] = TripletSize(t)'
      /\ IdxSize(t) \in Int /\ MfSize(t) \in Int /\ Sizes[t] \in Int /\ Sizes'[t] \in Int
  BY <1>0, AccountTypes, AccountTypesNext DEF AccountsTyped
<1>P. \A x \in Jobs : \A pc, s, o, g :
        /\ LET y == [x EXCEPT !.pc = pc] IN y.pc = pc /\ y.len = x.len /\ y.grown = x.grown
        /\ LET y == [x EXCEPT !.pc = pc, !.tri = s]
           IN y.pc = pc /\ y.len = x.len /\ y.grown = x.grown
        /\ LET y == [x EXCEPT !.pc = pc, !.tri = s, !.grown = g]
           IN y.pc = pc /\ y.len = x.len /\ y.grown = g
        /\ LET y == [x EXCEPT !.pc = pc, !.off = o, !.grown = g]
           IN y.pc = pc /\ y.len = x.len /\ y.grown = g
        /\ LET y == [x EXCEPT !.pc = pc, !.grown = g]
           IN y.pc = pc /\ y.len = x.len /\ y.grown = g
  BY DEF Jobs
<1>1. CASE CacheFull(w) \/ RollbackFileInDB(w) \/ SealFileAtCache(w) \/ PickOpen(w)
  <2>1. at # "down" /\ UNCHANGED <<diskVars, cacheVars, total, drift>>
    BY <1>0, <1>1 DEF CacheFull, RollbackFileInDB, SealFileAtCache, PickOpen, OnlyJobs
  <2>2. held2 = held
    <3>1. CASE RollbackFileInDB(w) \/ SealFileAtCache(w)
      <4>1. job'[w] = IdleJob /\ i.pc \in {"rollback", "seal"}
        BY <1>0, <3>1 DEF RollbackFileInDB, SealFileAtCache
      <4> QED
        BY <4>1 DEF HeldBy, IdleJob
    <3>2. CASE CacheFull(w)
      <4>1. job'[w].pc = "rollback" /\ i.pc = "reserve"
        BY <1>0, <1>P, <3>2 DEF CacheFull
      <4> QED
        BY <4>1 DEF HeldBy
    <3>3. CASE PickOpen(w)
      <4>1. job'[w].pc = "bin" /\ i.pc = "pick" /\ job'[w].len = i.len /\ job'[w].grown = i.grown
        BY <1>0, <1>P, <3>3 DEF PickOpen
      <4> QED
        BY <4>1 DEF HeldBy
    <3> QED
      BY <1>1, <3>1, <3>2, <3>3
  <2>3. \A v \in Writers : HeldBy(job'[v]) = HeldBy(job[v])
    BY <2>2, BlobKept
  <2> QED
    BY <2>1, <2>3, NothingMoves
<1>2. CASE Reserve(w)
  <2>1. /\ UNCHANGED <<diskVars, cacheVars, drift>> /\ total' = total + MaxAllocSize(i.len)
        /\ i.pc = "reserve" /\ job'[w].pc = "pick" /\ job'[w].len = i.len
        /\ job'[w].grown = i.grown
    BY <1>0, <1>2, <1>P DEF Reserve, OnlyJobs
  <2>2. held = 0 /\ held2 = MaxAllocSize(i.len)
    BY <1>0, <1>G, <2>1 DEF HeldBy
  <2>3. Counted' = Counted /\ Sizes' = Sizes
    BY <2>1 DEF Counted, Found, Loaded, cacheVars, diskVars, Sizes, TripletSize, IdxSize, MfSize
  <2>4. Sum(Sizes, Counted) \in Int
    BY <2>3, SizesStay
  <2> QED
    BY <1>0, <1>B, <1>M, <2>1, <2>2, <2>3, <2>4 DEF Balance
<1>3. ASSUME NEW s \in Triplets, PickLarge(w, s)
      PROVE  Balance'
  <2>1. /\ UNCHANGED <<total, drift>> /\ i.pc = "pick" /\ job'[w].pc = "bin"
        /\ job'[w].len = i.len /\ job'[w].grown = EmptyTripletSize
        /\ Fresh(s) /\ CreateTriplets({s}, "large") /\ Loaded' = Loaded \cup {s}
    BY <1>0, <1>3, <1>P DEF PickLarge, Loaded
  <2>2. held = MaxAllocSize(i.len) /\ held2 = MaxAllocSize(i.len) - EmptyTripletSize
    BY <1>0, <1>G, <2>1 DEF HeldBy
  <2>3. CreatedJoin({s})
    BY <2>1, CreatedCounts
  <2>4. Cardinality({s}) * EmptyTripletSize = EmptyTripletSize /\ EmptyTripletSize \in Int
    BY FS_Singleton DEF EmptyTripletSize
  <2> HIDE DEF held, held2
  <2> QED
    BY <1>0, <1>B, <1>M, <2>1, <2>2, <2>3, <2>4 DEF Balance, CreatedJoin
<1>W. ASSUME t \in Counted, UNCHANGED cacheVars \/ UNCHANGED <<open, closed, large>>, idx'[t].st # "none",
             \A s \in TripletIds \ {t} : idx'[s] = idx[s] /\ mf'[s] = mf[s] /\ bin'[s] = bin[s],
             total' + drift' - (total + drift) = (Sizes'[t] - Sizes[t]) + (held2 - held),
             total' \in Int, drift' \in Int
      PROVE  Balance'
  <2>1. Counted' = Counted
    <3>1. Found' = Found
      BY <1>W, TripletsAssumption DEF Found, Counted, TripletIds
    <3> QED
      BY <1>W, <3>1 DEF Counted, Loaded, cacheVars
  <2>2. \A s \in TripletIds \ {t} : Sizes'[s] = Sizes[s]
    BY <1>W, SizeStays
  <2>3. /\ Sum(Sizes', Counted') = Sum(Sizes, Counted) - Sizes[t] + Sizes'[t]
        /\ Sum(Sizes, Counted) \in Int
    BY <1>W, <2>1, <2>2, SizeMoves
  <2> HIDE DEF held, held2, i
  <2> QED
    BY <1>0, <1>B, <1>M, <1>S, <1>W, <2>3 DEF Balance
<1>4. CASE PutBin(w)
  <2> DEFINE size == GetPayloadSize(i.len)
  <2>1. /\ UNCHANGED <<total, drift, idx, mf, open, closed, large>> /\ i.pc = "bin"
        /\ job'[w].pc = "idx" /\ job'[w].len = i.len /\ job'[w].grown = i.grown + size
        /\ bin'[t].size = bin[t].size + size
        /\ \A s \in TripletIds \ {t} : bin'[s] = bin[s]
    BY <1>0, <1>4, <1>P DEF PutBin, FilesInv, TypeOK
  <2>2. held2 = held - size
    BY <1>0, <2>1 DEF HeldBy
  <2>3. Sizes'[t] = Sizes[t] + size
    <3>1. IdxSize(t)' = IdxSize(t) /\ MfSize(t)' = MfSize(t)
      BY <2>1 DEF IdxSize, MfSize
    <3> QED
      BY <1>0, <1>F, <1>S, <2>1, <3>1 DEF TripletSize
  <2>4. t \in Counted /\ idx'[t].st # "none"
    BY <1>L, <2>1 DEF Complete
  <2> HIDE DEF held, held2
  <2> QED
    BY <1>0, <1>M, <1>S, <1>W, <2>1, <2>2, <2>3, <2>4
<1>5. CASE PutIdx(w)
  <2> DEFINE e == [blob |-> i.blob, off |-> i.off]
             n == Cardinality(idx[t].entries)
             g == Growth(n, K_index_entry_len)
  <2>1. /\ UNCHANGED <<total, drift, bin, mf, open, closed, large>> /\ i.pc = "idx"
        /\ job'[w].pc = "mf" /\ job'[w].len = i.len /\ job'[w].grown = i.grown + g
        /\ idx'[t] = [idx[t] EXCEPT !.entries = @ \cup {e}]
        /\ \A s \in TripletIds \ {t} : idx'[s] = idx[s]
    <3>1. idx' = [idx EXCEPT ![t] = [idx[t] EXCEPT !.entries = @ \cup {e}]]
      BY <1>0, <1>5 DEF PutIdx
    <3>2. job' = [job EXCEPT ![w] = [i EXCEPT !.pc = "mf", !.grown = i.grown + g]]
      BY <1>0, <1>5 DEF PutIdx
    <3>3. UNCHANGED <<total, drift, bin, mf, open, closed, large>> /\ i.pc = "idx"
      BY <1>5 DEF PutIdx, cacheVars
    <3>4. idx \in [TripletIds -> Idxs]
      BY DEF FilesInv, TypeOK
    <3>5. job'[w] = [i EXCEPT !.pc = "mf", !.grown = i.grown + g]
      BY <1>0, <3>2
    <3> HIDE DEF e, g, i
    <3>6. job'[w].pc = "mf" /\ job'[w].len = i.len /\ job'[w].grown = i.grown + g
      BY <1>0, <1>P, <3>5
    <3> QED
      BY <1>0, <3>1, <3>3, <3>4, <3>6
  <2>2. g \in Nat /\ LogSize(n + 1, K_index_entry_len) = LogSize(n, K_index_entry_len) + g
        /\ LogSize(n, K_index_entry_len) \in Nat
    BY <1>F, GrowthNat
  <2>3. held2 = held - g
    BY <1>0, <2>1, <2>2 DEF HeldBy
  <2>4. idx'[t].st = idx[t].st /\ Cardinality(idx'[t].entries) = n + 1
    <3>1. e \notin idx[t].entries
      BY <1>0, <2>1 DEF JobSound
    <3>2. \A x \in Idxs : \A y : /\ [x EXCEPT !.entries = @ \cup {y}].entries = x.entries \cup {y}
                                 /\ [x EXCEPT !.entries = @ \cup {y}].st = x.st
      BY DEF Idxs
    <3> HIDE DEF e
    <3>3. idx'[t].entries = idx[t].entries \cup {e} /\ idx'[t].st = idx[t].st
      BY <1>F, <2>1, <3>2
    <3> QED
      BY <1>F, <3>1, <3>3, FS_AddElement
  <2>5. Sizes'[t] = Sizes[t] + g
    <3>1. MfSize(t)' = MfSize(t)
      BY <2>1 DEF MfSize
    <3>2. IdxSize(t)' = IdxSize(t) + g
      <4> HIDE DEF g
      <4> QED
        BY <1>L, <2>1, <2>2, <2>4 DEF IdxSize, Complete
    <3> QED
      BY <1>F, <1>S, <2>1, <2>2, <3>1, <3>2 DEF TripletSize
  <2>6. t \in Counted /\ idx'[t].st # "none"
    BY <1>L, <2>1, <2>4 DEF Complete
  <2> HIDE DEF held, held2, g
  <2> QED
    BY <1>0, <1>M, <1>S, <1>W, <2>1, <2>2, <2>3, <2>5, <2>6
<1>6. CASE PutMf(w)
  <2> DEFINE n == mf[t].n
             g == Growth(n, K_mf_entry_len)
  <2>1. /\ UNCHANGED <<drift, bin, idx, cacheVars>> /\ i.pc = "mf"
        /\ total' = total + i.grown + g - MaxAllocSize(i.len)
        /\ job'[w].pc = "seal" /\ mf'[t] = [mf[t] EXCEPT !.n = @ + 1]
        /\ \A s \in TripletIds \ {t} : mf'[s] = mf[s]
    BY <1>0, <1>6, <1>P DEF PutMf, FilesInv, TypeOK
  <2>2. g \in Nat /\ LogSize(n + 1, K_mf_entry_len) = LogSize(n, K_mf_entry_len) + g
        /\ LogSize(n, K_mf_entry_len) \in Nat
    BY <1>F, GrowthNat
  <2>3. held = MaxAllocSize(i.len) - i.grown /\ held2 = 0
    BY <2>1 DEF HeldBy
  <2>4. mf'[t].st = mf[t].st /\ mf'[t].n = n + 1
    <3>1. \A x \in Mfs : [x EXCEPT !.n = @ + 1].st = x.st /\ [x EXCEPT !.n = @ + 1].n = x.n + 1
      BY DEF Mfs
    <3> QED
      BY <1>F, <2>1, <3>1
  <2>5. Sizes'[t] = Sizes[t] + g
    <3>1. IdxSize(t)' = IdxSize(t)
      BY <2>1 DEF IdxSize
    <3>2. MfSize(t)' = MfSize(t) + g
      <4> HIDE DEF g
      <4> QED
        BY <1>L, <2>1, <2>2, <2>4 DEF MfSize, Complete
    <3> QED
      BY <1>F, <1>S, <2>1, <2>2, <3>1, <3>2 DEF TripletSize
  <2>6. t \in Counted /\ idx'[t].st # "none"
    BY <1>L, <2>1 DEF Complete
  <2> HIDE DEF held, held2, g
  <2> QED
    BY <1>0, <1>M, <1>S, <1>W, <2>1, <2>2, <2>3, <2>5, <2>6
<1>7. CASE PutIdxFails(w) \/ PutMfFails(w)
  <2>1. /\ UNCHANGED <<bin, cacheVars>> /\ i.pc \in {"idx", "mf"} /\ job'[w].pc = "rollback"
        /\ total' = total - MaxAllocSize(i.len) /\ drift' = drift + i.grown
    <3>1. UNCHANGED <<bin, cacheVars>> /\ i.pc \in {"idx", "mf"} /\ GiveUpPut(w)
      BY <1>7 DEF PutIdxFails, PutMfFails
    <3>2. job'[w] = [i EXCEPT !.pc = "rollback"]
      BY <1>0, <3>1 DEF GiveUpPut
    <3>3. job'[w].pc = "rollback"
      BY <1>0, <1>P, <3>2
    <3> QED
      BY <3>1, <3>3 DEF GiveUpPut
  <2>2. /\ idx'[t] \in {idx[t], [idx[t] EXCEPT !.st = "broken"]}
        /\ mf'[t] \in {mf[t], [mf[t] EXCEPT !.st = "broken"]}
        /\ \A s \in TripletIds \ {t} : idx'[s] = idx[s] /\ mf'[s] = mf[s]
    BY <1>0, <1>7 DEF PutIdxFails, PutMfFails, FilesInv, TypeOK
  <2>3. held = MaxAllocSize(i.len) - i.grown /\ held2 = 0
    BY <2>1 DEF HeldBy
  <2>4. /\ idx'[t].st \in Complete /\ idx'[t].entries = idx[t].entries
        /\ mf'[t].st \in Complete /\ mf'[t].n = mf[t].n
    <3>1. \A x \in Idxs : /\ [x EXCEPT !.st = "broken"].st = "broken"
                          /\ [x EXCEPT !.st = "broken"].entries = x.entries
      BY DEF Idxs
    <3>2. \A x \in Mfs : [x EXCEPT !.st = "broken"].st = "broken" /\ [x EXCEPT !.st = "broken"].n = x.n
      BY DEF Mfs
    <3> QED
      BY <1>F, <1>L, <2>1, <2>2, <3>1, <3>2 DEF Complete
  <2>5. Sizes'[t] = Sizes[t]
    <3>1. idx[t].st \in Complete /\ mf[t].st \in Complete
      BY <1>L, <2>1
    <3> QED
      BY <1>0, <2>1, <2>4, <3>1, SizeStays DEF Complete
  <2>6. t \in Counted /\ idx'[t].st # "none"
    BY <1>L, <2>1, <2>4 DEF Complete
  <2> HIDE DEF held, held2
  <2> QED
    BY <1>0, <1>M, <1>S, <1>W, <2>1, <2>2, <2>3, <2>5, <2>6
<1>8. ~TornPutBin(w) /\ ~SealPanics(w)
  BY DEF Dies
<1> HIDE DEF i, held, held2
<1> QED
  BY <1>1, <1>2, <1>3, <1>4, <1>5, <1>6, <1>7, <1>8 DEF Put

(* No step of the process loses a byte. *)
LEMMA BalanceStep ==
  ASSUME FilesInv, FilesInv', Balance, [Next]_vars
  PROVE  Balance'
<1>T. /\ Sum(Sizes, Counted) \in Int /\ Sum(Held, Writers) \in Int
      /\ total \in Int /\ drift \in Int
  <2>1. total \in Int /\ drift \in Int
    BY DEF FilesInv, TypeOK
  <2> QED
    BY <2>1, AccountTypes, IdsFinite, SumRemove DEF AccountsTyped
<1>1. CASE Dies
  BY <1>1, DiesDie DEF Die, Balance
<1>2. CASE Start /\ ~Dies
  BY <1>2, StartBalance
<1>3. ASSUME NEW w \in Writers, Put(w), ~Dies
      PROVE  Balance'
  BY <1>3, PutBalance
<1>4. ASSUME NEW f \in Files, Request(f)
      PROVE  Balance'
  <2>1. at # "down" /\ UNCHANGED <<diskVars, cacheVars, total, drift, job>>
    BY <1>4 DEF Request, OnlyJobs
  <2> QED
    BY <2>1, NothingMoves
<1>5. ASSUME NEW w \in Writers, NEW f \in Files, StartPut(w, f)
      PROVE  Balance'
  <2>1. at # "down" /\ UNCHANGED <<diskVars, cacheVars, total, drift>> /\ job[w].pc = "idle"
    BY <1>5 DEF StartPut, OnlyJobs
  <2>2. job'[w].pc = "reserve" /\ \A v \in Writers \ {w} : job'[v] = job[v]
    BY <1>5 DEF StartPut, IdleJob, FilesInv, TypeOK
  <2>3. \A v \in Writers : HeldBy(job'[v]) = HeldBy(job[v])
    BY <2>1, <2>2 DEF HeldBy
  <2> QED
    BY <2>1, <2>3, NothingMoves
<1>6. CASE OpenReplacements
  <2>1. PICK ids \in SUBSET Triplets :
          /\ Cardinality(ids) = Cardinality(Full) /\ \A t \in ids : Fresh(t)
          /\ CreateTriplets(ids, "open") /\ open' = open \cup ids
    BY <1>6 DEF OpenReplacements
  <2>2. /\ total' = total + Cardinality(Full) * EmptyTripletSize
        /\ UNCHANGED <<closed, large, job, drift>> /\ at = "up" /\ at' = "up"
    BY <1>6 DEF OpenReplacements
  <2>3. Loaded' = Loaded \cup ids
    BY <2>1, <2>2 DEF Loaded
  <2>4. CreatedJoin(ids)
    BY <2>1, <2>3, CreatedCounts
  <2>5. Held' = Held
    BY <2>2 DEF Held
  <2>6. Cardinality(ids) * EmptyTripletSize \in Int
    <3>1. Cardinality(ids) \in Int
      BY <2>1, IdsFinite, FS_Subset, FS_CardinalityType DEF TripletIds
    <3> QED
      BY <3>1 DEF EmptyTripletSize
  <2>7. Cardinality(Full) * EmptyTripletSize = Cardinality(ids) * EmptyTripletSize
    BY <2>1
  <2> DEFINE grown == Cardinality(ids) * EmptyTripletSize
  <2>8. total' = total + grown /\ Sum(Sizes', Counted') = Sum(Sizes, Counted) + grown
    BY <2>2, <2>4, <2>7 DEF CreatedJoin
  <2>9. grown \in Int /\ total + drift = Sum(Sizes, Counted) + Sum(Held, Writers)
    BY <2>2, <2>6 DEF Balance
  <2> HIDE DEF grown
  <2> QED
    BY <1>T, <2>2, <2>5, <2>8, <2>9 DEF Balance
<1>7. ASSUME NEW t \in TripletIds, CloseTriplet(t)
      PROVE  Balance'
  <2>1. /\ UNCHANGED <<mf, bin, large, total, job, drift, at>> /\ at = "up" /\ t \in closing
        /\ closed' = closed \cup {t} /\ open' = open \ {t}
        /\ idx' = [idx EXCEPT ![t].state = "closed"]
    BY <1>7 DEF CloseTriplet, FilesInv, PhaseSound
  <2>2. \A s \in TripletIds : idx'[s].st = idx[s].st /\ idx'[s].entries = idx[s].entries
    <3>1. \A x \in Idxs : /\ [x EXCEPT !.state = "closed"].st = x.st
                          /\ [x EXCEPT !.state = "closed"].entries = x.entries
      BY DEF Idxs
    <3> QED
      BY <2>1, <3>1 DEF FilesInv, TypeOK
  <2>3. \A s \in TripletIds : Sizes'[s] = Sizes[s]
    BY <2>1, <2>2, SizeStays
  <2>4. Counted' = Counted
    <3>1. t \in Loaded
      BY <2>1 DEF FilesInv, PlacedSound
    <3>2. Loaded' = Loaded
      BY <2>1, <3>1 DEF Loaded
    <3>3. Found' = Found
      BY <2>2 DEF Found, TripletIds
    <3> QED
      BY <3>2, <3>3 DEF Counted
  <2>5. Sum(Sizes', Counted') = Sum(Sizes, Counted)
    BY <2>3, <2>4, SizesStay
  <2>6. Held' = Held
    BY <2>1 DEF Held
  <2> QED
    BY <2>1, <2>5, <2>6 DEF Balance
<1>8. CASE UNCHANGED vars
  <2>1. UNCHANGED <<diskVars, cacheVars, total, drift, job, at>>
    BY <1>8 DEF vars
  <2>2. CASE at = "down"
    BY <2>1, <2>2 DEF Balance
  <2>3. CASE at # "down"
    BY <2>1, <2>3, NothingMoves
  <2> QED
    BY <2>2, <2>3
<1>9. ASSUME NEW t \in Triplets, AppendAfterPurge(t)
      PROVE  Balance'
  <2>1. /\ UNCHANGED <<idx, mf, at, open, closed, large, total, drift, job>> /\ at = "up"
        /\ t \in TripletIds /\ \A s \in TripletIds \ {t} : bin'[s] = bin[s]
    BY <1>9, StrayBin DEF FilesInv
  <2>2. t \notin Counted
    BY <1>9, StrayBin DEF FilesInv, Counted, Found
  <2>3. Counted' = Counted /\ Held' = Held
    BY <2>1 DEF Counted, Found, Loaded, Held
  <2>4. ASSUME NEW s \in TripletIds \ {t}
        PROVE  Sizes'[s] = Sizes[s]
    <3>1. idx'[s] = idx[s] /\ mf'[s] = mf[s] /\ bin'[s] = bin[s]
      BY <2>1
    <3> QED
      BY <3>1, SizeStays
  <2>5. Sum(Sizes', Counted) = Sum(Sizes, Counted)
    <3>1. /\ Sizes \in [TripletIds -> Int] /\ Sizes' \in [TripletIds -> Int]
          /\ Counted \in SUBSET TripletIds
      BY AccountTypes, AccountTypesNext DEF AccountsTyped
    <3>2. \A s \in Counted : Sizes[s] = Sizes'[s]
      BY <2>2, <2>4, <3>1
    <3> QED
      BY <3>1, <3>2, IdsFinite, SumSame
  <2> QED
    BY <2>1, <2>3, <2>5 DEF Balance
<1> QED
  BY <1>1, <1>2, <1>3, <1>4, <1>5, <1>6, <1>7, <1>8, <1>9 DEF Next, Dies

(* The whole invariant, with the accounts. *)
LEMMA StoreInvStep == (Init => StoreInv) /\ (StoreInv /\ [Next]_vars => StoreInv')
<1>1. Init => Balance
  BY DEF Init, Balance
<1> QED
  BY <1>1, FilesInvStep, BalanceStep DEF StoreInv

-----------------------------------------------------------------------------
(* The properties of the storage run. *)

(* TypeOK: the variables have their types, whatever is killed, torn and cleaned up. *)
THEOREM StoreTypes == Spec => []TypeOK
<1>1. FilesInv => TypeOK
  BY DEF FilesInv
<1> QED
  BY <1>1, FilesInvStep, PTL DEF Spec

(* ReadyReadable: what a READY row names, unless it was stored without a byte, can be read from its
   triplet, for any history of writes, short writes, kills, clean-ups and starts. *)
THEOREM ReadyRowsReadable == Spec => []ReadyReadable
<1>1. FilesInv => ReadyReadable
  BY DEF FilesInv, RowsBacked, RowBacked, ReadyReadable
<1> QED
  BY <1>1, FilesInvStep, PTL DEF Spec

(* OwnersLoadable: the files of every owner of a READY row are written in full. *)
THEOREM OwnersAreLoadable == Spec => []OwnersLoadable
<1>1. FilesInv => OwnersLoadable
  BY DEF FilesInv, RowsBacked, RowBacked, OwnersLoadable, Complete
<1> QED
  BY <1>1, FilesInvStep, PTL DEF Spec

(* NoOrphanLeft: a process that serves knows every triplet that has an index, and every binary file
   but those that a Put made again after a purge. *)
THEOREM NoOrphans == Spec => []NoOrphanLeft
<1>1. FilesInv => NoOrphanLeft
  BY DEF FilesInv, PhaseSound, DiskSound, NoOrphanLeft, Found, TripletIds
<1> QED
  BY <1>1, FilesInvStep, PTL DEF Spec

(* AccountsBalance: while a process serves, totalBytes never falls behind the bytes on disk, and
   between writes it is exact, but for what a failed append or a start without files left. *)
THEOREM AccountsAlwaysBalance == Spec => []AccountsBalance
<1>1. StoreInv => AccountsBalance
  <2> SUFFICES ASSUME StoreInv, at = "up"
               PROVE  AccountsBalance
    BY DEF AccountsBalance
  <2>1. Counted = Loaded /\ Loaded \in SUBSET TripletIds
    <3>1. Loaded \in SUBSET TripletIds
      BY DEF StoreInv, FilesInv, TypeOK, Loaded, TripletIds
    <3>2. Found = Loaded \cap Triplets
      BY DEF StoreInv, FilesInv, PhaseSound
    <3> QED
      BY <3>1, <3>2 DEF Counted, TripletIds
  <2>2. SizeOf(Loaded) = Sum(Sizes, Loaded) /\ Sum(Sizes, Loaded) \in Int
    BY <2>1, SizeOfIsSum, AccountTypes, IdsFinite, SumRemove DEF AccountsTyped, StoreInv
  <2>3. total + drift = SizeOf(Loaded) + Sum(Held, Writers)
    BY <2>1, <2>2 DEF StoreInv, Balance
  <2>4. Held \in [Writers -> Int] /\ \A w \in Writers : Held[w] = HeldBy(job[w]) /\ Held[w] >= 0
    BY AccountTypes DEF AccountsTyped, StoreInv
  <2>5. Sum(Held, Writers) \in Nat
    BY <2>4, IdsFinite, SumNat
  <2>6. SizeOf(Loaded) <= total + drift
    BY <2>2, <2>3, <2>5
  <2>7. ASSUME \A w \in Writers : job[w].pc \in {"idle", "reserve", "seal", "rollback"}
        PROVE  SizeOf(Loaded) = total + drift
    <3>1. \A w \in Writers : Held[w] = 0
      BY <2>4, <2>7 DEF HeldBy
    <3>2. Sum(Held, Writers) = 0
      BY <2>4, <3>1, IdsFinite, SumZero
    <3> QED
      BY <2>2, <2>3, <3>2
  <2> QED
    BY <2>6, <2>7 DEF AccountsBalance
<1> QED
  BY <1>1, StoreInvStep, PTL DEF Spec
=============================================================================
