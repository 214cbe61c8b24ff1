----------------------- MODULE PersistentCacheProofs -----------------------
(* What the abstract cache promises, for every value of the constants.        *)
EXTENDS PersistentCache, TLAPS

LEMMA TypeStep ==
  ASSUME TypeOK, [Next]_vars
  PROVE  TypeOK'
<1> USE DEF TypeOK
<1>1. ASSUME NEW f \in Files, Update(f)
      PROVE  TypeOK'
  BY <1>1 DEF Update, Versions
<1>2. ASSUME NEW f \in Files, Fetch(f)
      PROVE  TypeOK'
  BY <1>2 DEF Fetch
<1>3. ASSUME NEW f \in Files, Store(f)
      PROVE  TypeOK'
  <2>1. PICK v \in download[f] :
          /\ content' = [content EXCEPT ![f] = {v}]
          /\ newest' = [newest EXCEPT ![f] = v]
          /\ kept' = [kept EXCEPT ![f] = @ \cup {v}]
          /\ download' = [download EXCEPT ![f] = {}]
          /\ UNCHANGED <<origin, view>>
    BY <1>3 DEF Store
  <2>2. v \in Versions
    OBVIOUS
  <2> QED
    BY <2>1, <2>2
<1>4. ASSUME NEW f \in Files, GiveUp(f)
      PROVE  TypeOK'
  BY <1>4 DEF GiveUp
<1>5. ASSUME NEW lost \in SUBSET Files, Lose(lost)
      PROVE  TypeOK'
  BY <1>5 DEF Lose
<1>6. ASSUME NEW r \in Readers, NEW f \in Files, Look(r, f)
      PROVE  TypeOK'
  <2>1. PICK v \in content[f] : view' = [view EXCEPT ![r] = {<<f, v>>}]
    BY <1>6 DEF Look
  <2>2. {<<f, v>>} \in SUBSET (Files \X Versions)
    OBVIOUS
  <2> QED
    BY <1>6, <2>1, <2>2 DEF Look
<1>7. ASSUME NEW r \in Readers, Reply(r)
      PROVE  TypeOK'
  BY <1>7 DEF Reply
<1>8. CASE Crash
  BY <1>8 DEF Crash
<1>9. CASE UNCHANGED vars
  BY <1>9 DEF vars
<1> QED
  BY <1>1, <1>2, <1>3, <1>4, <1>5, <1>6, <1>7, <1>8, <1>9 DEF Next

(* The state is typed: a version is one of the origin's. *)
THEOREM Typed == Spec => []TypeOK
<1>1. Init => TypeOK
  BY DEF Init, TypeOK, Versions
<1> QED
  BY <1>1, TypeStep, PTL DEF Spec

-----------------------------------------------------------------------------
LEMMA NewestStep ==
  ASSUME TypeOK, NewestKept, [Next]_vars
  PROVE  NewestKept' /\ \A f \in Files : newest[f] <= newest'[f]
<1> USE DEF TypeOK, Versions, NewestKept
<1>1. ASSUME NEW f \in Files, Update(f)
      PROVE  NewestKept' /\ UNCHANGED newest
  BY <1>1 DEF Update
<1>2. ASSUME NEW f \in Files, Fetch(f)
      PROVE  NewestKept' /\ UNCHANGED newest
  BY <1>2 DEF Fetch
<1>3. ASSUME NEW f \in Files, Store(f)
      PROVE  NewestKept' /\ \A g \in Files : newest[g] <= newest'[g]
  <2>1. PICK v \in download[f] :
          /\ content' = [content EXCEPT ![f] = {v}]
          /\ newest' = [newest EXCEPT ![f] = v]
          /\ kept' = [kept EXCEPT ![f] = @ \cup {v}]
          /\ download' = [download EXCEPT ![f] = {}]
          /\ UNCHANGED <<origin, view>>
    BY <1>3 DEF Store
  <2>2. v \in Versions /\ newest[f] <= v /\ v <= origin[f]
    OBVIOUS
  <2> QED
    BY <2>1, <2>2
<1>4. ASSUME NEW f \in Files, GiveUp(f)
      PROVE  NewestKept' /\ UNCHANGED newest
  BY <1>4 DEF GiveUp
<1>5. ASSUME NEW lost \in SUBSET Files, Lose(lost)
      PROVE  NewestKept' /\ UNCHANGED newest
  BY <1>5 DEF Lose
<1>6. ASSUME NEW r \in Readers, NEW f \in Files, Look(r, f)
      PROVE  NewestKept' /\ UNCHANGED newest
  BY <1>6 DEF Look
<1>7. ASSUME NEW r \in Readers, Reply(r)
      PROVE  NewestKept' /\ UNCHANGED newest
  BY <1>7 DEF Reply
<1>8. CASE Crash
  BY <1>8 DEF Crash
<1>9. CASE UNCHANGED vars
  BY <1>9 DEF vars
<1>10. UNCHANGED newest => \A f \in Files : newest[f] <= newest'[f]
  OBVIOUS
<1> QED
  BY <1>1, <1>2, <1>3, <1>4, <1>5, <1>6, <1>7, <1>8, <1>9, <1>10 DEF Next

(* What is kept is what was kept last, and what is on its way is as new as the
   origin was when it was fetched. *)
THEOREM KeepsNewest == Spec => []NewestKept
<1>1. Init => NewestKept
  <2> SUFFICES ASSUME Init, NEW f \in Files
               PROVE  /\ \A v \in content[f] : v = newest[f]
                      /\ \A v \in download[f] : newest[f] <= v /\ v <= origin[f]
                      /\ newest[f] <= origin[f]
    BY Zenon DEF NewestKept
  <2>1. content[f] = {} /\ download[f] = {}
    BY DEF Init
  <2>2. newest[f] = 0 /\ origin[f] = 0
    BY DEF Init
  <2>3. newest[f] <= origin[f]
    BY <2>2
  <2> QED
    BY <2>1, <2>3, Zenon
<1> QED
  BY <1>1, NewestStep, Typed, PTL DEF Spec

(* A file is never kept in a version older than one it was kept in before. *)
THEOREM NeverGetsOlder == Spec => NeverOlder
<1>1. TypeOK /\ NewestKept /\ [Next]_vars => [\A f \in Files : newest[f] <= newest'[f]]_newest
  BY NewestStep
<1> QED
  BY <1>1, Typed, KeepsNewest, PTL DEF Spec, NeverOlder

-----------------------------------------------------------------------------
(* The history tells the truth: what is kept was kept, and nothing that was kept
   is newer than the newest. *)
KeptHistory ==
    \A f \in Files :
        /\ content[f] \subseteq kept[f]
        /\ \A v \in kept[f] : v <= newest[f]

LEMMA HistoryStep ==
  ASSUME TypeOK, NewestKept, KeptHistory, [Next]_vars
  PROVE  KeptHistory' /\ \A f \in Files : kept[f] \subseteq kept'[f]
<1> USE DEF TypeOK, Versions, KeptHistory
<1>1. ASSUME UNCHANGED <<content, newest, kept>>
      PROVE  KeptHistory' /\ \A f \in Files : kept[f] \subseteq kept'[f]
  BY <1>1
<1>2. ASSUME NEW f \in Files, Store(f)
      PROVE  KeptHistory' /\ \A g \in Files : kept[g] \subseteq kept'[g]
  <2>1. PICK v \in download[f] :
          /\ content' = [content EXCEPT ![f] = {v}]
          /\ newest' = [newest EXCEPT ![f] = v]
          /\ kept' = [kept EXCEPT ![f] = @ \cup {v}]
    BY <1>2 DEF Store
  <2>2. v \in Versions /\ newest[f] \in Versions /\ newest[f] <= v
    BY DEF NewestKept
  <2>3. \A g \in Files \ {f} : content'[g] = content[g] /\ newest'[g] = newest[g] /\ kept'[g] = kept[g]
    BY <2>1
  <2>4. content'[f] = {v} /\ newest'[f] = v /\ kept'[f] = kept[f] \cup {v}
    BY <2>1
  <2>5. \A u \in kept[f] : u \in Versions /\ u <= newest[f]
    OBVIOUS
  <2>6. \A u \in kept'[f] : u <= newest'[f]
    BY <2>2, <2>4, <2>5
  <2>7. content'[f] \subseteq kept'[f] /\ kept[f] \subseteq kept'[f]
    BY <2>4
  <2> QED
    BY <2>3, <2>6, <2>7
<1>3. ASSUME NEW lost \in SUBSET Files, Lose(lost)
      PROVE  KeptHistory' /\ \A f \in Files : kept[f] \subseteq kept'[f]
  BY <1>3 DEF Lose
<1>4. UNCHANGED <<content, newest, kept>> \/ (\E f \in Files : Store(f))
      \/ (\E lost \in SUBSET Files : Lose(lost))
  BY DEF Next, vars, Update, Fetch, GiveUp, Look, Reply, Crash
<1> QED
  BY <1>1, <1>2, <1>3, <1>4

(* The versions that were kept are there for good, the newest is the largest,
   and what is kept now is one of them. *)
THEOREM HistoryHolds == Spec => []KeptHistory
<1>1. Init => KeptHistory
  BY DEF Init, KeptHistory
<1> QED
  BY <1>1, HistoryStep, Typed, KeepsNewest, PTL DEF Spec

(* A request answers with a version that was kept: one a writer stored before
   the request looked, not one that was fetched and given up. *)
THEOREM AnswersKept == Spec => []AnswersWereKept
<1>1. Init => AnswersWereKept
  BY DEF Init, AnswersWereKept
<1>2. TypeOK /\ NewestKept /\ KeptHistory /\ AnswersWereKept /\ [Next]_vars => AnswersWereKept'
  <2> SUFFICES ASSUME TypeOK, NewestKept, KeptHistory, AnswersWereKept, [Next]_vars,
                      NEW r \in Readers, NEW p \in view'[r]
               PROVE  p[2] \in kept'[p[1]]
    BY DEF AnswersWereKept
  <2>1. \A f \in Files : kept[f] \subseteq kept'[f]
    BY HistoryStep
  <2>2. view \in [Readers -> SUBSET (Files \X Versions)] /\ view' \in [Readers -> SUBSET (Files \X Versions)]
    BY TypeStep DEF TypeOK
  <2>3. p[1] \in Files /\ p[2] \in Versions
    BY <2>2
  <2>4. CASE p \in view[r]
    BY <2>1, <2>3, <2>4 DEF AnswersWereKept
  <2>5. ASSUME NEW f \in Files, Look(r, f)
        PROVE  p[2] \in kept'[p[1]]
    <3>1. PICK v \in content[f] : view' = [view EXCEPT ![r] = {<<f, v>>}]
      BY <2>5 DEF Look
    <3>2. p = <<f, v>>
      BY <2>2, <3>1
    <3>3. v \in kept[f]
      BY DEF KeptHistory
    <3> QED
      BY <2>1, <3>2, <3>3
  <2>6. p \in view[r] \/ \E f \in Files : Look(r, f)
    BY <2>2 DEF Next, vars, Update, Fetch, Store, GiveUp, Lose, Look, Reply, Crash
  <2> QED
    BY <2>4, <2>5, <2>6
<1> QED
  BY <1>1, <1>2, Typed, KeepsNewest, HistoryHolds, PTL DEF Spec
=============================================================================
