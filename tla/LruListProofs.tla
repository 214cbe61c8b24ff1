--------------------------- MODULE LruListProofs ---------------------------
(* The steps of the goroutines that share one LRU list: types, the order of   *)
(* the list and that nothing is lost, for any triplets and any requests.      *)
EXTENDS LruList, TripletLruProofs, SequenceTheorems

(* Keys a caller works with: a request past its look-up has found the key, and
   a purge waits for it; a Put's key is new until it is stored, and nobody
   reads while it works. *)
CallerInv ==
    /\ \A r \in Getters : get[r].pc \in {"unlink", "relink"} => get[r].key \in lru.dict
    /\ put.pc # "idle" => put.key \in Triplets \ lru.dict
    /\ put.pc \in {"size", "count", "add", "store"} => NoReaders

(* The order holds a key once, and keys of the dictionary only, but for the
   one a Put is about to store. *)
OrderInv ==
    /\ IsInjective(order)
    /\ \A t \in Triplets : Contains(order, t) => t \in lru.dict \/ (put.pc = "store" /\ t = put.key)

(* A node in hand belongs to one request, and no list has it. *)
HandsApart ==
    \A r \in Getters : get[r].pc = "relink" =>
        /\ ~Contains(order, get[r].key) /\ get[r].key \notin victims
        /\ \A q \in Getters : get[q].pc = "relink" /\ get[q].key = get[r].key => q = r

(* A victim evicted since the last change still has the sentinel and the last
   node for neighbours, so that its purge changes nothing. *)
VictimsApart ==
    \A v \in victims : /\ v \in Triplets /\ ~Contains(order, v)
                       /\ v \notin moved => /\ lru.next[v] = ListTail
                                            /\ lru.prev[v] = lru.prev[ListTail]

(* A key cannot be evicted before it is in the list. *)
NewKeyApart == put.pc \notin {"idle", "store"} => put.key \notin victims

(* NothingLost, and the key a Put is about to store. *)
AllKept ==
    /\ \A t \in lru.dict : Contains(order, t) \/ InHand(t) \/ t \in victims
    /\ put.pc = "store" => Contains(order, put.key) \/ put.key \in victims

(* What holds until the list is spoilt. *)
Unspoilt == Linked(lru, order) /\ HandsApart /\ VictimsApart /\ NewKeyApart /\ AllKept

IInv == TypeOK /\ CallerInv /\ OrderInv /\ (~clashed => Unspoilt)

-----------------------------------------------------------------------------
(* Sequences without one of their elements, and links. *)

(* Taking out the element at a position moves the later ones down by one. *)
LEMMA RemoveAtFacts ==
  ASSUME NEW s \in Seq(Triplets), NEW i \in DOMAIN s
  PROVE  /\ RemoveAt(s, i) \in Seq(Triplets)
         /\ Len(RemoveAt(s, i)) = Len(s) - 1
         /\ \A j \in 1..(Len(s) - 1) : RemoveAt(s, i)[j] = IF j < i THEN s[j] ELSE s[j + 1]
<1> DEFINE a == SubSeq(s, 1, i - 1)
           b == SubSeq(s, i + 1, Len(s))
<1>1. i \in 1..Len(s) /\ Len(s) \in Nat
  OBVIOUS
<1>2. a \in Seq(Triplets) /\ Len(a) = i - 1 /\ \A j \in 1..(i - 1) : a[j] = s[j]
  BY <1>1
<1>3. b \in Seq(Triplets) /\ Len(b) = Len(s) - i /\ \A j \in 1..(Len(s) - i) : b[j] = s[i + j]
  BY <1>1
<1>4. RemoveAt(s, i) = a \o b
  BY DEF RemoveAt
<1> HIDE DEF a, b
<1>5. a \o b \in Seq(Triplets) /\ Len(a \o b) = Len(a) + Len(b)
  BY <1>2, <1>3, ConcatProperties
<1>6. \A j \in 1..(Len(a) + Len(b)) : (a \o b)[j] = IF j <= Len(a) THEN a[j] ELSE b[j - Len(a)]
  BY <1>2, <1>3, ConcatProperties
<1>7. ASSUME NEW j \in 1..(Len(s) - 1)
      PROVE  RemoveAt(s, i)[j] = IF j < i THEN s[j] ELSE s[j + 1]
  <2>1. CASE j < i
    BY <2>1, <1>1, <1>2, <1>3, <1>4, <1>6
  <2>2. CASE ~(j < i)
    <3>1. j - Len(a) = j - i + 1 /\ j - i + 1 \in 1..(Len(s) - i) /\ i + (j - i + 1) = j + 1
      BY <2>2, <1>1, <1>2
    <3>2. RemoveAt(s, i)[j] = b[j - i + 1]
      <4>1. j \in 1..(Len(a) + Len(b)) /\ ~(j <= Len(a))
        BY <2>2, <1>1, <1>2, <1>3
      <4> QED
        BY <4>1, <3>1, <1>4, <1>6
    <3> QED
      BY <3>1, <3>2, <2>2, <1>3
  <2> QED
    BY <2>1, <2>2
<1>8. Len(a) + Len(b) = Len(s) - 1
  BY <1>1, <1>2, <1>3
<1> QED
  BY <1>4, <1>5, <1>7, <1>8

(* RemoveFirst takes out the one position that holds the key, if there is one. *)
LEMMA RemoveFirstIsRemoveAt ==
  ASSUME NEW s \in Seq(Triplets), IsInjective(s), NEW i \in DOMAIN s
  PROVE  RemoveFirst(s, s[i]) = RemoveAt(s, i)
<1>1. {j \in 1..Len(s) : s[j] = s[i]} = {i} /\ i \in 1..Len(s)
  BY DEF IsInjective
<1>2. Min({i}) = i
  BY <1>1 DEF Min
<1>3. SelectInSeq(s, LAMBDA v : v = s[i]) = i
  BY <1>1, <1>2 DEF SelectInSeq
<1> QED
  BY <1>1, <1>3 DEF RemoveFirst

(* A key taken out of the order, which holds it at most once. *)
LEMMA RemoveFirstFacts ==
  ASSUME NEW s \in Seq(Triplets), IsInjective(s), NEW t
  PROVE  /\ RemoveFirst(s, t) \in Seq(Triplets)
         /\ IsInjective(RemoveFirst(s, t))
         /\ \A x : Contains(RemoveFirst(s, t), x) <=> Contains(s, x) /\ x # t
<1>1. CASE ~Contains(s, t)
  <2>1. RemoveFirst(s, t) = s
    BY <1>1 DEF RemoveFirst, Contains
  <2> QED
    BY <2>1, <1>1 DEF Contains
<1>2. CASE Contains(s, t)
  <2>1. PICK i \in DOMAIN s : s[i] = t
    BY <1>2 DEF Contains
  <2> DEFINE w == RemoveAt(s, i)
  <2>2. RemoveFirst(s, t) = w
    BY <2>1, RemoveFirstIsRemoveAt
  <2>3. /\ w \in Seq(Triplets) /\ Len(w) = Len(s) - 1
        /\ \A j \in 1..(Len(s) - 1) : w[j] = IF j < i THEN s[j] ELSE s[j + 1]
    BY RemoveAtFacts
  <2> HIDE DEF w
  <2>4. DOMAIN w = 1..(Len(s) - 1) /\ DOMAIN s = 1..Len(s) /\ Len(s) \in Nat
    BY <2>3
  <2> DEFINE old(j) == IF j < i THEN j ELSE j + 1
  <2>5. \A j \in DOMAIN w : old(j) \in DOMAIN s /\ old(j) # i /\ w[j] = s[old(j)]
    BY <2>3, <2>4
  <2>6. \A j, k \in DOMAIN w : old(j) = old(k) => j = k
    BY <2>4
  <2> HIDE DEF old
  <2>7. IsInjective(w)
    BY <2>5, <2>6 DEF IsInjective
  <2>8. ASSUME NEW x, Contains(w, x)
        PROVE  Contains(s, x) /\ x # t
    <3>1. PICK j \in DOMAIN w : w[j] = x
      BY <2>4, <2>3, <2>8 DEF Contains
    <3>2. x # t
      BY <3>1, <2>1, <2>5 DEF IsInjective
    <3> QED
      BY <3>1, <3>2, <2>4, <2>5 DEF Contains
  <2>9. ASSUME NEW x, Contains(s, x), x # t
        PROVE  Contains(w, x)
    <3>1. PICK k \in 1..Len(s) : s[k] = x
      BY <2>9, <2>4 DEF Contains
    <3>2. CASE k < i
      BY <3>1, <3>2, <2>3, <2>4 DEF Contains
    <3>3. CASE k > i
      <4>1. k - 1 \in 1..(Len(s) - 1) /\ ~(k - 1 < i) /\ (k - 1) + 1 = k
        BY <3>3, <2>4
      <4> QED
        BY <4>1, <3>1, <2>3, <2>4 DEF Contains
    <3>4. k # i
      BY <3>1, <2>1, <2>9
    <3> QED
      BY <3>2, <3>3, <3>4, <2>4
  <2> QED
    BY <2>2, <2>3, <2>7, <2>8, <2>9
<1> QED
  BY <1>1, <1>2

(* A key that is appended where it is not yet. *)
LEMMA AppendFacts ==
  ASSUME NEW s \in Seq(Triplets), IsInjective(s), NEW t \in Triplets, ~Contains(s, t)
  PROVE  /\ Append(s, t) \in Seq(Triplets)
         /\ IsInjective(Append(s, t))
         /\ \A x : Contains(Append(s, t), x) <=> Contains(s, x) \/ x = t
<1> DEFINE w == Append(s, t)
<1>1. /\ w \in Seq(Triplets) /\ Len(w) = Len(s) + 1
      /\ \A j \in 1..Len(s) : w[j] = s[j]
      /\ w[Len(s) + 1] = t
  OBVIOUS
<1> HIDE DEF w
<1>2. DOMAIN w = 1..(Len(s) + 1) /\ DOMAIN s = 1..Len(s) /\ Len(s) \in Nat
  BY <1>1
<1>3. \A j \in DOMAIN w : j \in DOMAIN s \/ j = Len(s) + 1
  BY <1>2
<1>4. \A j \in 1..Len(s) : s[j] # t
  BY <1>2 DEF Contains
<1>5. IsInjective(w)
  BY <1>1, <1>2, <1>4 DEF IsInjective
<1>6. ASSUME NEW x
      PROVE  Contains(w, x) <=> Contains(s, x) \/ x = t
  BY <1>1, <1>2 DEF Contains
<1> QED
  BY <1>1, <1>5, <1>6 DEF w

(* The positions from one sentinel to the other hold different nodes. *)
LEMMA NodeAtFacts ==
  ASSUME NEW s \in Seq(Triplets), IsInjective(s)
  PROVE  /\ Len(s) \in Nat /\ DOMAIN s = 1..Len(s)
         /\ \A i \in 0..(Len(s) + 1) : NodeAt(s, i) \in Nodes
         /\ \A i, j \in 0..(Len(s) + 1) : NodeAt(s, i) = NodeAt(s, j) => i = j
         /\ NodeAt(s, 0) = ListTail /\ NodeAt(s, Len(s) + 1) = ListHead
         /\ \A i \in 1..Len(s) : NodeAt(s, i) = s[i] /\ s[i] \in Triplets
<1>1. Len(s) \in Nat /\ DOMAIN s = 1..Len(s)
  OBVIOUS
<1>2. NodeAt(s, 0) = ListTail /\ NodeAt(s, Len(s) + 1) = ListHead
  BY <1>1 DEF NodeAt
<1>3. \A i \in 1..Len(s) : NodeAt(s, i) = s[i] /\ s[i] \in Triplets
  BY <1>1 DEF NodeAt
<1>4. \A i \in 0..(Len(s) + 1) : i = 0 \/ i = Len(s) + 1 \/ i \in 1..Len(s)
  BY <1>1
<1>5. \A i \in 0..(Len(s) + 1) : NodeAt(s, i) \in Nodes
  BY <1>2, <1>3, <1>4 DEF Nodes
<1>6. ListHead # ListTail
  BY DEF ListHead, ListTail
<1>7. \A i, j \in 0..(Len(s) + 1) : NodeAt(s, i) = NodeAt(s, j) => i = j
  BY <1>1, <1>2, <1>3, <1>4, <1>6, SentinelsAssumption DEF IsInjective
<1> QED
  BY <1>1, <1>2, <1>3, <1>5, <1>7

(* deleteNode of a node of the list: the list is without it. The node keeps
   its own pointers. *)
LEMMA LinkedDelete ==
  ASSUME NEW c \in LruCache, NEW s \in Seq(Triplets), IsInjective(s), Linked(c, s),
         NEW i \in DOMAIN s
  PROVE  /\ Linked(DeleteNode(c, s[i]), RemoveFirst(s, s[i]))
         /\ DeleteNode(c, s[i]).next[s[i]] = c.next[s[i]]
         /\ DeleteNode(c, s[i]).prev[s[i]] = c.prev[s[i]]
<1> DEFINE w == RemoveFirst(s, s[i])
           d == DeleteNode(c, s[i])
           N == Len(s)
<1>1. /\ N \in Nat /\ DOMAIN s = 1..N
      /\ \A k \in 0..(N + 1) : NodeAt(s, k) \in Nodes
      /\ \A k, j \in 0..(N + 1) : NodeAt(s, k) = NodeAt(s, j) => k = j
      /\ NodeAt(s, 0) = ListTail /\ NodeAt(s, N + 1) = ListHead
      /\ \A k \in 1..N : NodeAt(s, k) = s[k] /\ s[k] \in Triplets
  BY NodeAtFacts
<1>2. i \in 1..N /\ NodeAt(s, i) = s[i]
  BY <1>1
<1>0. N \in Nat
  BY <1>1
<1>3. /\ w \in Seq(Triplets) /\ Len(w) = N - 1
      /\ \A j \in 1..(N - 1) : w[j] = IF j < i THEN s[j] ELSE s[j + 1]
  BY RemoveFirstIsRemoveAt, RemoveAtFacts
<1>4. \A k \in 0..N : NodeAt(w, k) = IF k < i THEN NodeAt(s, k) ELSE NodeAt(s, k + 1)
  <2> SUFFICES ASSUME NEW k \in 0..N
               PROVE  NodeAt(w, k) = IF k < i THEN NodeAt(s, k) ELSE NodeAt(s, k + 1)
    OBVIOUS
  <2>1. CASE k = 0
    <3>1. NodeAt(w, 0) = ListTail /\ 0 < i
      BY <1>1, <1>2 DEF NodeAt
    <3> QED
      BY <2>1, <3>1, <1>1
  <2>2. CASE k \in 1..(N - 1)
    <3> HIDE DEF w
    <3>1. NodeAt(w, k) = w[k]
      BY <2>2, <1>3, <1>1 DEF NodeAt
    <3> QED
      BY <3>1, <2>2, <1>3, <1>1
  <2>3. CASE k = N /\ k # 0
    <3> HIDE DEF w
    <3>1. NodeAt(w, k) = ListHead
      BY <2>3, <1>3, <1>1 DEF NodeAt
    <3> QED
      BY <3>1, <2>3, <1>2, <1>1
  <2> HIDE DEF N, w
  <2> QED
    BY <2>1, <2>2, <2>3, <1>0
<1>5. /\ c.prev[s[i]] = NodeAt(s, i + 1)
      /\ c.next[s[i]] = NodeAt(s, i - 1)
  <2>1. i \in 0..N /\ i - 1 \in 0..N /\ (i - 1) + 1 = i
    BY <1>1, <1>2
  <2> QED
    BY <2>1, <1>2 DEF Linked
<1>6. /\ c.prev \in [Nodes -> Nodes] /\ c.next \in [Nodes -> Nodes]
  BY DEF LruCache
<1>7. /\ \A n \in Nodes : d.next[n] = IF n = NodeAt(s, i + 1) THEN NodeAt(s, i - 1) ELSE c.next[n]
      /\ \A n \in Nodes : d.prev[n] = IF n = NodeAt(s, i - 1) THEN NodeAt(s, i + 1) ELSE c.prev[n]
  <2>1. /\ d.next = [c.next EXCEPT ![NodeAt(s, i + 1)] = NodeAt(s, i - 1)]
        /\ d.prev = [c.prev EXCEPT ![NodeAt(s, i - 1)] = NodeAt(s, i + 1)]
    BY <1>5 DEF DeleteNode, LruCache
  <2> QED
    BY <2>1, <1>6
<1> HIDE DEF d
<1>8. Linked(d, w)
  <2> SUFFICES ASSUME NEW k \in 0..(N - 1)
               PROVE  /\ d.prev[NodeAt(w, k)] = NodeAt(w, k + 1)
                      /\ d.next[NodeAt(w, k + 1)] = NodeAt(w, k)
    BY <1>3 DEF Linked
  <2> HIDE DEF w
  <2>0. \A j \in 0..N : c.prev[NodeAt(s, j)] = NodeAt(s, j + 1) /\ c.next[NodeAt(s, j + 1)] = NodeAt(s, j)
    BY DEF Linked
  <2>1. CASE k + 1 < i
    <3>1. /\ k \in 0..(N + 1) /\ k + 1 \in 0..(N + 1) /\ i - 1 \in 0..(N + 1) /\ i + 1 \in 0..(N + 1)
          /\ k # i - 1 /\ k + 1 # i + 1 /\ k \in 0..N /\ k + 1 \in 0..N /\ k < i
      BY <2>1, <1>1, <1>2
    <3>2. NodeAt(w, k) = NodeAt(s, k) /\ NodeAt(w, k + 1) = NodeAt(s, k + 1)
      BY <3>1, <2>1, <1>4
    <3>3. NodeAt(s, k) # NodeAt(s, i - 1) /\ NodeAt(s, k + 1) # NodeAt(s, i + 1)
      BY <3>1, <1>1
    <3> QED
      BY <3>1, <3>2, <3>3, <2>0, <1>1, <1>7
  <2>2. CASE k + 1 = i
    <3>1. k \in 0..N /\ k + 1 \in 0..N /\ k < i /\ ~(k + 1 < i) /\ k = i - 1 /\ (k + 1) + 1 = i + 1
          /\ i + 1 \in 0..(N + 1) /\ i - 1 \in 0..(N + 1)
      BY <2>2, <1>1, <1>2
    <3>2. NodeAt(w, k) = NodeAt(s, i - 1) /\ NodeAt(w, k + 1) = NodeAt(s, i + 1)
      BY <3>1, <1>4
    <3> QED
      BY <3>1, <3>2, <1>1, <1>7
  <2>3. CASE k + 1 > i
    <3>1. /\ k + 1 \in 0..(N + 1) /\ (k + 1) + 1 \in 0..(N + 1) /\ i - 1 \in 0..(N + 1) /\ i + 1 \in 0..(N + 1)
          /\ k + 1 # i - 1 /\ (k + 1) + 1 # i + 1 /\ k \in 0..N /\ k + 1 \in 0..N
          /\ ~(k < i) /\ ~(k + 1 < i)
      BY <2>3, <1>1, <1>2
    <3>2. NodeAt(w, k) = NodeAt(s, k + 1) /\ NodeAt(w, k + 1) = NodeAt(s, (k + 1) + 1)
      BY <3>1, <1>4
    <3>3. NodeAt(s, k + 1) # NodeAt(s, i - 1) /\ NodeAt(s, (k + 1) + 1) # NodeAt(s, i + 1)
      BY <3>1, <1>1
    <3> QED
      BY <3>1, <3>2, <3>3, <2>0, <1>1, <1>7
  <2> QED
    BY <2>1, <2>2, <2>3, <1>1, <1>2
<1>9. d.next[s[i]] = c.next[s[i]] /\ d.prev[s[i]] = c.prev[s[i]]
  <2>1. i \in 0..(N + 1) /\ i - 1 \in 0..(N + 1) /\ i + 1 \in 0..(N + 1) /\ i # i - 1 /\ i # i + 1
    BY <1>1, <1>2
  <2>2. s[i] \in Nodes /\ s[i] # NodeAt(s, i + 1) /\ s[i] # NodeAt(s, i - 1)
    BY <2>1, <1>1, <1>2
  <2> QED
    BY <2>2, <1>7
<1> QED
  BY <1>8, <1>9 DEF d

(* addToHead of a node that is not in the list puts it next to the head. *)
LEMMA LinkedAdd ==
  ASSUME NEW c \in LruCache, NEW s \in Seq(Triplets), IsInjective(s), Linked(c, s),
         NEW t \in Triplets, ~Contains(s, t)
  PROVE  Linked(AddToHead(c, t), Append(s, t))
<1> DEFINE w == Append(s, t)
           d == AddToHead(c, t)
           N == Len(s)
<1>1. /\ N \in Nat /\ DOMAIN s = 1..N
      /\ \A k \in 0..(N + 1) : NodeAt(s, k) \in Nodes
      /\ \A k, j \in 0..(N + 1) : NodeAt(s, k) = NodeAt(s, j) => k = j
      /\ NodeAt(s, 0) = ListTail /\ NodeAt(s, N + 1) = ListHead
      /\ \A k \in 1..N : NodeAt(s, k) = s[k] /\ s[k] \in Triplets
  BY NodeAtFacts
<1>0. N \in Nat
  BY <1>1
<1>2. /\ Len(w) = N + 1
      /\ \A k \in 0..N : NodeAt(w, k) = NodeAt(s, k)
      /\ NodeAt(w, N + 1) = t /\ NodeAt(w, N + 2) = ListHead
  <2>1. w \in Seq(Triplets) /\ Len(w) = N + 1 /\ w[N + 1] = t /\ \A k \in 1..N : w[k] = s[k]
    OBVIOUS
  <2> HIDE DEF w
  <2> QED
    BY <2>1, <1>1 DEF NodeAt
<1> HIDE DEF w
<1>3. /\ c.next[ListHead] = NodeAt(s, N) /\ NodeAt(s, N) \in Nodes
  BY <1>1 DEF Linked
<1>4. t \in Nodes /\ ListHead \in Nodes /\ t # ListHead /\ t # ListTail /\ ListHead # ListTail
  BY SentinelsAssumption DEF Nodes, ListHead, ListTail
<1>5. \A k \in 0..(N + 1) : NodeAt(s, k) # t
  <2>1. \A k \in 0..(N + 1) : k = 0 \/ k = N + 1 \/ k \in 1..N
    BY <1>1
  <2> QED
    BY <2>1, <1>1, <1>4 DEF Contains
<1>6. c.prev \in [Nodes -> Nodes] /\ c.next \in [Nodes -> Nodes]
  BY DEF LruCache
<1>7. /\ d.next = [c.next EXCEPT ![t] = NodeAt(s, N), ![ListHead] = t]
      /\ d.prev = [c.prev EXCEPT ![NodeAt(s, N)] = t, ![t] = ListHead]
  BY <1>3 DEF AddToHead, LruCache
<1>8. /\ \A n \in Nodes : d.next[n] = IF n = ListHead THEN t ELSE IF n = t THEN NodeAt(s, N) ELSE c.next[n]
      /\ \A n \in Nodes : d.prev[n] = IF n = t THEN ListHead ELSE IF n = NodeAt(s, N) THEN t ELSE c.prev[n]
  BY <1>3, <1>4, <1>6, <1>7
<1> HIDE DEF d
<1>9. Linked(d, w)
  <2> SUFFICES ASSUME NEW k \in 0..(N + 1)
               PROVE  /\ d.prev[NodeAt(w, k)] = NodeAt(w, k + 1)
                      /\ d.next[NodeAt(w, k + 1)] = NodeAt(w, k)
    BY <1>2 DEF Linked
  <2>0. \A j \in 0..N : c.prev[NodeAt(s, j)] = NodeAt(s, j + 1) /\ c.next[NodeAt(s, j + 1)] = NodeAt(s, j)
    BY DEF Linked
  <2> HIDE DEF N
  <2>1. CASE k < N
    <3>1. k \in 0..N /\ k + 1 \in 0..N /\ k \in 0..(N + 1) /\ k + 1 \in 0..(N + 1) /\ k # N /\ k + 1 # N + 1
          /\ N \in 0..(N + 1) /\ N + 1 \in 0..(N + 1)
      BY <2>1, <1>0
    <3>2. NodeAt(s, k) # NodeAt(s, N) /\ NodeAt(s, k + 1) # ListHead
      BY <3>1, <1>1
    <3> QED
      <4>1. /\ NodeAt(w, k) = NodeAt(s, k) /\ NodeAt(w, k + 1) = NodeAt(s, k + 1)
            /\ NodeAt(s, k) \in Nodes /\ NodeAt(s, k + 1) \in Nodes
            /\ NodeAt(s, k) # t /\ NodeAt(s, k + 1) # t
        BY <3>1, <1>1, <1>2, <1>5
      <4> QED
        BY <3>1, <3>2, <4>1, <2>0, <1>8
  <2>2. CASE k = N
    <3>1. N \in 0..N /\ N \in 0..(N + 1)
      BY <1>1
    <3> QED
      BY <2>2, <3>1, <1>1, <1>2, <1>4, <1>5, <1>8
  <2>3. CASE k = N + 1
    <3>1. (N + 1) + 1 = N + 2
      BY <1>1
    <3> QED
      BY <2>3, <3>1, <1>1, <1>2, <1>4, <1>8
  <2> QED
    BY <2>1, <2>2, <2>3, <1>0
<1> QED
  BY <1>9 DEF d, w

(* The links depend on nothing but the pointers. *)
LEMMA LinkedPointers ==
  ASSUME NEW c, NEW d, NEW s, c.next = d.next, c.prev = d.prev, Linked(c, s)
  PROVE  Linked(d, s)
  BY DEF Linked

-----------------------------------------------------------------------------
(* The initial state. *)
LEMMA LruListInit ==
  ASSUME Init
  PROVE  IInv
<1>1. order = <<>> /\ order \in Seq(Triplets) /\ Len(order) = 0 /\ DOMAIN order = {}
  BY DEF Init
<1>2. lru \in LruCache /\ lru.dict = {} /\ lru.prev = Unlinked /\ lru.next = Unlinked
  BY LruNewType DEF Init, LruNew
<1>3. TypeOK
  <2>1. get \in [Getters -> [pc : {"idle", "load", "unlink", "relink"}, key : TripletIds]]
    BY DEF Init, NotGetting, TripletIds
  <2>2. put \in [pc : {"idle", "wait", "size", "count", "add", "store"}, key : TripletIds, seen : Int]
    BY DEF Init, NotPutting, TripletIds
  <2>3. evict \in [pc : {"idle", "count"}, seen : Int] /\ evictions \in 0..MaxEvictions
    BY LruListAssumption DEF Init, NotEvicting
  <2> QED
    BY <1>1, <1>2, <2>1, <2>2, <2>3 DEF Init, TypeOK
<1>4. CallerInv
  BY DEF Init, CallerInv, NotGetting, NotPutting
<1>5. OrderInv
  BY <1>1 DEF OrderInv, IsInjective, Contains
<1>6. Unspoilt
  <2>1. Linked(lru, order)
    <3>1. \A i \in 0..Len(order) : i = 0
      BY <1>1
    <3>2. NodeAt(order, 0) = ListTail /\ NodeAt(order, 0 + 1) = ListHead
      BY <1>1 DEF NodeAt
    <3>3. Unlinked[ListTail] = ListHead /\ Unlinked[ListHead] = ListTail
      BY DEF Unlinked, Nodes, ListHead, ListTail
    <3> QED
      BY <3>1, <3>2, <3>3, <1>1, <1>2 DEF Linked
  <2>2. HandsApart /\ VictimsApart /\ NewKeyApart /\ AllKept
    BY <1>2 DEF Init, HandsApart, VictimsApart, NewKeyApart, AllKept, NotGetting, NotPutting
  <2> QED
    BY <2>1, <2>2 DEF Unspoilt
<1> QED
  BY <1>3, <1>4, <1>5, <1>6 DEF IInv

-----------------------------------------------------------------------------
(* Get. *)

(* The read lock is taken, or the key looked up: the list is not touched. *)
LEMMA GetLockStep ==
  ASSUME IInv, NEW r \in Getters, NEW t \in Triplets, GetLock(r, t)
  PROVE  IInv'
<1> USE DEF IInv
<1>1. /\ UNCHANGED <<lru, put, evict, victims, evictions, order, moved, clashed>>
      /\ put.pc = "idle"
      /\ \A q \in Getters : get'[q] = IF q = r THEN [pc |-> "load", key |-> t] ELSE get[q]
  BY DEF GetLock, TypeOK
<1>2. TypeOK'
  BY <1>1 DEF GetLock, TypeOK, TripletIds
<1>3. CallerInv' /\ OrderInv'
  BY <1>1 DEF CallerInv, OrderInv
<1>4. \A x : InHand(x) => InHand(x)'
  BY <1>1 DEF InHand, GetLock
<1>5. Unspoilt => Unspoilt'
  BY <1>1, <1>4 DEF Unspoilt, HandsApart, VictimsApart, NewKeyApart, AllKept
<1> QED
  BY <1>1, <1>2, <1>3, <1>5

(* The look-up finds the key, or the request returns. *)
LEMMA GetLoadStep ==
  ASSUME IInv, NEW r \in Getters, GetLoad(r)
  PROVE  IInv'
<1> USE DEF IInv
<1>1. /\ UNCHANGED <<lru, put, evict, victims, evictions, order, moved, clashed>>
      /\ \A q \in Getters \ {r} : get'[q] = get[q]
      /\ get'[r] = IF get[r].key \in lru.dict THEN [pc |-> "unlink", key |-> get[r].key] ELSE NotGetting
  BY DEF GetLoad, TypeOK
<1>2. TypeOK'
  BY <1>1 DEF GetLoad, TypeOK, TripletIds, NotGetting
<1>3. NoReaders => NoReaders'
  BY <1>1 DEF NoReaders, GetLoad
<1>4. CallerInv' /\ OrderInv'
  BY <1>1, <1>3 DEF CallerInv, OrderInv, NotGetting
<1>5. \A x : InHand(x) => InHand(x)'
  BY <1>1 DEF InHand, GetLoad
<1>6. \A q \in Getters : get'[q].pc = "relink" => get'[q] = get[q]
  BY <1>1 DEF NotGetting
<1>7. Unspoilt => Unspoilt'
  BY <1>1, <1>5, <1>6 DEF Unspoilt, HandsApart, VictimsApart, NewKeyApart, AllKept
<1> QED
  BY <1>1, <1>2, <1>4, <1>7

(* The node leaves the list and is in hand: it was in the list, unless
   another request had it in hand or it was a victim. *)
LEMMA GetUnlinkStep ==
  ASSUME IInv, NEW r \in Getters, GetUnlink(r)
  PROVE  IInv'
<1> USE DEF IInv
<1> DEFINE t == get[r].key
<1>1. /\ UNCHANGED <<put, evict, victims, evictions>>
      /\ lru' = DeleteNode(lru, t)
      /\ order' = RemoveFirst(order, t)
      /\ clashed' = (clashed \/ InHand(t) \/ t \in victims)
      /\ moved' = victims
      /\ \A q \in Getters \ {r} : get'[q] = get[q]
      /\ get'[r] = [pc |-> "relink", key |-> t]
      /\ get[r].pc = "unlink"
  BY DEF GetUnlink, TypeOK, ListMoves
<1>2. t \in lru.dict /\ t \in Triplets /\ t \in Nodes /\ lru \in LruCache
  BY <1>1 DEF CallerInv, TypeOK, LruCache, Nodes
<1>3. lru' \in LruCache /\ lru'.dict = lru.dict
  BY <1>1, <1>2, DeleteNodeType, SurgeryKeepsCount
<1>4. order \in Seq(Triplets) /\ IsInjective(order)
  BY DEF TypeOK, OrderInv
<1>5. /\ order' \in Seq(Triplets) /\ IsInjective(order')
      /\ \A x : Contains(order', x) <=> Contains(order, x) /\ x # t
  BY <1>1, <1>4, RemoveFirstFacts
<1>6. TypeOK'
  <2>1. get' \in [Getters -> [pc : {"idle", "load", "unlink", "relink"}, key : TripletIds]]
    BY DEF TypeOK, GetUnlink
  <2> QED
    BY <2>1, <1>1, <1>3, <1>5 DEF TypeOK, InHand
<1>7. ~NoReaders
  BY <1>1 DEF NoReaders
<1>8. CallerInv'
  BY <1>1, <1>2, <1>3, <1>7 DEF CallerInv
<1>9. OrderInv'
  BY <1>1, <1>3, <1>5 DEF OrderInv
<1>10. ASSUME ~clashed' PROVE Unspoilt'
  <2>1. Unspoilt /\ ~InHand(t) /\ t \notin victims
    BY <1>1, <1>10
  <2>2. PICK i \in DOMAIN order : order[i] = t
    BY <2>1, <1>2, <1>4 DEF Unspoilt, AllKept, Contains
  <2>3. Linked(lru, order)'
    BY <2>1, <2>2, <1>1, <1>2, <1>4, LinkedDelete DEF Unspoilt
  <2>4. \A q \in Getters : get[q].pc = "relink" => get[q].key # t
    BY <2>1 DEF InHand
  <2>5. HandsApart'
    BY <2>1, <2>4, <1>1, <1>5 DEF Unspoilt, HandsApart
  <2>6. VictimsApart'
    BY <2>1, <1>1, <1>5 DEF Unspoilt, VictimsApart
  <2>7. \A x : InHand(x) \/ x = t => InHand(x)'
    BY <1>1 DEF InHand
  <2>8. AllKept'
    BY <2>1, <2>7, <1>1, <1>3, <1>5, <1>7 DEF Unspoilt, AllKept, CallerInv
  <2>9. NewKeyApart'
    BY <2>1, <1>1 DEF Unspoilt, NewKeyApart
  <2> QED
    BY <2>3, <2>5, <2>6, <2>8, <2>9 DEF Unspoilt
<1> QED
  BY <1>6, <1>8, <1>9, <1>10

(* The node in hand goes to the head. *)
LEMMA GetRelinkStep ==
  ASSUME IInv, NEW r \in Getters, GetRelink(r)
  PROVE  IInv'
<1> USE DEF IInv
<1> DEFINE t == get[r].key
           w == RemoveFirst(order, t)
<1>1. /\ UNCHANGED <<put, evict, victims, evictions, clashed>>
      /\ lru' = AddToHead(lru, t)
      /\ order' = Append(w, t)
      /\ moved' = victims
      /\ \A q \in Getters \ {r} : get'[q] = get[q]
      /\ get'[r] = NotGetting
      /\ get[r].pc = "relink"
  BY DEF GetRelink, TypeOK, ListMoves
<1>2. t \in lru.dict /\ t \in Triplets /\ t \in Nodes /\ lru \in LruCache
  BY <1>1 DEF CallerInv, TypeOK, LruCache, Nodes
<1>3. lru' \in LruCache /\ lru'.dict = lru.dict
  BY <1>1, <1>2, AddToHeadType, SurgeryKeepsCount
<1>4. order \in Seq(Triplets) /\ IsInjective(order)
  BY DEF TypeOK, OrderInv
<1>5. /\ w \in Seq(Triplets) /\ IsInjective(w)
      /\ \A x : Contains(w, x) <=> Contains(order, x) /\ x # t
  BY <1>4, RemoveFirstFacts
<1>6. /\ order' \in Seq(Triplets) /\ IsInjective(order')
      /\ \A x : Contains(order', x) <=> Contains(w, x) \/ x = t
  BY <1>1, <1>2, <1>5, AppendFacts
<1>7. TypeOK'
  <2>1. get' \in [Getters -> [pc : {"idle", "load", "unlink", "relink"}, key : TripletIds]]
    BY DEF TypeOK, GetRelink, NotGetting, TripletIds
  <2> QED
    BY <2>1, <1>1, <1>3, <1>6 DEF TypeOK
<1>8. ~NoReaders
  BY <1>1 DEF NoReaders
<1>9. CallerInv'
  <2>1. \A q \in Getters : get'[q].pc \in {"unlink", "relink"} => get'[q] = get[q]
    BY <1>1 DEF NotGetting
  <2> QED
    BY <2>1, <1>1, <1>3, <1>8 DEF CallerInv
<1>10. OrderInv'
  BY <1>1, <1>2, <1>3, <1>5, <1>6 DEF OrderInv
<1>11. ASSUME ~clashed' PROVE Unspoilt'
  <2>1. Unspoilt
    BY <1>1, <1>11
  <2>2. ~Contains(order, t) /\ t \notin victims
    BY <2>1, <1>1 DEF Unspoilt, HandsApart
  <2>3. w = order
    BY <2>2, <1>4 DEF RemoveFirst, Contains
  <2>4. Linked(lru, order)'
    BY <2>1, <2>2, <2>3, <1>1, <1>2, <1>4, LinkedAdd DEF Unspoilt
  <2>5. \A q \in Getters : get'[q].pc = "relink" => q # r /\ get'[q] = get[q]
    BY <1>1 DEF NotGetting
  <2>6. HandsApart'
    BY <2>1, <2>5, <1>1, <1>5, <1>6 DEF Unspoilt, HandsApart
  <2>7. VictimsApart'
    BY <2>1, <2>2, <1>1, <1>5, <1>6 DEF Unspoilt, VictimsApart
  <2>8. \A x : InHand(x) => InHand(x)' \/ x = t
    BY <1>1 DEF InHand
  <2>9. AllKept'
    BY <2>1, <2>3, <2>8, <1>1, <1>3, <1>6, <1>8 DEF Unspoilt, AllKept, CallerInv
  <2>10. NewKeyApart'
    BY <2>1, <1>1 DEF Unspoilt, NewKeyApart
  <2> QED
    BY <2>4, <2>6, <2>7, <2>9, <2>10 DEF Unspoilt
<1> QED
  BY <1>7, <1>9, <1>10, <1>11

-----------------------------------------------------------------------------
(* Put. *)

(* Up to the count the list is not touched: only the Put's state changes, and
   it is not yet about to store. *)
LEMMA PutQuiet ==
  ASSUME IInv,
         UNCHANGED <<get, evict, victims, evictions, order, moved, clashed>>,
         lru' \in LruCache, lru'.dict = lru.dict, lru'.prev = lru.prev, lru'.next = lru.next,
         put' \in [pc : {"wait", "size", "count", "add"}, key : Triplets \ lru.dict, seen : Int],
         put.pc # "store",
         put'.pc # "wait" => NoReaders,
         Unspoilt => put'.key \notin victims
  PROVE  IInv'
<1> USE DEF IInv
<1>1. TypeOK'
  BY DEF TypeOK, TripletIds
<1>2. CallerInv'
  BY DEF CallerInv, NoReaders
<1>3. OrderInv'
  BY DEF OrderInv
<1>4. \A x : InHand(x) => InHand(x)'
  BY DEF InHand
<1>5. Linked(lru, order) => Linked(lru, order)'
  BY LinkedPointers
<1>6. Unspoilt => Unspoilt'
  BY <1>4, <1>5 DEF Unspoilt, HandsApart, VictimsApart, NewKeyApart, AllKept
<1> QED
  BY <1>1, <1>2, <1>3, <1>6

(* A Put waits for the write lock, and gets it. *)
LEMMA PutWaitStep ==
  ASSUME IInv, NEW t \in Triplets, PutWait(t)
  PROVE  IInv'
<1>1. put' = [put EXCEPT !.pc = "wait", !.key = t] /\ t \notin lru.dict
  BY DEF PutWait, LruForgot
<1>2. put' \in [pc : {"wait", "size", "count", "add"}, key : Triplets \ lru.dict, seen : Int]
  BY <1>1 DEF IInv, TypeOK
<1>3. put'.pc = "wait"
  BY <1>1 DEF IInv, TypeOK
<1>4. put'.key \notin victims
  BY <1>1 DEF PutWait, IInv, TypeOK
<1> QED
  BY <1>2, <1>3, <1>4, PutQuiet DEF PutWait, IInv, TypeOK

(* It has the lock: no request is in the middle of its work. *)
LEMMA PutLockStep ==
  ASSUME IInv, PutLock
  PROVE  IInv'
<1>1. put' = [put EXCEPT !.pc = "size"] /\ put.key \in Triplets \ lru.dict
  BY DEF PutLock, IInv, CallerInv
<1>2. put' \in [pc : {"wait", "size", "count", "add"}, key : Triplets \ lru.dict, seen : Int]
  BY <1>1 DEF IInv, TypeOK
<1>9. Unspoilt => put'.key \notin victims
  BY <1>1 DEF PutLock, IInv, TypeOK, Unspoilt, NewKeyApart
<1> QED
  BY <1>2, <1>9, PutQuiet DEF PutLock, IInv, TypeOK

(* size++, the load. *)
LEMMA PutSizeStep ==
  ASSUME IInv, PutSize
  PROVE  IInv'
<1>1. /\ put' = [put EXCEPT !.pc = "count", !.seen = lru.size]
      /\ put.key \in Triplets \ lru.dict /\ NoReaders
  BY DEF PutSize, IInv, CallerInv
<1>2. put' \in [pc : {"wait", "size", "count", "add"}, key : Triplets \ lru.dict, seen : Int]
  BY <1>1 DEF IInv, TypeOK, LruCache
<1>9. Unspoilt => put'.key \notin victims
  BY <1>1 DEF PutSize, IInv, TypeOK, Unspoilt, NewKeyApart
<1> QED
  BY <1>1, <1>2, <1>9, PutQuiet DEF PutSize, IInv, TypeOK

(* size++, the store, whatever the evictor wrote since. *)
LEMMA PutCountStep ==
  ASSUME IInv, PutCount
  PROVE  IInv'
<1>1. /\ put' = [put EXCEPT !.pc = "add"]
      /\ put.key \in Triplets \ lru.dict /\ NoReaders
  BY DEF PutCount, IInv, CallerInv
<1>2. put' \in [pc : {"wait", "size", "count", "add"}, key : Triplets \ lru.dict, seen : Int]
  BY <1>1 DEF IInv, TypeOK
<1>3. put.seen + 1 \in Int
  BY DEF IInv, TypeOK
<1>4. /\ lru' \in LruCache /\ lru'.dict = lru.dict
      /\ lru'.prev = lru.prev /\ lru'.next = lru.next
  BY <1>3 DEF PutCount, IInv, TypeOK, LruCache
<1>9. Unspoilt => put'.key \notin victims
  BY <1>1 DEF PutCount, IInv, TypeOK, Unspoilt, NewKeyApart
<1> QED
  BY <1>1, <1>2, <1>4, <1>9, PutQuiet DEF PutCount, IInv, TypeOK

(* The new node goes to the head before the dictionary has its key. *)
LEMMA PutAddStep ==
  ASSUME IInv, PutAdd
  PROVE  IInv'
<1> USE DEF IInv
<1> DEFINE t == put.key
<1>1. /\ UNCHANGED <<get, evict, victims, evictions, clashed>>
      /\ lru' = AddToHead(lru, t)
      /\ order' = Append(order, t)
      /\ moved' = victims
      /\ put' = [put EXCEPT !.pc = "store"]
      /\ put.pc = "add"
  BY DEF PutAdd, ListMoves
<1>2. t \in Triplets /\ t \notin lru.dict /\ t \in Nodes /\ lru \in LruCache /\ NoReaders
  BY <1>1 DEF CallerInv, TypeOK, Nodes
<1>3. put'.pc = "store" /\ put'.key = t
  BY <1>1 DEF TypeOK
<1>4. lru' \in LruCache /\ lru'.dict = lru.dict
  BY <1>1, <1>2, AddToHeadType, SurgeryKeepsCount
<1>5. order \in Seq(Triplets) /\ IsInjective(order)
  BY DEF TypeOK, OrderInv
<1>6. ~Contains(order, t)
  BY <1>1, <1>2 DEF OrderInv
<1>7. /\ order' \in Seq(Triplets) /\ IsInjective(order')
      /\ \A x : Contains(order', x) <=> Contains(order, x) \/ x = t
  BY <1>1, <1>2, <1>5, <1>6, AppendFacts
<1>8. TypeOK'
  BY <1>1, <1>4, <1>7 DEF TypeOK
<1>9. CallerInv'
  BY <1>1, <1>2, <1>3, <1>4 DEF CallerInv, NoReaders
<1>10. OrderInv'
  BY <1>1, <1>3, <1>4, <1>7 DEF OrderInv
<1>11. ASSUME ~clashed' PROVE Unspoilt'
  <2>1. Unspoilt
    BY <1>1, <1>11
  <2>2. Linked(lru, order)'
    BY <2>1, <1>1, <1>2, <1>5, <1>6, LinkedAdd DEF Unspoilt
  <2>3. HandsApart'
    BY <1>1, <1>2 DEF HandsApart, NoReaders
  <2>4. t \notin victims
    BY <2>1, <1>1 DEF Unspoilt, NewKeyApart
  <2>5. VictimsApart'
    BY <2>1, <2>4, <1>1, <1>7 DEF Unspoilt, VictimsApart
  <2>6. AllKept'
    BY <2>1, <1>1, <1>2, <1>3, <1>4, <1>7 DEF Unspoilt, AllKept, InHand, NoReaders
  <2>7. NewKeyApart'
    BY <1>3 DEF NewKeyApart
  <2> QED
    BY <2>2, <2>3, <2>5, <2>6, <2>7 DEF Unspoilt
<1> QED
  BY <1>8, <1>9, <1>10, <1>11

(* The dictionary gets the key: no longer an exception to the order. *)
LEMMA PutStoreStep ==
  ASSUME IInv, PutStore
  PROVE  IInv'
<1> USE DEF IInv
<1>1. /\ UNCHANGED <<get, evict, victims, evictions, order, moved, clashed>>
      /\ lru' = [lru EXCEPT !.dict = @ \cup {put.key}]
      /\ put' = NotPutting
      /\ put.pc = "store" /\ put.key \in Triplets
  BY DEF PutStore, CallerInv
<1>2. /\ lru' \in LruCache /\ lru'.dict = lru.dict \cup {put.key}
      /\ lru'.prev = lru.prev /\ lru'.next = lru.next
  BY <1>1 DEF TypeOK, LruCache
<1>3. put'.pc = "idle"
  BY <1>1 DEF NotPutting
<1>4. TypeOK'
  BY <1>1, <1>2 DEF TypeOK, NotPutting, TripletIds
<1>5. CallerInv'
  BY <1>1, <1>2, <1>3 DEF CallerInv
<1>6. OrderInv'
  BY <1>1, <1>2 DEF OrderInv
<1>7. \A x : InHand(x) => InHand(x)'
  BY <1>1 DEF InHand
<1>8. Linked(lru, order) => Linked(lru, order)'
  BY <1>1, <1>2, LinkedPointers
<1>9. Unspoilt => Unspoilt'
  BY <1>1, <1>2, <1>3, <1>7, <1>8 DEF Unspoilt, HandsApart, VictimsApart, NewKeyApart, AllKept
<1> QED
  BY <1>1, <1>4, <1>5, <1>6, <1>9

-----------------------------------------------------------------------------
(* Evictions and purges. *)

(* In a list that is not spoilt the tail is the oldest key of the order. *)
LEMMA TailIsFirst ==
  ASSUME NEW c \in LruCache, NEW s \in Seq(Triplets), Linked(c, s)
  PROVE  /\ s = <<>> => c.prev[ListTail] = ListHead
         /\ s # <<>> => 1 \in DOMAIN s /\ c.prev[ListTail] = s[1] /\ LruTail(c) = s[1]
<1>1. Len(s) \in Nat /\ (s = <<>> <=> Len(s) = 0) /\ DOMAIN s = 1..Len(s)
  OBVIOUS
<1>2. NodeAt(s, 0) = ListTail
  BY DEF NodeAt
<1>3. c.prev[ListTail] = NodeAt(s, 1)
  BY <1>1, <1>2 DEF Linked
<1>4. CASE Len(s) = 0
  BY <1>1, <1>3, <1>4 DEF NodeAt
<1>5. CASE Len(s) # 0
  <2>1. NodeAt(s, 1) = s[1] /\ s[1] \in Triplets
    BY <1>1, <1>5 DEF NodeAt
  <2> QED
    BY <2>1, <1>1, <1>3, <1>5 DEF LruTail
<1> QED
  BY <1>4, <1>5

(* The tail goes to the collector: in a list that is not spoilt, the oldest key. *)
LEMMA EvictTailStep ==
  ASSUME IInv, EvictTail
  PROVE  IInv'
<1> USE DEF IInv
<1> DEFINE v == LruTail(lru)
           n == lru.prev[ListTail]
<1>1. /\ UNCHANGED <<get, put>>
      /\ lru' = DeleteNode(lru, n)
      /\ evict' = [pc |-> "count", seen |-> lru.size]
      /\ victims' = victims \cup {v}
      /\ moved' = victims \ {v}
      /\ evictions' = evictions + 1 /\ evictions < MaxEvictions
      /\ order' = RemoveFirst(order, v)
      /\ clashed' = (clashed \/ v = NoTriplet)
  BY DEF EvictTail
<1>2. lru \in LruCache /\ n \in Nodes /\ v \in TripletIds /\ lru.size \in Int
  <2>1. lru \in LruCache
    BY DEF TypeOK
  <2> QED
    BY <2>1 DEF LruCache, Nodes, LruTail, TripletIds
<1>3. lru' \in LruCache /\ lru'.dict = lru.dict
  BY <1>1, <1>2, DeleteNodeType, SurgeryKeepsCount
<1>4. order \in Seq(Triplets) /\ IsInjective(order)
  BY DEF TypeOK, OrderInv
<1>5. /\ order' \in Seq(Triplets) /\ IsInjective(order')
      /\ \A x : Contains(order', x) <=> Contains(order, x) /\ x # v
  BY <1>1, <1>4, RemoveFirstFacts
<1>6. TypeOK'
  <2>1. evictions' \in 0..MaxEvictions
    BY <1>1, LruListAssumption DEF TypeOK
  <2>2. moved' \subseteq victims' /\ victims' \subseteq TripletIds
    BY <1>1, <1>2 DEF TypeOK
  <2>3. clashed' \in BOOLEAN
    BY <1>1 DEF TypeOK
  <2> QED
    BY <2>1, <2>2, <2>3, <1>1, <1>2, <1>3, <1>5 DEF TypeOK
<1>7. CallerInv'
  BY <1>1, <1>3 DEF CallerInv, NoReaders
<1>8. OrderInv'
  BY <1>1, <1>3, <1>5 DEF OrderInv
<1>9. ASSUME ~clashed' PROVE Unspoilt'
  <2>1. Unspoilt /\ v # NoTriplet
    BY <1>1, <1>9
  <2>2. n \in Triplets /\ v = n
    BY <2>1 DEF LruTail
  <2>3. Linked(lru, order)
    BY <2>1 DEF Unspoilt
  <2>4. order # <<>>
    BY <2>2, <2>3, <1>2, <1>4, TailIsFirst, SentinelsAssumption
  <2>5. 1 \in DOMAIN order /\ n = order[1]
    BY <2>3, <2>4, <1>2, <1>4, TailIsFirst
  <2>6. /\ Linked(lru, order)'
        /\ lru'.next[v] = lru.next[v] /\ lru'.prev[v] = lru.prev[v]
    BY <2>2, <2>3, <2>5, <1>1, <1>2, <1>4, LinkedDelete
  <2>7. lru'.next[v] = ListTail /\ lru'.prev[v] = lru'.prev[ListTail]
    <3>1. Len(order) \in Nat /\ 1 \in 1..Len(order) /\ 0 \in 0..Len(order)
      BY <2>5, <1>4
    <3>2. NodeAt(order, 0) = ListTail /\ NodeAt(order, 0 + 1) = n
      BY <2>5, <3>1 DEF NodeAt
    <3>3. lru.next[n] = ListTail
      BY <2>3, <3>1, <3>2 DEF Linked
    <3>4. lru'.prev = [lru.prev EXCEPT ![ListTail] = lru.prev[n]]
      BY <3>3, <1>1, <1>2 DEF DeleteNode, LruCache
    <3>5. lru'.prev[ListTail] = lru.prev[n]
      BY <3>4, <1>2 DEF LruCache, Nodes
    <3> QED
      BY <2>2, <2>6, <3>3, <3>5
  <2>8. Contains(order, v)
    BY <2>2, <2>5, <1>4 DEF Contains
  <2>9. HandsApart'
    BY <2>1, <2>8, <1>1, <1>5 DEF Unspoilt, HandsApart
  <2>10. VictimsApart'
    BY <2>1, <2>2, <2>7, <1>1, <1>5 DEF Unspoilt, VictimsApart
  <2>11. AllKept'
    BY <2>1, <1>1, <1>3, <1>5 DEF Unspoilt, AllKept, InHand
  <2>12. NewKeyApart'
    BY <2>1, <2>8, <1>1 DEF Unspoilt, NewKeyApart, OrderInv, CallerInv
  <2> QED
    BY <2>6, <2>9, <2>10, <2>11, <2>12 DEF Unspoilt
<1> QED
  BY <1>6, <1>7, <1>8, <1>9

(* size-- is all the evictor still does. *)
LEMMA EvictCountStep ==
  ASSUME IInv, EvictCount
  PROVE  IInv'
<1> USE DEF IInv
<1>1. /\ UNCHANGED <<get, put, victims, evictions, order, moved, clashed>>
      /\ lru' = [lru EXCEPT !.size = evict.seen - 1] /\ evict.seen - 1 \in Int
      /\ evict' = NotEvicting
  BY DEF EvictCount, TypeOK
<1>2. /\ lru' \in LruCache /\ lru'.dict = lru.dict
      /\ lru'.prev = lru.prev /\ lru'.next = lru.next
  BY <1>1 DEF TypeOK, LruCache
<1>3. TypeOK'
  BY <1>1, <1>2 DEF TypeOK, NotEvicting
<1>4. CallerInv' /\ OrderInv'
  BY <1>1, <1>2 DEF CallerInv, OrderInv, NoReaders
<1>5. Linked(lru, order) => Linked(lru, order)'
  BY <1>1, <1>2, LinkedPointers
<1>6. Unspoilt => Unspoilt'
  BY <1>1, <1>2, <1>5 DEF Unspoilt, HandsApart, VictimsApart, NewKeyApart, AllKept, InHand
<1> QED
  BY <1>1, <1>3, <1>4, <1>6

(* The purge unlinks its victim once more: until the list has changed since
   the eviction, that writes what is already there. *)
LEMMA PurgeStep ==
  ASSUME IInv, NEW t \in TripletIds, Purge(t)
  PROVE  IInv'
<1> USE DEF IInv
<1>1. /\ UNCHANGED <<get, put, evict, evictions>>
      /\ lru' = LruDelete(lru, t)
      /\ victims' = victims \ {t}
      /\ moved' = victims \ {t}
      /\ order' = RemoveFirst(order, t)
      /\ clashed' = (clashed \/ t \in moved)
      /\ t \in victims /\ NoReaders /\ put.pc = "idle"
  BY DEF Purge
<1>2. lru \in LruCache
  BY DEF TypeOK
<1>3. lru' \in LruCache
  BY <1>1, <1>2, LruDeleteType
<1>4. lru'.dict = lru.dict \ {t}
  <2>1. CASE t \in lru.dict
    <3>1. t \in Nodes
      BY <2>1, <1>2 DEF LruCache, Nodes
    <3>2. [DeleteNode(lru, t) EXCEPT !.dict = @ \ {t}].dict = lru.dict \ {t}
      BY <3>1, <1>2 DEF DeleteNode, LruCache
    <3> QED
      BY <2>1, <3>2, <1>1, <1>2 DEF LruDelete, Collect, DeleteNode, LruCache
  <2>2. CASE t \notin lru.dict
    BY <2>2, <1>1 DEF LruDelete
  <2> QED
    BY <2>1, <2>2
<1>5. order \in Seq(Triplets) /\ IsInjective(order)
  BY DEF TypeOK, OrderInv
<1>6. /\ order' \in Seq(Triplets) /\ IsInjective(order')
      /\ \A x : Contains(order', x) <=> Contains(order, x) /\ x # t
  BY <1>1, <1>5, RemoveFirstFacts
<1>7. TypeOK'
  <2>1. moved' \subseteq victims' /\ victims' \subseteq TripletIds /\ clashed' \in BOOLEAN
    BY <1>1 DEF TypeOK
  <2> QED
    BY <2>1, <1>1, <1>3, <1>6 DEF TypeOK
<1>8. \A r \in Getters : get[r].pc = "idle"
  BY <1>1 DEF NoReaders
<1>9. CallerInv'
  BY <1>1, <1>8 DEF CallerInv
<1>10. OrderInv'
  BY <1>1, <1>4, <1>6 DEF OrderInv
<1>11. ASSUME ~clashed' PROVE Unspoilt'
  <2>1. Unspoilt /\ t \notin moved
    BY <1>1, <1>11
  <2>2. /\ t \in Triplets /\ ~Contains(order, t)
        /\ lru.next[t] = ListTail /\ lru.prev[t] = lru.prev[ListTail]
    BY <2>1, <1>1 DEF Unspoilt, VictimsApart
  <2>3. order' = order
    BY <2>2, <1>1, <1>5 DEF RemoveFirst, Contains
  <2>4. Linked(lru, order)
    BY <2>1 DEF Unspoilt
  <2>5. Linked(lru', order)
    <3>1. CASE t \notin lru.dict
      BY <2>4, <3>1, <1>1 DEF LruDelete
    <3>2. CASE t \in lru.dict
      <4> DEFINE d == [DeleteNode(lru, t) EXCEPT !.dict = @ \ {t}]
      <4>1. lru' = Collect(d)
        BY <3>2, <1>1 DEF LruDelete
      <4>2. lru.next[lru.prev[ListTail]] = ListTail
        <5>1. NodeAt(order, 0) = ListTail /\ 0 \in 0..Len(order)
          BY <1>5 DEF NodeAt
        <5> QED
          BY <2>4, <5>1 DEF Linked
      <4>3. d.next = lru.next /\ d.prev = lru.prev /\ d.dict = lru.dict \ {t}
        BY <2>2, <4>2, <1>2 DEF DeleteNode, LruCache, Nodes
      <4> HIDE DEF d
      <4>4. ASSUME NEW x \in Nodes, x \notin Triplets \/ Contains(order, x)
            PROVE  /\ lru'.next[x] = lru.next[x] /\ lru'.prev[x] = lru.prev[x]
        <5>1. ~Garbage(d, x)
          BY <4>3, <4>4, <2>2, <1>1 DEF Garbage, OrderInv
        <5>2. /\ lru'.next = [m \in Nodes |-> IF Garbage(d, m) THEN m ELSE d.next[m]]
              /\ lru'.prev = [m \in Nodes |-> IF Garbage(d, m) THEN m ELSE d.prev[m]]
          BY <4>1, <1>3 DEF Collect, LruCache
        <5> QED
          BY <5>1, <5>2, <4>3
      <4>5. \A i \in 0..(Len(order) + 1) :
              /\ NodeAt(order, i) \in Nodes
              /\ NodeAt(order, i) \notin Triplets \/ Contains(order, NodeAt(order, i))
        BY <1>5, SentinelsAssumption DEF NodeAt, Nodes, Contains
      <4>6. \A i \in 0..Len(order) : i \in 0..(Len(order) + 1) /\ i + 1 \in 0..(Len(order) + 1)
        BY <1>5
      <4> QED
        BY <2>4, <4>4, <4>5, <4>6 DEF Linked
    <3> QED
      BY <3>1, <3>2
  <2>6. HandsApart'
    BY <1>1, <1>8 DEF HandsApart
  <2>7. VictimsApart'
    BY <2>1, <2>3, <1>1 DEF Unspoilt, VictimsApart
  <2>8. AllKept'
    BY <2>1, <2>3, <1>1, <1>4, <1>8 DEF Unspoilt, AllKept, InHand
  <2>9. NewKeyApart'
    BY <1>1 DEF NewKeyApart
  <2> QED
    BY <2>3, <2>5, <2>6, <2>7, <2>8, <2>9 DEF Unspoilt
<1> QED
  BY <1>7, <1>9, <1>10, <1>11

-----------------------------------------------------------------------------
(* The theorems. *)

(* Every step of every goroutine. *)
LEMMA LruListStep ==
  ASSUME IInv, [Next]_vars
  PROVE  IInv'
<1>1. ASSUME NEW r \in Getters, Get(r) PROVE IInv'
  BY <1>1, GetLoadStep, GetUnlinkStep, GetRelinkStep DEF Get
<1>2. ASSUME NEW r \in Getters, NEW t \in Triplets, GetLock(r, t) PROVE IInv'
  BY <1>2, GetLockStep
<1>3. CASE Put
  BY <1>3, PutLockStep, PutSizeStep, PutCountStep, PutAddStep, PutStoreStep DEF Put
<1>4. ASSUME NEW t \in Triplets, PutWait(t) PROVE IInv'
  BY <1>4, PutWaitStep
<1>5. CASE EvictTail
  BY <1>5, EvictTailStep
<1>6. CASE EvictCount
  BY <1>6, EvictCountStep
<1>7. ASSUME NEW t \in TripletIds, Purge(t) PROVE IInv'
  BY <1>7, PurgeStep
<1>8. CASE UNCHANGED vars
  <2>1. /\ lru' = lru /\ get' = get /\ put' = put /\ evict' = evict /\ victims' = victims
        /\ evictions' = evictions /\ order' = order /\ moved' = moved /\ clashed' = clashed
    BY <1>8 DEF vars
  <2> QED
    BY <2>1 DEF IInv, TypeOK, CallerInv, OrderInv, Unspoilt, HandsApart, VictimsApart, NewKeyApart, AllKept,
                InHand, NoReaders
<1> QED
  BY <1>1, <1>2, <1>3, <1>4, <1>5, <1>6, <1>7, <1>8 DEF Next

(* The inductive invariant holds of every reachable state. *)
LEMMA LruListInvariant == Spec => []IInv
  BY LruListInit, LruListStep, PTL DEF Spec

(* Every goroutine's state and the list keep their types, whatever the stale
   pointers of evicted nodes do to the list. *)
THEOREM LruListTypeCorrect == Spec => []TypeOK
<1>1. IInv => TypeOK
  BY DEF IInv
<1> QED
  BY <1>1, LruListInvariant, PTL

(* However requests, a Put, evictions and purges interleave, both directions
   of the list hold its triplets in order of use, up to the first step that
   unlinks a node a request has in hand or a victim, purges a victim after the
   list has changed, or evicts from an empty list. *)
THEOREM ListKeepsOrder == Spec => []OrderKept
<1>1. IInv => OrderKept
  BY DEF IInv, OrderKept, Unspoilt
<1> QED
  BY <1>1, LruListInvariant, PTL

(* Up to such a step every triplet of the dictionary is in the list, in a
   request's hand or waiting for its purge. *)
THEOREM ListLosesNothing == Spec => []NothingLost
<1>1. IInv => NothingLost
  BY DEF IInv, NothingLost, Unspoilt, AllKept
<1> QED
  BY <1>1, LruListInvariant, PTL

(* Up to such a step an eviction takes the triplet whose last use is the
   oldest, also with requests in the middle of their work: two requests for
   one triplet, as in the run overlap, are the way to violate TailIsOldest. *)
THEOREM UnspoiltTailIsOldest == Spec => [](~clashed => TailIsOldest)
<1>1. IInv => (~clashed => TailIsOldest)
  <2> SUFFICES ASSUME IInv, ~clashed, order # <<>>
               PROVE  LruTail(lru) = Head(order)
    BY DEF TailIsOldest
  <2>1. lru \in LruCache /\ order \in Seq(Triplets) /\ Linked(lru, order)
    BY DEF IInv, TypeOK, Unspoilt
  <2>2. LruTail(lru) = order[1]
    BY <2>1, TailIsFirst
  <2> QED
    BY <2>1, <2>2
<1> QED
  BY <1>1, LruListInvariant, PTL
=============================================================================
