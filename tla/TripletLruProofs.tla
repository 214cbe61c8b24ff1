-------------------------- MODULE TripletLruProofs --------------------------
(* Every operation of LruCache takes a cache to a cache: whatever stale       *)
(* pointers a node keeps, they are pointers to nodes.                         *)
EXTENDS TripletLru, TLAPS

(* The new cache: LruCache.New. *)
LEMMA LruNewType == LruNew \in LruCache
  BY DEF LruNew, LruCache, Unlinked, Nodes

(* deleteNode, whatever the node's neighbours are. *)
LEMMA DeleteNodeType ==
  ASSUME NEW c \in LruCache, NEW n \in Nodes
  PROVE  DeleteNode(c, n) \in LruCache
  BY DEF DeleteNode, LruCache

(* addToHead. *)
LEMMA AddToHeadType ==
  ASSUME NEW c \in LruCache, NEW n \in Nodes
  PROVE  AddToHead(c, n) \in LruCache
  BY DEF AddToHead, LruCache, Nodes

(* Forgetting garbage nodes. *)
LEMMA CollectType ==
  ASSUME NEW c \in LruCache
  PROVE  Collect(c) \in LruCache
  BY DEF Collect, LruCache

(* LruCache.Get, and the keys it leaves. *)
LEMMA LruGetType ==
  ASSUME NEW c \in LruCache, NEW t
  PROVE  LruGet(c, t) \in LruCache
<1>1. CASE t \in c.dict
  <2>1. t \in Nodes
    BY <1>1 DEF LruCache, Nodes
  <2>2. DeleteNode(c, t) \in LruCache
    BY <2>1, DeleteNodeType
  <2>3. AddToHead(DeleteNode(c, t), t) \in LruCache
    BY <2>1, <2>2, AddToHeadType
  <2> QED
    BY <1>1, <2>3 DEF LruGet, MoveToHead
<1>2. CASE t \notin c.dict
  BY <1>2 DEF LruGet
<1> QED
  BY <1>1, <1>2

(* The dictionary and the count are independent of the pointers. *)
LEMMA LruCountType ==
  ASSUME NEW c \in LruCache, NEW held \in SUBSET Triplets, NEW n \in Int
  PROVE  [c EXCEPT !.dict = held, !.size = n] \in LruCache
  BY DEF LruCache

(* Pointer surgery leaves the dictionary and the count alone. *)
LEMMA SurgeryKeepsCount ==
  ASSUME NEW c \in LruCache, NEW n \in Nodes
  PROVE  /\ DeleteNode(c, n).dict = c.dict /\ DeleteNode(c, n).size = c.size
         /\ AddToHead(c, n).dict = c.dict /\ AddToHead(c, n).size = c.size
  BY DEF DeleteNode, AddToHead, LruCache

(* LruCache.Put of a triplet. *)
LEMMA LruPutType ==
  ASSUME NEW c \in LruCache, NEW t \in Triplets
  PROVE  LruPut(c, t) \in LruCache
<1>1. t \in Nodes
  BY DEF Nodes
<1>2. CASE t \in c.dict
  BY <1>1, <1>2, DeleteNodeType, AddToHeadType DEF LruPut, MoveToHead
<1>3. CASE t \notin c.dict
  <2>1. AddToHead(c, t) \in LruCache
    BY <1>1, AddToHeadType
  <2> DEFINE d == AddToHead(c, t)
  <2>2. d.dict \cup {t} \in SUBSET Triplets /\ d.size + 1 \in Int
    BY <1>1, SurgeryKeepsCount DEF LruCache
  <2>3. [d EXCEPT !.dict = d.dict \cup {t}, !.size = d.size + 1] \in LruCache
    <3> HIDE DEF d
    <3> QED
      BY <2>1, <2>2, LruCountType DEF d
  <2> QED
    BY <1>3, <2>3 DEF LruPut
<1> QED
  BY <1>2, <1>3

(* GetCurTailNameForEvict, on an empty list too. *)
LEMMA LruDropTailType ==
  ASSUME NEW c \in LruCache
  PROVE  /\ LruDropTail(c) \in LruCache
         /\ LruTail(c) \in TripletIds
<1>1. c.prev[ListTail] \in Nodes
  BY DEF LruCache, Nodes
<1>2. DeleteNode(c, c.prev[ListTail]) \in LruCache
  BY <1>1, DeleteNodeType
<1>3. [DeleteNode(c, c.prev[ListTail]) EXCEPT !.size = @ - 1] \in LruCache
  <2>1. ASSUME NEW d \in LruCache
        PROVE  [d EXCEPT !.size = @ - 1] \in LruCache
    BY DEF LruCache
  <2> QED
    BY <1>2, <2>1
<1>4. LruDropTail(c) \in LruCache
  BY <1>3, CollectType DEF LruDropTail
<1> QED
  BY <1>4 DEF LruTail, TripletIds

(* LruCache.DeleteFromCache. *)
LEMMA LruDeleteType ==
  ASSUME NEW c \in LruCache, NEW t
  PROVE  LruDelete(c, t) \in LruCache
<1>1. CASE t \in c.dict
  <2>1. t \in Nodes
    BY <1>1 DEF LruCache, Nodes
  <2>2. [DeleteNode(c, t) EXCEPT !.dict = @ \ {t}] \in LruCache
    <3>1. ASSUME NEW d \in LruCache
          PROVE  [d EXCEPT !.dict = @ \ {t}] \in LruCache
      BY DEF LruCache
    <3> QED
      BY <2>1, <3>1, DeleteNodeType
  <2> QED
    BY <1>1, <2>2, CollectType DEF LruDelete
<1>2. CASE t \notin c.dict
  BY <1>2 DEF LruDelete
<1> QED
  BY <1>1, <1>2

(* The cache PhyBH.New loads. *)
LEMMA LruLoadedType ==
  ASSUME NEW n \in Nat, NEW s \in [1..n -> Triplets]
  PROVE  LruLoaded(s, n) \in LruCache
<1> DEFINE held == {s[i] : i \in 1..n}
           at(i) == IF i < 1 THEN ListTail ELSE IF i > n THEN ListHead ELSE s[i]
           pos(x) == IF x = ListTail THEN 0 ELSE IF x = ListHead THEN n + 1
                     ELSE CHOOSE i \in 1..n : s[i] = x
           prev == [x \in Nodes |->
                      IF x \in held \cup {ListTail} THEN at(pos(x) + 1) ELSE Unlinked[x]]
           next == [x \in Nodes |->
                      IF x \in held \cup {ListHead} THEN at(pos(x) - 1) ELSE Unlinked[x]]
<1>1. held \subseteq Triplets
  OBVIOUS
<1>2. \A i \in Int : at(i) \in Nodes
  BY DEF Nodes
<1>3. \A x \in held \cup {ListHead, ListTail} : pos(x) \in Int
  <2> TAKE x \in held \cup {ListHead, ListTail}
  <2>1. CASE x \in {ListHead, ListTail}
    BY <2>1 DEF ListHead, ListTail
  <2>2. CASE x \notin {ListHead, ListTail}
    <3>1. \E i \in 1..n : s[i] = x
      BY <2>2
    <3>2. (CHOOSE i \in 1..n : s[i] = x) \in 1..n
      BY <3>1
    <3> QED
      BY <2>2, <3>2
  <2> QED
    BY <2>1, <2>2
<1>4. \A x \in Nodes : Unlinked[x] \in Nodes
  BY DEF Unlinked, Nodes
<1> HIDE DEF held, at, pos
<1>5. prev \in [Nodes -> Nodes]
  BY <1>2, <1>3, <1>4
<1>6. next \in [Nodes -> Nodes]
  BY <1>2, <1>3, <1>4
<1>7. LruLoaded(s, n) = [dict |-> held, size |-> n, prev |-> prev, next |-> next]
  BY DEF LruLoaded, held, at, pos
<1> QED
  BY <1>1, <1>5, <1>6, <1>7 DEF LruCache

(* The keys of the dictionary: Put adds one, DeleteFromCache removes one, and
   neither Get nor an eviction changes them. *)
LEMMA LruKeys ==
  ASSUME NEW c \in LruCache
  PROVE  /\ \A t : LruGet(c, t).dict = c.dict
         /\ \A t \in Triplets : LruPut(c, t).dict = c.dict \cup {t}
         /\ LruDropTail(c).dict = c.dict
         /\ \A t : LruDelete(c, t).dict = c.dict \ {t}
<1>1. ASSUME NEW n \in Nodes
      PROVE  /\ DeleteNode(c, n) \in LruCache /\ DeleteNode(c, n).dict = c.dict
             /\ MoveToHead(c, n).dict = c.dict
  BY DeleteNodeType, SurgeryKeepsCount DEF MoveToHead
<1>2. ASSUME NEW d \in LruCache
      PROVE  Collect(d).dict = d.dict
  BY DEF Collect, LruCache
<1>3. ASSUME NEW t
      PROVE  LruGet(c, t).dict = c.dict
  BY <1>1 DEF LruGet, LruCache, Nodes
<1>4. ASSUME NEW t \in Triplets
      PROVE  LruPut(c, t).dict = c.dict \cup {t}
  <2>1. AddToHead(c, t) \in LruCache /\ AddToHead(c, t).dict = c.dict
    BY AddToHeadType, SurgeryKeepsCount DEF Nodes
  <2>2. ASSUME NEW d \in LruCache
        PROVE  [d EXCEPT !.dict = @ \cup {t}, !.size = @ + 1].dict = d.dict \cup {t}
    BY DEF LruCache
  <2>3. CASE t \in c.dict
    BY <1>1, <2>3 DEF LruPut, Nodes
  <2>4. CASE t \notin c.dict
    BY <2>1, <2>2, <2>4 DEF LruPut
  <2> QED
    BY <2>3, <2>4
<1>5. LruDropTail(c).dict = c.dict
  <2>1. c.prev[ListTail] \in Nodes
    BY DEF LruCache, Nodes
  <2>2. ASSUME NEW d \in LruCache
        PROVE  Collect([d EXCEPT !.size = @ - 1]).dict = d.dict
    <3>1. [d EXCEPT !.size = @ - 1] \in LruCache /\ [d EXCEPT !.size = @ - 1].dict = d.dict
      BY DEF LruCache
    <3> QED
      BY <1>2, <3>1
  <2> QED
    BY <1>1, <2>1, <2>2 DEF LruDropTail
<1>6. ASSUME NEW t
      PROVE  LruDelete(c, t).dict = c.dict \ {t}
  <2>1. ASSUME NEW d \in LruCache
        PROVE  Collect([d EXCEPT !.dict = @ \ {t}]).dict = d.dict \ {t}
    <3>1. /\ [d EXCEPT !.dict = @ \ {t}] \in LruCache
          /\ [d EXCEPT !.dict = @ \ {t}].dict = d.dict \ {t}
      BY DEF LruCache
    <3> QED
      BY <1>2, <3>1
  <2>2. CASE t \in c.dict
    <3>1. t \in Nodes
      BY <2>2 DEF LruCache, Nodes
    <3>2. DeleteNode(c, t) \in LruCache /\ DeleteNode(c, t).dict = c.dict
      BY <1>1, <3>1
    <3>3. LruDelete(c, t) = Collect([DeleteNode(c, t) EXCEPT !.dict = @ \ {t}])
      BY <2>2 DEF LruDelete
    <3> QED
      BY <2>1, <3>2, <3>3
  <2>3. CASE t \notin c.dict
    BY <2>3 DEF LruDelete
  <2> QED
    BY <2>2, <2>3
<1> QED
  BY <1>3, <1>4, <1>5, <1>6

(* What a start loads is what it was given. *)
LEMMA LruLoadedKeys ==
  ASSUME NEW n, NEW s
  PROVE  LruLoaded(s, n).dict = {s[i] : i \in 1..n}
  BY DEF LruLoaded

(* No operation on other triplets brings back a pointer to one the cache has
   forgotten, and an eviction does not choose it. *)
LEMMA ForgottenStays ==
  ASSUME NEW c \in LruCache, NEW t \in Triplets, LruForgot(c, t)
  PROVE  /\ \A u : LruForgot(LruGet(c, u), t)
         /\ \A u \in Triplets : u # t => LruForgot(LruPut(c, u), t)
         /\ LruForgot(LruDropTail(c), t) /\ LruTail(c) # t
         /\ \A u : LruForgot(LruDelete(c, u), t)
<1> ListHead \in Nodes /\ ListTail \in Nodes /\ t \in Nodes
  BY DEF Nodes
<1> ListHead # t /\ ListTail # t
  BY SentinelsAssumption
<1>1. ASSUME NEW d \in LruCache, LruForgot(d, t), NEW n \in Nodes, n # t
      PROVE  LruForgot(DeleteNode(d, n), t) /\ DeleteNode(d, n) \in LruCache
  <2>1. d.prev[n] # t /\ d.next[n] # t
    BY <1>1 DEF LruForgot
  <2>2. PICK e : e = DeleteNode(d, n)
    OBVIOUS
  <2>3. /\ e.dict = d.dict
        /\ e.next = [d.next EXCEPT ![d.prev[n]] = d.next[n]]
        /\ e.prev = [d.prev EXCEPT ![d.next[n]] = d.prev[n]]
    BY <1>1, <2>2 DEF DeleteNode, LruCache
  <2>4. d.next \in [Nodes -> Nodes] /\ d.prev \in [Nodes -> Nodes]
    BY <1>1 DEF LruCache
  <2>5. \A m \in Nodes \ {t} : e.next[m] # t /\ e.prev[m] # t
    BY <1>1, <2>1, <2>3, <2>4 DEF LruForgot
  <2> QED
    BY <1>1, <2>2, <2>3, <2>5, DeleteNodeType DEF LruForgot
<1>2. ASSUME NEW d \in LruCache, LruForgot(d, t), NEW n \in Nodes, n # t
      PROVE  LruForgot(AddToHead(d, n), t) /\ AddToHead(d, n) \in LruCache
  <2>1. d.next[ListHead] # t
    BY <1>2 DEF LruForgot
  <2>2. PICK e : e = AddToHead(d, n)
    OBVIOUS
  <2>3. /\ e.dict = d.dict
        /\ e.next = [d.next EXCEPT ![n] = d.next[ListHead], ![ListHead] = n]
        /\ e.prev = [d.prev EXCEPT ![d.next[ListHead]] = n, ![n] = ListHead]
    BY <1>2, <2>2 DEF AddToHead, LruCache
  <2>4. d.next \in [Nodes -> Nodes] /\ d.prev \in [Nodes -> Nodes]
    BY <1>2 DEF LruCache
  <2>5. \A m \in Nodes \ {t} : e.next[m] # t /\ e.prev[m] # t
    BY <1>2, <2>1, <2>3, <2>4 DEF LruForgot
  <2> QED
    BY <1>2, <2>2, <2>3, <2>5, AddToHeadType DEF LruForgot
<1>3. ASSUME NEW d \in LruCache, LruForgot(d, t)
      PROVE  LruForgot(Collect(d), t)
  BY <1>3 DEF LruForgot, Collect, LruCache
<1>4. ASSUME NEW d \in LruCache, LruForgot(d, t), NEW held, t \notin held, NEW k
      PROVE  /\ LruForgot([d EXCEPT !.dict = held, !.size = k], t)
             /\ LruForgot([d EXCEPT !.dict = held], t) /\ LruForgot([d EXCEPT !.size = k], t)
  BY <1>4 DEF LruForgot, LruCache
<1>5. ASSUME NEW n \in Nodes, n # t
      PROVE  LruForgot(MoveToHead(c, n), t)
  BY <1>1, <1>2, <1>5 DEF MoveToHead
<1>6. ASSUME NEW u
      PROVE  LruForgot(LruGet(c, u), t)
  <2>1. u \in c.dict => u \in Nodes /\ u # t
    BY DEF LruForgot, LruCache, Nodes
  <2> QED
    BY <1>5, <2>1 DEF LruGet
<1>7. ASSUME NEW u \in Triplets, u # t
      PROVE  LruForgot(LruPut(c, u), t)
  <2>1. u \in Nodes
    BY DEF Nodes
  <2>2. CASE u \in c.dict
    BY <1>5, <1>7, <2>1, <2>2 DEF LruPut
  <2>3. CASE u \notin c.dict
    <3>1. PICK d : d = AddToHead(c, u)
      OBVIOUS
    <3>2. LruForgot(d, t) /\ d \in LruCache
      BY <1>2, <1>7, <2>1, <3>1
    <3>3. t \notin d.dict \cup {u}
      BY <1>7, <3>2 DEF LruForgot
    <3>4. LruForgot([d EXCEPT !.dict = d.dict \cup {u}, !.size = d.size + 1], t)
      BY <1>4, <3>2, <3>3
    <3> QED
      BY <2>3, <3>1, <3>4 DEF LruPut
  <2> QED
    BY <2>2, <2>3
<1>8. LruForgot(LruDropTail(c), t) /\ LruTail(c) # t
  <2>1. PICK n : n = c.prev[ListTail]
    OBVIOUS
  <2>2. n \in Nodes /\ n # t
    BY <2>1 DEF LruCache, LruForgot
  <2>3. PICK d : d = DeleteNode(c, n)
    OBVIOUS
  <2>4. LruForgot(d, t) /\ d \in LruCache
    BY <1>1, <2>2, <2>3
  <2>5. PICK e : e = [d EXCEPT !.size = d.size - 1]
    OBVIOUS
  <2>6. LruForgot(e, t) /\ e \in LruCache
    BY <2>4, <2>5 DEF LruForgot, LruCache
  <2>7. LruDropTail(c) = Collect(e)
    BY <2>1, <2>3, <2>5 DEF LruDropTail
  <2> QED
    BY <1>3, <2>1, <2>2, <2>6, <2>7, TripletsAssumption DEF LruTail
<1>9. ASSUME NEW u
      PROVE  LruForgot(LruDelete(c, u), t)
  <2>1. CASE u \in c.dict
    <3>1. u \in Nodes /\ u # t
      BY <2>1 DEF LruForgot, LruCache, Nodes
    <3>2. PICK d : d = DeleteNode(c, u)
      OBVIOUS
    <3>3. LruForgot(d, t) /\ d \in LruCache
      BY <1>1, <3>1, <3>2
    <3>4. PICK e : e = [d EXCEPT !.dict = d.dict \ {u}]
      OBVIOUS
    <3>5. LruForgot(e, t) /\ e \in LruCache
      BY <3>3, <3>4 DEF LruForgot, LruCache
    <3> QED
      BY <1>3, <2>1, <3>2, <3>4, <3>5 DEF LruDelete
  <2>2. CASE u \notin c.dict
    BY <2>2 DEF LruDelete
  <2> QED
    BY <2>1, <2>2
<1> QED
  BY <1>6, <1>7, <1>8, <1>9

(* A start's cache knows the triplets it was given, and no other. *)
LEMMA LoadedForgets ==
  ASSUME NEW n \in Nat, NEW s \in [1..n -> Triplets], NEW t \in Triplets,
         t \notin {s[i] : i \in 1..n}
  PROVE  LruForgot(LruLoaded(s, n), t)
<1> DEFINE held == {s[i] : i \in 1..n}
           at(i) == IF i < 1 THEN ListTail ELSE IF i > n THEN ListHead ELSE s[i]
           pos(x) == IF x = ListTail THEN 0 ELSE IF x = ListHead THEN n + 1
                     ELSE CHOOSE i \in 1..n : s[i] = x
           prev == [x \in Nodes |->
                      IF x \in held \cup {ListTail} THEN at(pos(x) + 1) ELSE Unlinked[x]]
           next == [x \in Nodes |->
                      IF x \in held \cup {ListHead} THEN at(pos(x) - 1) ELSE Unlinked[x]]
<1>1. ListHead # t /\ ListTail # t
  BY SentinelsAssumption
<1>2. \A i \in Int : at(i) # t
  BY <1>1
<1>3. \A x \in held \cup {ListHead, ListTail} : pos(x) \in Int
  <2> TAKE x \in held \cup {ListHead, ListTail}
  <2>1. CASE x \in {ListHead, ListTail}
    BY <2>1 DEF ListHead, ListTail
  <2>2. CASE x \notin {ListHead, ListTail}
    <3>1. \E i \in 1..n : s[i] = x
      BY <2>2
    <3>2. (CHOOSE i \in 1..n : s[i] = x) \in 1..n
      BY <3>1
    <3> QED
      BY <2>2, <3>2
  <2> QED
    BY <2>1, <2>2
<1>4. \A x \in Nodes \ {t} : Unlinked[x] # t
  BY <1>1 DEF Unlinked
<1>5. t \notin held
  OBVIOUS
<1> HIDE DEF held, at, pos
<1>6. \A x \in Nodes \ {t} : prev[x] # t /\ next[x] # t
  BY <1>2, <1>3, <1>4
<1>7. LruLoaded(s, n) = [dict |-> held, size |-> n, prev |-> prev, next |-> next]
  BY DEF LruLoaded, held, at, pos
<1> QED
  BY <1>5, <1>6, <1>7 DEF LruForgot
=============================================================================
