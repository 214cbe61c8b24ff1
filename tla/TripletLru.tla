----------------------------- MODULE TripletLru -----------------------------
(***************************************************************************)
(* LruCache of src/server/holder/src/blob_handler/lru.go: the dictionary   *)
(* of triplets and the doubly linked list that orders them by recency.     *)
(*                                                                         *)
(* The list is kept at the level of its pointers, because what an eviction *)
(* takes is whatever tail.prev points at: a node the list no longer holds  *)
(* keeps its own prev and next, and a later Get relinks it from those      *)
(* stale neighbours. A node is named by its key; a triplet id is put once. *)
(***************************************************************************)
EXTENDS Integers, TripletIds

(* The sentinel nodes head and tail; their key is the empty string. *)
ListHead == "head"
ListTail == "tail"
Nodes == Triplets \cup {ListHead, ListTail}

ASSUME SentinelsAssumption == ListHead \notin Triplets /\ ListTail \notin Triplets

LruCache == [dict : SUBSET Triplets, size : Int,
             prev : [Nodes -> Nodes], next : [Nodes -> Nodes]]

(* A node out of every list points at itself. *)
Unlinked == [n \in Nodes |-> IF n = ListHead THEN ListTail ELSE IF n = ListTail THEN ListHead ELSE n]

LruNew == [dict |-> {}, size |-> 0, prev |-> Unlinked, next |-> Unlinked]

-----------------------------------------------------------------------------
(* The pointer surgery, as the code does it under listLock. *)

(* Mutated: only one of the two neighbours is told. *)
DeleteNodeForward(c, n) ==
    [c EXCEPT !.next = [@ EXCEPT ![c.prev[n]] = c.next[n]]]

DeleteNode(c, n) ==
    [c EXCEPT !.next = [@ EXCEPT ![c.prev[n]] = c.next[n]],
              !.prev = [@ EXCEPT ![c.next[n]] = c.prev[n]]]

AddToHead(c, n) ==
    [c EXCEPT !.next = [@ EXCEPT ![n] = c.next[ListHead], ![ListHead] = n],
              !.prev = [@ EXCEPT ![c.next[ListHead]] = n, ![n] = ListHead]]

MoveToHead(c, n) == AddToHead(DeleteNode(c, n), n)

(* A node outside the dictionary that no other node points at is garbage. *)
Garbage(c, n) ==
    /\ n \in Triplets \ c.dict
    /\ \A m \in Nodes \ {n} : c.prev[m] # n /\ c.next[m] # n

Collect(c) ==
    [c EXCEPT !.next = [n \in Nodes |-> IF Garbage(c, n) THEN n ELSE c.next[n]],
              !.prev = [n \in Nodes |-> IF Garbage(c, n) THEN n ELSE c.prev[n]]]

-----------------------------------------------------------------------------
(* The operations. *)

LruGet(c, t) == IF t \in c.dict THEN MoveToHead(c, t) ELSE c

LruPut(c, t) ==
    IF t \in c.dict
    THEN MoveToHead(c, t)
    ELSE [AddToHead(c, t) EXCEPT !.dict = @ \cup {t}, !.size = @ + 1]

(* Mutated: the sentinel is taken for a triplet. *)
LruTailUnchecked(c) == c.prev[ListTail]

(* GetCurTailNameForEvict: the key it returns and the cache it leaves. The
   node leaves the list and the count, and stays in the dictionary. *)
LruTail(c) == IF c.prev[ListTail] \in Triplets THEN c.prev[ListTail] ELSE NoTriplet

LruDropTail(c) == Collect([DeleteNode(c, c.prev[ListTail]) EXCEPT !.size = @ - 1])

(* Mutated: the purge forgets the dictionary. *)
LruDeleteListOnly(c, t) == IF t \in c.dict THEN Collect(DeleteNode(c, t)) ELSE c

(* DeleteFromCache unlinks the node again and leaves size alone. *)
LruDelete(c, t) ==
    IF t \in c.dict
    THEN Collect([DeleteNode(c, t) EXCEPT !.dict = @ \ {t}])
    ELSE c

(* The id occurs nowhere in the cache, not even in a stale pointer. *)
LruForgot(c, t) ==
    /\ t \notin c.dict
    /\ \A n \in Nodes \ {t} : c.prev[n] # t /\ c.next[n] # t

(* The cache after Put of s[1], ..., s[n] into a new one: s[1] is next to the
   tail, at position 1, and s[n] next to the head. *)
LruLoaded(s, n) ==
    LET held == {s[i] : i \in 1..n}
        at(i) == IF i < 1 THEN ListTail ELSE IF i > n THEN ListHead ELSE s[i]
        pos(x) == IF x = ListTail THEN 0 ELSE IF x = ListHead THEN n + 1
                  ELSE CHOOSE i \in 1..n : s[i] = x
    IN  [dict |-> held, size |-> n,
         prev |-> [x \in Nodes |->
                     IF x \in held \cup {ListTail} THEN at(pos(x) + 1) ELSE Unlinked[x]],
         next |-> [x \in Nodes |->
                     IF x \in held \cup {ListHead} THEN at(pos(x) - 1) ELSE Unlinked[x]]]
=============================================================================
