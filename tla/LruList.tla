------------------------------ MODULE LruList ------------------------------
(***************************************************************************)
(* One LruCache (src/server/holder/src/blob_handler/lru.go) and the        *)
(* goroutines that share it: requests in Get, a Put, the evictor in        *)
(* GetCurTailNameForEvict and the purges in DeleteFromCache.               *)
(*                                                                         *)
(* rwLock is held shared by Get and exclusively by Put and                 *)
(* DeleteFromCache; listLock around each pointer surgery only, so that     *)
(* moveToHead is two steps. GetCurTailNameForEvict takes listLock alone:   *)
(* it runs next to the others, and its size-- is under another lock than   *)
(* Put's size++. Evictions and purge rounds exclude each other (pMtx).     *)
(*                                                                         *)
(* CacheServer takes each operation as one step of TripletLru; what that   *)
(* leaves out is here.                                                     *)
(***************************************************************************)
EXTENDS TripletLru, SequencesExt

CONSTANTS
    Getters,        \* requests
    MaxEvictions    \* BOUND on the evictions

ASSUME LruListAssumption == MaxEvictions \in Nat

VARIABLES
    lru,        \* the dictionary, the pointers and the count
    get,        \* where each request is in Get, and its key
    put,        \* where the Put is; waiting keeps later readers out
    evict,      \* the evictor between its unlinking and its count
    victims,    \* triplets evicted and not purged yet
    \* bounds and history
    evictions,  \* the number of evictions so far
    order,      \* keys by their last move to the head, the oldest first
    moved,      \* victims since whose eviction the list has changed
    clashed     \* one of the steps OrderKept excuses was taken

vars == <<lru, get, put, evict, victims, evictions, order, moved, clashed>>

NotGetting == [pc |-> "idle", key |-> NoTriplet]
NotPutting == [pc |-> "idle", key |-> NoTriplet, seen |-> 0]
NotEvicting == [pc |-> "idle", seen |-> 0]

TypeOK ==
    /\ lru \in LruCache
    /\ get \in [Getters -> [pc : {"idle", "load", "unlink", "relink"}, key : TripletIds]]
    /\ put \in [pc : {"idle", "wait", "size", "count", "add", "store"},
                key : TripletIds, seen : Int]
    /\ evict \in [pc : {"idle", "count"}, seen : Int]
    /\ victims \subseteq TripletIds
    /\ evictions \in 0..MaxEvictions
    /\ order \in Seq(Triplets)
    /\ moved \subseteq victims
    /\ clashed \in BOOLEAN

-----------------------------------------------------------------------------
(* The keys in order of use, as the list is to hold them. *)

(* Position i from the tail: 0 is one sentinel and Len(s) + 1 the other. *)
NodeAt(s, i) == IF i = 0 THEN ListTail ELSE IF i > Len(s) THEN ListHead ELSE s[i]

(* Both directions of the list hold s, its first element next to the tail. *)
Linked(c, s) ==
    \A i \in 0..Len(s) : /\ c.prev[NodeAt(s, i)] = NodeAt(s, i + 1)
                         /\ c.next[NodeAt(s, i + 1)] = NodeAt(s, i)

-----------------------------------------------------------------------------
(* Locks. *)

ListLockFree == evict.pc = "idle"

NoReaders == \A r \in Getters : get[r].pc = "idle"

(* A request has the node in hand, and no list has it. *)
InHand(t) == \E r \in Getters : get[r].pc = "relink" /\ get[r].key = t

(* The list has changed: the neighbours the victims remember are old. *)
ListMoves == moved' = victims

-----------------------------------------------------------------------------
(* Get. *)

(* RLock; a waiting writer goes first. *)
GetLock(r, t) ==
    /\ get[r].pc = "idle" /\ put.pc = "idle"
    /\ get' = [get EXCEPT ![r] = [pc |-> "load", key |-> t]]
    /\ UNCHANGED <<lru, put, evict, victims, evictions, order, moved, clashed>>

(* Mutated: a miss returns without unlocking. *)
GetLoadStuck(r) ==
    /\ get[r].pc = "load" /\ get[r].key \in lru.dict
    /\ get' = [get EXCEPT ![r].pc = "unlink"]
    /\ UNCHANGED <<lru, put, evict, victims, evictions, order, moved, clashed>>

GetLoad(r) ==
    /\ get[r].pc = "load"
    /\ get' = [get EXCEPT ![r] = IF @.key \in lru.dict THEN [@ EXCEPT !.pc = "unlink"]
                                                      ELSE NotGetting]
    /\ UNCHANGED <<lru, put, evict, victims, evictions, order, moved, clashed>>

GetUnlink(r) ==
    /\ get[r].pc = "unlink" /\ ListLockFree
    /\ LET t == get[r].key IN
         /\ lru' = DeleteNode(lru, t)
         /\ clashed' = (clashed \/ InHand(t) \/ t \in victims)
         /\ order' = RemoveFirst(order, t)
    /\ get' = [get EXCEPT ![r].pc = "relink"]
    /\ ListMoves
    /\ UNCHANGED <<put, evict, victims, evictions>>

GetRelink(r) ==
    /\ get[r].pc = "relink" /\ ListLockFree
    /\ lru' = AddToHead(lru, get[r].key)
    /\ order' = Append(RemoveFirst(order, get[r].key), get[r].key)
    /\ get' = [get EXCEPT ![r] = NotGetting]
    /\ ListMoves
    /\ UNCHANGED <<put, evict, victims, evictions, clashed>>

-----------------------------------------------------------------------------
(* Put of a new triplet: each id is put once. *)

PutWait(t) ==
    /\ put.pc = "idle"
    /\ t \notin lru.dict \cup victims /\ LruForgot(lru, t)
    /\ put' = [put EXCEPT !.pc = "wait", !.key = t]
    /\ UNCHANGED <<lru, get, evict, victims, evictions, order, moved, clashed>>

PutLock ==
    /\ put.pc = "wait" /\ NoReaders
    /\ put' = [put EXCEPT !.pc = "size"]
    /\ UNCHANGED <<lru, get, evict, victims, evictions, order, moved, clashed>>

(* size++ is a load and a store: nothing keeps the evictor's size-- apart. *)
PutSize ==
    /\ put.pc = "size"
    /\ put' = [put EXCEPT !.pc = "count", !.seen = lru.size]
    /\ UNCHANGED <<lru, get, evict, victims, evictions, order, moved, clashed>>

PutCount ==
    /\ put.pc = "count"
    /\ lru' = [lru EXCEPT !.size = put.seen + 1]
    /\ put' = [put EXCEPT !.pc = "add"]
    /\ UNCHANGED <<get, evict, victims, evictions, order, moved, clashed>>

PutAdd ==
    /\ put.pc = "add" /\ ListLockFree
    /\ lru' = AddToHead(lru, put.key)
    /\ order' = Append(order, put.key)
    /\ put' = [put EXCEPT !.pc = "store"]
    /\ ListMoves
    /\ UNCHANGED <<get, evict, victims, evictions, clashed>>

PutStore ==
    /\ put.pc = "store"
    /\ lru' = [lru EXCEPT !.dict = @ \cup {put.key}]
    /\ put' = NotPutting
    /\ UNCHANGED <<get, evict, victims, evictions, order, moved, clashed>>

-----------------------------------------------------------------------------
(* GetTailNameForEvict reads size without a lock. The key goes to the
   collector, which purges it later. *)
EvictTail ==
    /\ ListLockFree /\ lru.size > 0
    /\ evictions < MaxEvictions
    /\ lru' = DeleteNode(lru, lru.prev[ListTail])
    /\ evict' = [pc |-> "count", seen |-> lru.size]
    /\ victims' = victims \cup {LruTail(lru)}
    /\ moved' = victims \ {LruTail(lru)}
    /\ evictions' = evictions + 1
    /\ order' = RemoveFirst(order, LruTail(lru))
    /\ clashed' = (clashed \/ LruTail(lru) = NoTriplet)
    /\ UNCHANGED <<get, put>>

EvictCount ==
    /\ evict.pc = "count"
    /\ lru' = [lru EXCEPT !.size = evict.seen - 1]
    /\ evict' = NotEvicting
    /\ UNCHANGED <<get, put, victims, evictions, order, moved, clashed>>

(* DeleteFromCache of a victim, by a purge round: rwLock, and no eviction. *)
Purge(t) ==
    /\ t \in victims /\ evict.pc = "idle"
    /\ NoReaders /\ put.pc = "idle"
    /\ lru' = LruDelete(lru, t)
    /\ victims' = victims \ {t}
    /\ moved' = victims \ {t}
    /\ order' = RemoveFirst(order, t)
    /\ clashed' = (clashed \/ t \in moved)
    /\ UNCHANGED <<get, put, evict, evictions>>

-----------------------------------------------------------------------------
Init ==
    /\ lru = LruNew
    /\ get = [r \in Getters |-> NotGetting]
    /\ put = NotPutting
    /\ evict = NotEvicting
    /\ victims = {}
    /\ evictions = 0 /\ order = <<>> /\ moved = {} /\ clashed = FALSE

Get(r) == GetLoad(r) \/ GetUnlink(r) \/ GetRelink(r)

Put == PutLock \/ PutSize \/ PutCount \/ PutAdd \/ PutStore

Next ==
    \/ \E r \in Getters : Get(r) \/ \E t \in Triplets : GetLock(r, t)
    \/ Put \/ \E t \in Triplets : PutWait(t)
    \/ EvictTail \/ EvictCount
    \/ \E t \in TripletIds : Purge(t)

(* A goroutine that is runnable runs; nobody has to call. *)
Fairness ==
    /\ \A r \in Getters : WF_vars(Get(r))
    /\ WF_vars(Put)
    /\ WF_vars(EvictCount)

Spec == Init /\ [][Next]_vars

FairSpec == Spec /\ Fairness

-----------------------------------------------------------------------------
(* Safety. *)

(* "we move last read or enqueued elements to head": in both directions the
   list holds its triplets in order of use, with requests, a Put and evictions
   in the middle of their work, until a request unlinks a node another one has
   in hand, or a victim's; a victim is purged after the list has changed; or
   an eviction finds the list empty. *)
OrderKept == ~clashed => Linked(lru, order)

(* Under the same condition no triplet of the dictionary is lost to eviction:
   it is in the list, in a request's hand on its way back to the head, or
   evicted and waiting for its purge. *)
NothingLost ==
    ~clashed => \A t \in lru.dict : Contains(order, t) \/ InHand(t) \/ t \in victims

(* "when certain criteria meets, we remove tail element": with no request in
   the middle of its work, the next eviction takes the triplet whose last use
   is the oldest. *)
TailIsOldest ==
    ListLockFree /\ NoReaders /\ order # <<>> => LruTail(lru) = Head(order)

-----------------------------------------------------------------------------
(* Liveness. *)

(* A Put, and with it the swap or the large object it belongs to, gets
   through however many requests look triplets up, hits and misses. *)
PutReturns == put.pc = "wait" ~> put.pc = "idle"
=============================================================================
