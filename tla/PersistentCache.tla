-------------------------- MODULE PersistentCache --------------------------
(***************************************************************************)
(* What the holder promises, without triplets, rows, queues or mutexes: a  *)
(* cache in front of an object store (original-design-doc.md). A file is   *)
(* fetched by one writer at a time, kept for as long as the cache likes,   *)
(* and answered from what is kept. A crash loses what is under way and     *)
(* nothing that is kept.                                                   *)
(*                                                                         *)
(* "Nothing or one" is a set with at most one element.                     *)
(***************************************************************************)
EXTENDS Integers

CONSTANTS
    Files,
    Readers

VARIABLES
    origin,     \* the version of each file the object store serves now
    content,    \* the version kept, or nothing
    download,   \* the version being written, or nothing
    newest,     \* history: the last version that was kept
    kept,       \* history: the versions that were ever kept
    view        \* the file and version a request is about to answer with, or nothing

vars == <<origin, content, download, newest, kept, view>>

Versions == Nat

TypeOK ==
    /\ origin \in [Files -> Versions]
    /\ content \in [Files -> SUBSET Versions]
    /\ download \in [Files -> SUBSET Versions]
    /\ newest \in [Files -> Versions]
    /\ kept \in [Files -> SUBSET Versions]
    /\ view \in [Readers -> SUBSET (Files \X Versions)]

Init ==
    /\ origin = [f \in Files |-> 0]
    /\ content = [f \in Files |-> {}]
    /\ download = [f \in Files |-> {}]
    /\ newest = [f \in Files |-> 0]
    /\ kept = [f \in Files |-> {}]
    /\ view = [r \in Readers |-> {}]

Update(f) ==
    /\ origin' = [origin EXCEPT ![f] = @ + 1]
    /\ UNCHANGED <<content, download, newest, kept, view>>

Fetch(f) ==
    /\ download[f] = {}
    /\ download' = [download EXCEPT ![f] = {origin[f]}]
    /\ UNCHANGED <<origin, content, newest, kept, view>>

Store(f) ==
    \E v \in download[f] :
        /\ content' = [content EXCEPT ![f] = {v}]
        /\ newest' = [newest EXCEPT ![f] = v]
        /\ kept' = [kept EXCEPT ![f] = @ \cup {v}]
        /\ download' = [download EXCEPT ![f] = {}]
        /\ UNCHANGED <<origin, view>>

GiveUp(f) ==
    /\ download' = [download EXCEPT ![f] = {}]
    /\ UNCHANGED <<origin, content, newest, kept, view>>

(* Eviction, or an etag that is no longer the origin's. *)
Lose(lost) ==
    /\ content' = [f \in Files |-> IF f \in lost THEN {} ELSE content[f]]
    /\ UNCHANGED <<origin, download, newest, kept, view>>

Look(r, f) ==
    /\ view[r] = {}
    /\ \E v \in content[f] : view' = [view EXCEPT ![r] = {<<f, v>>}]
    /\ UNCHANGED <<origin, content, download, newest, kept>>

(* With the content in view, or with "not found". *)
Reply(r) ==
    /\ view' = [view EXCEPT ![r] = {}]
    /\ UNCHANGED <<origin, content, download, newest, kept>>

Crash ==
    /\ download' = [f \in Files |-> {}]
    /\ view' = [r \in Readers |-> {}]
    /\ UNCHANGED <<origin, content, newest, kept>>

Next ==
    \/ \E f \in Files : Update(f) \/ Fetch(f) \/ Store(f) \/ GiveUp(f)
    \/ \E lost \in SUBSET Files : Lose(lost)
    \/ \E r \in Readers, f \in Files : Look(r, f)
    \/ \E r \in Readers : Reply(r)
    \/ Crash

Spec == Init /\ [][Next]_vars

-----------------------------------------------------------------------------
(* Whatever is kept is the newest that was ever kept, whatever is on its way
   is at least as new, and the origin is ahead of both. *)
NewestKept ==
    \A f \in Files :
        /\ \A v \in content[f] : v = newest[f]
        /\ \A v \in download[f] : newest[f] <= v /\ v <= origin[f]
        /\ newest[f] <= origin[f]

(* A file that was lost and fetched again is never kept in a version older
   than one that was kept before. *)
NeverOlder == [][\A f \in Files : newest[f] <= newest'[f]]_newest

(* A request answers with a version that was kept: not with one that was
   fetched and given up, nor with one the origin had in between. *)
AnswersWereKept == \A r \in Readers : \A p \in view[r] : p[2] \in kept[p[1]]
=============================================================================
