-------------------------- MODULE CacheImplements --------------------------
(***************************************************************************)
(* CacheServer implements PersistentCache. The mapping reads what is kept  *)
(* off the table, what is being written off the goroutines of the batch,   *)
(* and what is about to be answered off the requests past their lookup.    *)
(* History variables: "newest", the version of the last READY row, and     *)
(* "kept", the versions a row was ever READY with.                         *)
(***************************************************************************)
EXTENDS CacheServer

VARIABLES newest, kept

varsH == <<vars, newest, kept>>

(* A goroutine between its DownLoad and its commit. *)
Writing == {"admit", "pick", "resolve", "bin", "idx", "seal"}

Kept(tbl) == [f \in Files |-> IF tbl[f].state = "ready" THEN {tbl[f].ver} ELSE {}]

BeingWritten(jobs) ==
    [f \in Files |-> {jobs[w].ver : w \in {v \in Workers : jobs[v].file = f /\ jobs[v].pc \in Writing}}]

InView(reqs) ==
    [r \in Readers |-> IF reqs[r].pc \in {"check", "get", "read"}
                       THEN {<<reqs[r].file, reqs[r].ver>>} ELSE {}]

InitH == Init /\ newest = [f \in Files |-> 0] /\ kept = [f \in Files |-> {}]

NextH ==
    /\ Next
    /\ newest' = [f \in Files |-> IF table'[f].state = "ready" THEN table'[f].ver ELSE newest[f]]
    /\ kept' = [f \in Files |-> kept[f] \cup Kept(table')[f]]

SpecH == InitH /\ [][NextH]_varsH

FairSpecH == SpecH /\ Fairness

Cache == INSTANCE PersistentCache WITH
    content <- Kept(table), download <- BeingWritten(job), view <- InView(rd)

(* Through races of requests, evictions, restarts and failing statements the
   holder is a persistent cache: rows become READY only with what one writer
   fetched, and requests answer only from rows that were READY. *)
ImplementsPersistentCache == Cache!Spec

(* No interleaving of two requests that saw different etags, a goroutine and
   an eviction puts content back that is older than what was READY before. *)
ContentNeverGoesBack == [][\A f \in Files : newest[f] <= newest'[f]]_newest

(* A goroutine whose DownLoad is over holds content no older than what was
   READY last, although its row may have been lost and queued again since it
   was; and a request answers with a version that was READY, none newer. *)
FetchedIsNewest ==
    /\ \A w \in Workers : job[w].pc \in Writing =>
         newest[job[w].file] <= job[w].ver /\ job[w].ver <= origin[job[w].file]
    /\ \A r \in Readers : rd[r].pc \in {"check", "get", "read"} =>
         rd[r].ver \in kept[rd[r].file] /\ rd[r].ver <= newest[rd[r].file]
=============================================================================
