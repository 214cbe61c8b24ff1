----------------------------- MODULE FilesTable -----------------------------
(***************************************************************************)
(* The oss_files table and the statements DBOpsFile runs on it             *)
(* (src/server/holder/src/db_ops/files_db.go). Each statement is one       *)
(* autocommitted SQL statement or one transaction, so it is one function   *)
(* from the table to the table; the caller's action makes it a step.       *)
(*                                                                         *)
(* A row's file_meta holds an etag and one RangeCode whose token names the *)
(* triplet and the blob: "tri" is the triplet, and "ver" the version of    *)
(* the origin's content that blob was written from. The owners column is   *)
(* apart from file_meta, and the two are not always written together.      *)
(***************************************************************************)
EXTENDS Integers, TripletIds

CONSTANTS
    Files,        \* url = file name = fid
    MaxVersion    \* BOUND on the versions of a file at the origin

Versions == 0..MaxVersion

Row == [state : {"absent", "pending", "ready"},
        owner : TripletIds, etag : Versions, tri : TripletIds, ver : Versions]

FilesTables == [Files -> Row]

NoRow == [state |-> "absent", owner |-> NoTriplet, etag |-> 0, tri |-> NoTriplet, ver |-> 0]

EmptyTable == [f \in Files |-> NoRow]

-----------------------------------------------------------------------------
(* The rows an UPDATE or DELETE removes become NoRow. *)
DeleteWhere(tbl, gone) == [f \in Files |-> IF f \in gone THEN NoRow ELSE tbl[f]]

CreateFileWithFidInDB(tbl, f, etag) ==
    [tbl EXCEPT ![f] = [NoRow EXCEPT !.state = "pending", !.etag = etag]]

(* UPDATE ... SET file_meta, state WHERE fid: the whole file_meta the caller
   read earlier goes back, owners stays, and a row that is gone stays gone. *)
UpdateFilemetaAndStateInDB(tbl, f, meta, state) ==
    IF tbl[f].state = "absent"
    THEN tbl
    ELSE [tbl EXCEPT ![f] = [@ EXCEPT !.state = state, !.etag = meta.etag,
                                      !.tri = meta.tri, !.ver = meta.ver]]

(* The transaction finds no file_meta to decode when the row is gone. *)
CanCommit(tbl, f) == tbl[f].state # "absent"

(* Mutated: the owners column is not updated with file_meta. *)
CommitWithoutOwner(tbl, f, tri, ver) ==
    [tbl EXCEPT ![f] = [@ EXCEPT !.state = "ready", !.tri = tri, !.ver = ver]]

(* SELECT file_meta FOR UPDATE, then UPDATE SET state, owners, file_meta: the
   etag in the row is kept, and the state it had is not looked at. *)
CommitCacheFileInDB(tbl, f, tri, ver) ==
    [tbl EXCEPT ![f] = [@ EXCEPT !.state = "ready", !.owner = tri,
                                 !.tri = tri, !.ver = ver]]

DeleteFileWithTripleIdInDB(tbl, t) ==
    DeleteWhere(tbl, {f \in Files : tbl[f].state # "absent" /\ tbl[f].owner = t})

DeletePendingFileWithFIdInDB(tbl, fid) ==
    DeleteWhere(tbl, {f \in {fid} : tbl[f].state = "pending"})

DeleteAllPendingFileInDB(tbl) ==
    DeleteWhere(tbl, {f \in Files : tbl[f].state = "pending"})

(* SELECT DISTINCT owners *)
ListTripleIdOfAllFiles(tbl) ==
    {tbl[f].owner : f \in {g \in Files : tbl[g].state # "absent"}}
=============================================================================
