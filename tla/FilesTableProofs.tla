-------------------------- MODULE FilesTableProofs --------------------------
(* Every statement takes a table to a table. *)
EXTENDS FilesTable, TLAPS

(* A row's fields. *)
LEMMA RowFields ==
  ASSUME NEW row \in Row
  PROVE  /\ row.state \in {"absent", "pending", "ready"}
         /\ row.owner \in TripletIds /\ row.etag \in Versions
         /\ row.tri \in TripletIds /\ row.ver \in Versions
  BY DEF Row

(* The row of a file that has none. *)
LEMMA NoRowType ==
  ASSUME MaxVersion \in Nat
  PROVE  NoRow \in Row
  BY DEF NoRow, Row, Versions, TripletIds

(* The empty table. *)
LEMMA EmptyTableType ==
  ASSUME MaxVersion \in Nat
  PROVE  EmptyTable \in FilesTables
  BY NoRowType DEF EmptyTable, FilesTables

(* Every DELETE. *)
LEMMA DeleteWhereType ==
  ASSUME MaxVersion \in Nat, NEW tbl \in FilesTables, NEW gone
  PROVE  DeleteWhere(tbl, gone) \in FilesTables
  BY NoRowType DEF DeleteWhere, FilesTables

(* The INSERT of a PENDING row. *)
LEMMA CreateType ==
  ASSUME MaxVersion \in Nat, NEW tbl \in FilesTables, NEW f \in Files,
         NEW etag \in Versions
  PROVE  CreateFileWithFidInDB(tbl, f, etag) \in FilesTables
<1> DEFINE row == [NoRow EXCEPT !.state = "pending", !.etag = etag]
<1>1. row \in Row
  <2>1. ASSUME NEW r \in Row
        PROVE  [r EXCEPT !.state = "pending", !.etag = etag] \in Row
    BY DEF Row
  <2> QED
    BY <2>1, NoRowType
<1>2. CreateFileWithFidInDB(tbl, f, etag) = [tbl EXCEPT ![f] = row]
  BY DEF CreateFileWithFidInDB
<1> HIDE DEF row
<1> QED
  BY <1>1, <1>2 DEF FilesTables

(* The UPDATE that marks a row stale, or brings one back. *)
LEMMA UpdateType ==
  ASSUME NEW tbl \in FilesTables, NEW f \in Files, NEW meta,
         meta.etag \in Versions, meta.tri \in TripletIds, meta.ver \in Versions,
         NEW state \in {"pending", "ready"}
  PROVE  UpdateFilemetaAndStateInDB(tbl, f, meta, state) \in FilesTables
<1>1. ASSUME NEW row \in Row
      PROVE  [row EXCEPT !.state = state, !.etag = meta.etag,
                         !.tri = meta.tri, !.ver = meta.ver] \in Row
  BY DEF Row
<1> QED
  BY <1>1 DEF UpdateFilemetaAndStateInDB, FilesTables

(* The commit of a sealed row. *)
LEMMA CommitType ==
  ASSUME NEW tbl \in FilesTables, NEW f \in Files,
         NEW tri \in TripletIds, NEW ver \in Versions
  PROVE  CommitCacheFileInDB(tbl, f, tri, ver) \in FilesTables
<1>1. ASSUME NEW row \in Row
      PROVE  [row EXCEPT !.state = "ready", !.owner = tri, !.tri = tri, !.ver = ver] \in Row
  BY DEF Row
<1> QED
  BY <1>1 DEF CommitCacheFileInDB, FilesTables
=============================================================================
