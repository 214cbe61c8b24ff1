---------------------------- MODULE WriteOnceFile ----------------------------
(***************************************************************************)
(* What a file written in chunks promises, without segments, tokens or     *)
(* lists of ranges: each byte is written once, each blob holds one chunk   *)
(* of one file, and chunks come in any order and from anybody; a file is   *)
(* sealed when its written bytes have no gap between them; a crash takes   *)
(* files that were not sealed, and nothing else.                           *)
(*                                                                         *)
(* Sealing does not close a file to writers: bytes written later are kept  *)
(* like the others.                                                        *)
(***************************************************************************)
EXTENDS Integers

CONSTANTS
    Files,
    Blobs,
    Length

VARIABLES
    written,    \* per file, the bytes written, each with the blob that holds it
    sealed

vars == <<written, sealed>>

Chunks == {p..q : p, q \in 0..(Length - 1)}

WrittenBytes(f) == {x[1] : x \in written[f]}

Init ==
    /\ written = [f \in Files |-> {}]
    /\ sealed = {}

BlobsUsed == UNION {{x[2] : x \in written[f]} : f \in Files}

Write(f, b, chunk) ==
    /\ chunk \cap WrittenBytes(f) = {}
    /\ written' = [written EXCEPT ![f] = @ \cup (chunk \X {b})]
    /\ UNCHANGED sealed

Seal(f) ==
    /\ \A p, q \in WrittenBytes(f) : p..q \subseteq WrittenBytes(f)
    /\ sealed' = sealed \cup {f}
    /\ UNCHANGED written

Crash ==
    /\ written' = [f \in Files |-> IF f \in sealed THEN written[f] ELSE {}]
    /\ UNCHANGED sealed

Next ==
    \/ Crash
    \/ \E f \in Files : Seal(f)
    \/ \E f \in Files, b \in Blobs \ BlobsUsed, chunk \in Chunks : Write(f, b, chunk)

Spec == Init /\ [][Next]_vars
=============================================================================
