--------------------------- MODULE MCRetrTransfer ---------------------------
(* Constant values for model checking RetrTransfer. *)
EXTENDS RetrTransfer

PlainOptions == [resume : BOOLEAN, overwrite : {FALSE}, id : Ids, limit : {0}]
AllOptions == [resume : BOOLEAN, overwrite : BOOLEAN, id : Ids, limit : {0}]

(* The source differs from a fresh temp file in every block, and from one   *)
(* block to the next.                                                       *)
Alternating == [p \in Positions |-> 1 + (p % 2)]

NoOutput == {NoFile}
FreeOrOld == {NoFile, EmptyImage}
=============================================================================
