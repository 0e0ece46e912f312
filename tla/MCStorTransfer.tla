--------------------------- MODULE MCStorTransfer ---------------------------
(* Constant values for model checking StorTransfer. *)
EXTENDS StorTransfer

PlainOptions == [resume : BOOLEAN, overwrite : {FALSE}, ids : {Ids}]
OverwriteOptions == [resume : BOOLEAN, overwrite : {TRUE}, ids : {Ids}]

(* The source differs from a fresh temp file in every block, and from one   *)
(* block to the next.                                                       *)
Alternating == [p \in Positions |-> 1 + (p % 2)]

NoOutput == {NoFile}
FreeOrOld == {NoFile, EmptyImage}
=============================================================================
