--------------------------- MODULE MCStorReceiver ---------------------------
(* Constant values for model checking StorReceiver. *)
EXTENDS StorReceiver, TLC

(* Every combination of --resume and --overwrite, with any transfer id. *)
AllOptions == [resume : BOOLEAN, overwrite : BOOLEAN, ids : {Ids}]

PlainOptions == [resume : BOOLEAN, overwrite : {FALSE}, ids : {Ids}]

(* The output path is free, or holds an older file. *)
NoOutput == {NoFile}
FreeOrOld == {NoFile, EmptyImage}

(* Connections are interchangeable. *)
StreamSymmetry == Permutations(Streams)
=============================================================================
