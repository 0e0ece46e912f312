--------------------------- MODULE MCRetrReceiver ---------------------------
(* Constant values for model checking RetrReceiver. *)
EXTENDS RetrReceiver, TLC

(* A plain download, with or without --max-chunks, or a later one that      *)
(* resumes or overwrites.                                                   *)
FirstOrLater ==
  {o \in [resume : BOOLEAN, overwrite : BOOLEAN, id : Ids, limit : {0, 1}] :
     /\ ~(o.resume /\ o.overwrite)
     /\ o.resume \/ o.overwrite => o.limit = 0}
OverwriteOptions == [resume : BOOLEAN, overwrite : BOOLEAN, id : Ids, limit : {0}]

NoOutput == {NoFile}
OldOutput == {EmptyImage}

(* Bound: two threads receive at the same time in a first download without  *)
(* a fault.  Later ones, and what is left of one after a fault, receive on  *)
(* one connection after the other, and chunk c begins at block c.           *)
OneByOneLater ==
  opts.resume \/ opts.overwrite \/ faults > 0 =>
    /\ Cardinality({s \in Streams : worker[s] = "receive"}) <= 1
    /\ \A s \in Streams : rx[s].active => rx[s].chunk = rx[s].start

StreamSymmetry == Permutations(Streams)
=============================================================================
