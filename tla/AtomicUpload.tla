---------------------------- MODULE AtomicUpload ----------------------------
(***************************************************************************)
(* What an upload promises whoever looks at the output path: the file      *)
(* there changes in one step from what it was to the whole source file,    *)
(* the transfer is committed only when it is the source file, and the      *)
(* sender reports success only when it is committed.  Crashes, resumes,    *)
(* retries and the transfer itself are invisible.                          *)
(***************************************************************************)
CONSTANTS Source, Before  \* the file sent; what may be at the path before

VARIABLES
  file,       \* what is at the output path
  committed,  \* the transfer is recorded as committed
  acked       \* the sender has reported success

vars == <<file, committed, acked>>

Init == file \in Before /\ committed = FALSE /\ acked = FALSE

Publish == ~committed /\ file' = Source /\ UNCHANGED <<committed, acked>>

Commit == file = Source /\ committed' = TRUE /\ UNCHANGED <<file, acked>>

Acknowledge == committed /\ acked' = TRUE /\ UNCHANGED <<file, committed>>

Next == Publish \/ Commit \/ Acknowledge

Spec == Init /\ [][Next]_vars
=============================================================================
