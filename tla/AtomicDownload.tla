--------------------------- MODULE AtomicDownload ---------------------------
(***************************************************************************)
(* What a download promises whoever looks at the output path.  A file      *)
(* appears there only as a whole and only where there was none.  It goes   *)
(* away only if the user allows it (--overwrite), and what is known of a   *)
(* commit is forgotten only after the file is gone.  The client reports    *)
(* success only for a committed download.                                  *)
(***************************************************************************)
CONSTANTS Source, Before, NoFile, MayWithdraw

VARIABLES
  file,       \* what is at the output path
  committed,  \* the download is recorded as committed
  reported    \* the last client reported success

vars == <<file, committed, reported>>

Init == file \in Before /\ committed = FALSE /\ reported = FALSE

Publish == /\ file = NoFile /\ ~committed
           /\ file' = Source
           /\ UNCHANGED <<committed, reported>>

Commit == /\ file = Source
          /\ committed' = TRUE
          /\ reported' = TRUE
          /\ UNCHANGED file

Withdraw == MayWithdraw /\ file' = NoFile /\ UNCHANGED <<committed, reported>>

Forget == /\ MayWithdraw /\ ~reported
          /\ committed' = FALSE
          /\ UNCHANGED <<file, reported>>

Retry == reported' = FALSE /\ UNCHANGED <<file, committed>>

Next == Publish \/ Commit \/ Withdraw \/ Forget \/ Retry

Spec == Init /\ [][Next]_vars
=============================================================================
