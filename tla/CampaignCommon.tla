--------------------------- MODULE CampaignCommon ---------------------------
(***************************************************************************)
(* What the comparison campaigns of tools/perf/ have in common: the cloud  *)
(* matrix (CloudCampaign), the three-way comparison (ThreeWayCampaign) and *)
(* the disk bottleneck proof (DiskProof).  A campaign goes through its     *)
(* phases; one of them runs the private matrix as a subprocess; an         *)
(* exception leaves the try of main() for its finally, which cleans up and *)
(* writes the wrapper.                                                     *)
(* Bound: a campaign starts one private matrix; the code starts one per    *)
(* size and option set, one after the other.                               *)
(***************************************************************************)
EXTENDS PerfMatrix

CONSTANTS Campaigns,
          NestedRun,    \* [Campaigns -> the matrix run a campaign starts]
          NestedSizes,  \* --bytes of the nested matrix, as numbers of chunks
          Repeats       \* the values of --repeat a campaign is started with

ASSUME NestedAssumption == NestedRun \in [Campaigns -> Runs]

VARIABLES style,   \* [Campaigns -> {"cloud", "three", "disk"}]
          camp,    \* [Campaigns -> what a campaign knows and has started]
          recent   \* [Campaigns -> the run with the newest CSV since the nested start]

campaignVars == <<style, camp, recent>>

(* helpers: servers the campaign has started, "iperf3-peer" on the other      *)
(* machine; bad: a row or a step that failed; rows: what it read of the CSV   *)
(* of run `source`.                                                           *)
EmptyCampaign == [pc |-> "idle", helpers |-> {}, account |-> FALSE, created |-> FALSE,
                  bad |-> FALSE, raised |-> FALSE, source |-> Absent, rows |-> <<>>,
                  wrapper |-> "none", exit |-> "none"]

In(c, tool_, step) == style[c] = tool_ /\ camp[c].pc = step /\ camp[c].exit = "none"
Set(c, next) == camp' = [camp EXCEPT ![c] = next]
Go(c, step) == Set(c, [camp[c] EXCEPT !.pc = step])
Failing(c, step) == Set(c, [camp[c] EXCEPT !.pc = step, !.bad = TRUE])
(* An exception leaves the try of main() for its finally.                     *)
Leave(c, from) == Set(c, [from EXCEPT !.pc = "cleanup", !.raised = TRUE])
(* An exception in the finally: no wrapper, a traceback.                      *)
Abort(c) == Set(c, [camp[c] EXCEPT !.exit = "crash"])
Quiet == UNCHANGED <<matrixVars, style, recent>>
QuietButFaults == UNCHANGED <<tool, run, processVars, local, remote, disk, style, recent>>

(* A phase that touches nothing of the model: it ends, or a command that must *)
(* not fail or takes too long raises.                                         *)
Plain(c, next) ==
    /\ \/ Go(c, next) /\ NoFault
       \/ Leave(c, camp[c]) /\ Fault
    /\ QuietButFaults
(* The same with rows that may fail and count.                                *)
Counted(c, next) ==
    /\ \/ Go(c, next) /\ NoFault
       \/ (Failing(c, next) \/ Leave(c, camp[c])) /\ Fault
    /\ QuietButFaults

-----------------------------------------------------------------------------
(* Servers for a measurement                                                  *)

(* A server here.  The tools it needs may be missing: the phase is left out,  *)
(* and if its rows count, that is a failure.                                  *)
StartHere(c, helper, next, skip, counts) ==
    /\ \/ /\ Set(c, [camp[c] EXCEPT !.helpers = @ \cup {helper}, !.pc = next])
          /\ NoFault
       \/ Set(c, [camp[c] EXCEPT !.pc = skip, !.bad = @ \/ counts]) /\ Fault
       \/ Leave(c, camp[c]) /\ Fault
    /\ QuietButFaults
(* It is stopped in the finally of the measurement: terminate, five seconds,  *)
(* kill.                                                                      *)
StopsHere(c, helper, next, counts) ==
    /\ LET stopped == [camp[c] EXCEPT !.helpers = @ \ {helper}]
       IN \/ Set(c, [stopped EXCEPT !.pc = next]) /\ NoFault
          \/ Set(c, [stopped EXCEPT !.pc = next, !.bad = @ \/ counts]) /\ Fault
          \/ Leave(c, stopped) /\ Fault
    /\ QuietButFaults

(* The iperf3 server of the reverse direction runs on the other machine.  Its *)
(* start and its kill are ssh commands: a timeout raises, and an ssh that     *)
(* fails is not noticed, so that the server may stay.                         *)
StartPeer(c, next) ==
    /\ \/ Set(c, [camp[c] EXCEPT !.helpers = @ \cup {"iperf3-peer"}, !.pc = next]) /\ NoFault
       \/ Go(c, next) /\ Fault
       \/ Leave(c, [camp[c] EXCEPT !.helpers = @ \cup {"iperf3-peer"}]) /\ Fault
    /\ QuietButFaults
StopsPeer(c, next, counts) ==
    \/ StopsHere(c, "iperf3-peer", next, counts)
    \/ (Go(c, next) \/ Leave(c, camp[c])) /\ Fault /\ QuietButFaults

(* result_row: a pass needs both hashes, and equal ones.                      *)
RowPasses(status, match) == status = "pass" /\ match

(* globus-url-copy or lftp for every size and repeat, rows of any outcome; a  *)
(* transfer that takes too long raises, and the rows before it are lost.      *)
MeasureTransfers(c, after, next) ==
    /\ \/ \E status \in {"pass", "fail"}, match \in BOOLEAN :
            /\ IF RowPasses(status, match) THEN NoFault ELSE Fault
            /\ Set(c, [after EXCEPT !.pc = next, !.bad = @ \/ ~RowPasses(status, match)])
       \/ Leave(c, after) /\ Fault
    /\ QuietButFaults

(* `account` is one that useradd has made.  It exists before the campaign     *)
(* knows that it has created it; one that was there before is used and kept.  *)
SetupAccount(c, next) ==
    /\ \/ Set(c, [camp[c] EXCEPT !.pc = next, !.account = TRUE, !.created = TRUE]) /\ NoFault
       \/ Go(c, next) /\ NoFault
       \/ (Leave(c, camp[c]) \/ Leave(c, [camp[c] EXCEPT !.account = TRUE])) /\ Fault
    /\ QuietButFaults

(* The GridFTP server is a daemon with a pid file.  It is not stopped when    *)
(* the phase ends, nor when its port is not seen to open.                     *)
StartDaemon(c, next, skip) ==
    /\ LET started == [camp[c] EXCEPT !.helpers = @ \cup {"globus-gridftp-server"}]
       IN \/ Set(c, [started EXCEPT !.pc = next]) /\ NoFault
          \/ Set(c, [started EXCEPT !.pc = skip, !.bad = TRUE]) /\ Fault
          \/ (Failing(c, skip) \/ Leave(c, camp[c])) /\ Fault
    /\ QuietButFaults

(* Stopping servers in the finally: what `found` holds is killed.             *)
StopsAll(c, found) ==
    /\ \/ Set(c, [camp[c] EXCEPT !.helpers = @ \ found, !.pc = "remove"]) /\ NoFault
       \/ Abort(c) /\ Fault
    /\ QuietButFaults

-----------------------------------------------------------------------------
(* The nested matrix                                                          *)

MatrixCommand(directions, tls, repeat) ==
    [directions |-> directions, chunks |-> NestedSizes, buffers |-> <<0>>,
     strategies |-> <<"auto">>, profiles |-> <<"default">>, pendings |-> <<0>>,
     yields |-> <<"none">>, tls |-> <<tls>>, data_tls |-> <<tls>>, repeat |-> repeat]

(* The clock is read before the start; files of the second before count too.  *)
StartMatrix(c, commands) ==
    LET n == NestedRun[c] IN
    /\ At(n, "idle")
    /\ \E args \in commands : Startup(n, args)
    /\ Go(c, "nested")
    /\ \E old \in {Absent} \cup {r \in Runs : disk[r].csv # <<>>} :
          recent' = [recent EXCEPT ![c] = old]
    /\ UNCHANGED <<tool, processVars, local, remote, style>>

MatrixEnded(c) == run[NestedRun[c]].exit # "none"
MatrixFailed(c) == run[NestedRun[c]].exit # "ok"
RowsOf(source) == IF source = Absent THEN <<>> ELSE disk[source].csv

(* What the campaign takes from a matrix that has ended.                      *)
Takes(c, source, bad, next) ==
    Set(c, [camp[c] EXCEPT !.pc = next, !.source = source, !.rows = RowsOf(source),
                           !.bad = @ \/ bad])

(* subprocess.run kills the matrix when its time is over, and raises.         *)
MatrixTimeout(c) ==
    LET n == NestedRun[c] IN
    /\ camp[c].pc = "nested" /\ camp[c].exit = "none" /\ run[n].exit = "none" /\ Fault
    /\ Killed(n)
    /\ Leave(c, camp[c])
    /\ UNCHANGED <<tool, server, port, frozen, local, remote, disk, style, recent>>

-----------------------------------------------------------------------------
(* The finally of main()                                                      *)

(* userdel refuses while a server still runs for the account (external).      *)
AccountAfter(c) == camp[c].account /\ ~(camp[c].created
                                          /\ "globus-gridftp-server" \notin camp[c].helpers)

(* rm -rf of the campaign's files, the run roots of its matrix included, here *)
(* and there; a command that takes too long ends the finally.                 *)
Removes(c, remoteAfter) ==
    /\ \/ /\ Set(c, [camp[c] EXCEPT !.account = AccountAfter(c), !.pc = "wrapper"])
          /\ remote' = remoteAfter
          /\ local' = [local EXCEPT ![NestedRun[c]] = NoFiles]
          /\ NoFault
       \/ Abort(c) /\ Fault /\ UNCHANGED <<local, remote>>
    /\ UNCHANGED <<tool, run, processVars, disk, style, recent>>

(* The wrapper is written; after an exception main() has no exit status.      *)
Finish(c, wrapper, exit) ==
    /\ Set(c, [camp[c] EXCEPT !.wrapper = wrapper,
                              !.exit = IF camp[c].raised THEN "crash" ELSE exit])
    /\ Quiet
=============================================================================
