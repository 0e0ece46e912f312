---------------------------- MODULE CloudCampaign ----------------------------
(* run_gridftp_vs_gridflux_cloud_matrix.py: GridFTP against GridFlux.  The    *)
(* options that skip a phase are not modelled.                                *)
EXTENDS CampaignCommon

CloudStart(c) ==
    /\ In(c, "cloud", "idle")
    /\ Go(c, "environment") /\ Quiet

(* ensure_packages, collect_environment: nothing is checked.                  *)
CloudEnvironment(c) == In(c, "cloud", "environment") /\ Plain(c, "baseline")

(* run_iperf_baseline; a failing row stays in the baseline CSV.               *)
CloudIperf(c) ==
    In(c, "cloud", "baseline") /\ StartHere(c, "iperf3", "iperf", "storage", FALSE)
CloudMeasure(c) ==
    In(c, "cloud", "iperf") /\ StopsHere(c, "iperf3", "peer_start", FALSE)
CloudPeer(c) == In(c, "cloud", "peer_start") /\ StartPeer(c, "peer")
CloudMeasurePeer(c) == In(c, "cloud", "peer") /\ StopsPeer(c, "storage", FALSE)

(* run_storage_baseline, run_checksum_bench, prepare_native_inputs.           *)
CloudStorage(c) == In(c, "cloud", "storage") /\ Plain(c, "checksum")
CloudChecksum(c) == In(c, "cloud", "checksum") /\ Plain(c, "inputs")
CloudInputs(c) == In(c, "cloud", "inputs") /\ Plain(c, "native")

-----------------------------------------------------------------------------
(* run_native_gridftp: without its tools a failing row and nothing else.      *)
CloudPreflight(c) ==
    /\ In(c, "cloud", "native")
    /\ \/ Go(c, "account") /\ NoFault
       \/ (Failing(c, "build") \/ Leave(c, camp[c])) /\ Fault
    /\ QuietButFaults

(* setup_gridftp_user, start_gridftp. *)
CloudAccount(c) == In(c, "cloud", "account") /\ SetupAccount(c, "gridftp")
CloudDaemon(c) == In(c, "cloud", "gridftp") /\ StartDaemon(c, "urlcopy", "build")

CloudNative(c) == In(c, "cloud", "urlcopy") /\ MeasureTransfers(c, camp[c], "build")

-----------------------------------------------------------------------------
(* run_gridflux *)

(* ensure_gridflux_build *)
CloudBuild(c) == In(c, "cloud", "build") /\ Plain(c, "gridflux")

(* gridflux_common_command, gridflux_step_specs: without TLS, and once with.  *)
CloudCommon(tls, repeat) == MatrixCommand(<<"stor", "retr">>, tls, repeat)
CloudSpecs == {CloudCommon("off", repeat) : repeat \in Repeats} \cup {CloudCommon("required", 1)}
CloudMatrix(c) == In(c, "cloud", "gridflux") /\ StartMatrix(c, CloudSpecs)

(* The path the matrix printed as "csv=", or the newest CSV in the directory. *)
CloudCsv(c) == IF disk[NestedRun[c]].printed THEN NestedRun[c] ELSE recent[c]
(* A matrix that failed is a failing row only if there is no CSV to read.     *)
CloudReturns(c) ==
    /\ In(c, "cloud", "nested") /\ MatrixEnded(c)
    /\ Takes(c, CloudCsv(c), MatrixFailed(c) /\ CloudCsv(c) = Absent, "cleanup")
    /\ Quiet

-----------------------------------------------------------------------------
(* cleanup.  stop_gridftp goes by the pid file.  What goes by name finds none *)
(* of the servers: "ps -o comm" shows 15 characters of a name, which is all   *)
(* of globus-url-copy (a client) and of none of them but iperf3, whose        *)
(* arguments do not hold the prefix that is looked for.                       *)
CloudStopByName(c) == In(c, "cloud", "cleanup") /\ StopsAll(c, {})
CloudStop(c) == In(c, "cloud", "cleanup") /\ StopsAll(c, {"globus-gridftp-server"})
CloudRemove(c) == In(c, "cloud", "remove") /\ Removes(c, remote)

(* summary_rows: the rows of each group that did not pass. *)
CloudFailures(rows) == FailCount(summarize_rows(rows))
(* write_wrapper; main() returns 0 whatever the wrapper says.                 *)
CloudWrapper(c) ==
    /\ In(c, "cloud", "wrapper")
    /\ Finish(c, IF camp[c].bad \/ CloudFailures(camp[c].rows) > 0 THEN "fail" ELSE "pass", "ok")

CloudStep(c) ==
    \/ CloudEnvironment(c) \/ CloudIperf(c) \/ CloudMeasure(c) \/ CloudPeer(c)
    \/ CloudMeasurePeer(c) \/ CloudStorage(c) \/ CloudChecksum(c) \/ CloudInputs(c)
    \/ CloudPreflight(c) \/ CloudAccount(c) \/ CloudDaemon(c) \/ CloudNative(c)
    \/ CloudBuild(c) \/ CloudMatrix(c) \/ CloudReturns(c)
    \/ CloudStop(c) \/ CloudRemove(c) \/ CloudWrapper(c)
=============================================================================
