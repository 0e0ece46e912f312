------------------------------ MODULE DiskProof ------------------------------
(* run_cloud_disk_bottleneck_proof.py: network, checksum, memory and storage  *)
(* measurements, then the matrix and a report.  The options that skip a phase *)
(* are not modelled.                                                          *)
EXTENDS CampaignCommon

DiskStart(c) ==
    /\ In(c, "disk", "idle")
    /\ Go(c, "environment") /\ Quiet

(* collect_environment *)
DiskEnvironment(c) == In(c, "disk", "environment") /\ Plain(c, "baseline")

(* run_network: every failing row counts, a missing iperf3 too.               *)
DiskIperf(c) == In(c, "disk", "baseline") /\ StartHere(c, "iperf3", "iperf", "checksum", TRUE)
DiskMeasure(c) == In(c, "disk", "iperf") /\ StopsHere(c, "iperf3", "peer_start", TRUE)
DiskPeer(c) == In(c, "disk", "peer_start") /\ StartPeer(c, "peer")
DiskMeasurePeer(c) == In(c, "disk", "peer") /\ StopsPeer(c, "checksum", TRUE)

(* run_checksum, run_storage_probe count; run_memory_or_sink does not.        *)
DiskChecksum(c) == In(c, "disk", "checksum") /\ Counted(c, "memory")
DiskMemory(c) == In(c, "disk", "memory") /\ Plain(c, "storage")
DiskStorage(c) == In(c, "disk", "storage") /\ Counted(c, "gridflux")

-----------------------------------------------------------------------------
(* gridflux_step_specs, matrix_common: one direction at a time.               *)
DiskSpecs == {MatrixCommand(<<direction>>, "off", repeat) :
                direction \in {"stor", "retr"}, repeat \in Repeats}
DiskMatrix(c) == In(c, "disk", "gridflux") /\ StartMatrix(c, DiskSpecs)

(* run_gridflux_matrix: the printed paths only; run_step: the exit status is  *)
(* a step of the proof.                                                       *)
DiskCsv(c) == IF disk[NestedRun[c]].printed THEN NestedRun[c] ELSE Absent
StepIgnored(c) == FALSE
StepFailed(c) == MatrixFailed(c)
DiskReturns(c) ==
    /\ In(c, "disk", "nested") /\ MatrixEnded(c)
    /\ Takes(c, DiskCsv(c), StepFailed(c), "analyzer")
    /\ Quiet

(* run_analyzer is a step; run_plotter is not.                                *)
DiskAnalyzer(c) == In(c, "disk", "analyzer") /\ Counted(c, "plotter")
DiskPlotter(c) == In(c, "disk", "plotter") /\ Plain(c, "cleanup")

-----------------------------------------------------------------------------
(* cleanup: nothing is found by name.  It also removes the remote files of    *)
(* every private matrix, whoever runs it.                                     *)
DiskStop(c) == In(c, "disk", "cleanup") /\ StopsAll(c, {})
DiskRemove(c) ==
    /\ In(c, "disk", "remove")
    /\ Removes(c, [n \in DOMAIN remote |-> IF n[1] = Absent THEN NoFiles ELSE remote[n]])

(* summary_fail_count over the summary of the matrix.                         *)
DiskFailures(c) == IF camp[c].source = Absent THEN 0
                   ELSE FailCount(disk[camp[c].source].summary)
(* write_wrapper, and the exit status by the wrapper's.                       *)
DiskWrapper(c) ==
    /\ In(c, "disk", "wrapper")
    /\ LET pass == ~camp[c].bad /\ DiskFailures(c) = 0
       IN Finish(c, IF pass THEN "pass" ELSE "fail", IF pass THEN "ok" ELSE "fail")

DiskStep(c) ==
    \/ DiskEnvironment(c) \/ DiskIperf(c) \/ DiskMeasure(c) \/ DiskPeer(c) \/ DiskMeasurePeer(c)
    \/ DiskChecksum(c) \/ DiskMemory(c) \/ DiskStorage(c)
    \/ DiskMatrix(c) \/ DiskReturns(c) \/ DiskAnalyzer(c) \/ DiskPlotter(c)
    \/ DiskStop(c) \/ DiskRemove(c) \/ DiskWrapper(c)
=============================================================================
