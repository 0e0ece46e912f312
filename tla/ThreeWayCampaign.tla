-------------------------- MODULE ThreeWayCampaign --------------------------
(* run_three_way_ftp_gridftp_gridflux.py: plain FTP, GridFTP and GridFlux.    *)
EXTENDS CampaignCommon

ThreeWayStart(c) ==
    /\ In(c, "three", "idle")
    /\ Go(c, "environment") /\ Quiet

(* ensure_packages, collect_environment *)
ThreeWayEnvironment(c) == In(c, "three", "environment") /\ Plain(c, "baseline")

(* run_host_baseline: one iperf3 server, here, and the storage measurements.  *)
ThreeWayIperf(c) ==
    In(c, "three", "baseline") /\ StartHere(c, "iperf3", "iperf", "storage", FALSE)
ThreeWayMeasure(c) == In(c, "three", "iperf") /\ StopsHere(c, "iperf3", "storage", FALSE)
ThreeWayStorage(c) == In(c, "three", "storage") /\ Plain(c, "inputs")

(* prepare_input_data *)
ThreeWayInputs(c) == In(c, "three", "inputs") /\ Plain(c, "plain")

-----------------------------------------------------------------------------
(* run_plain_ftp.  A vsftpd that is already there makes a failing row.        *)
(* start_vsftpd: when the port does not open the process is told to end, and  *)
(* that raises before run_plain_ftp knows the process.                        *)
ThreeWayVsftpd(c) ==
    /\ In(c, "three", "plain")
    /\ LET started == [camp[c] EXCEPT !.helpers = @ \cup {"vsftpd"}]
       IN \/ Set(c, [started EXCEPT !.pc = "ftp"]) /\ NoFault
          \/ /\ Fault
             /\ Failing(c, "native") \/ Leave(c, camp[c]) \/ Leave(c, started)
    /\ QuietButFaults

(* The transfers with lftp; stop_process in the finally.                      *)
ThreeWayFtp(c) ==
    /\ In(c, "three", "ftp")
    /\ MeasureTransfers(c, [camp[c] EXCEPT !.helpers = @ \ {"vsftpd"}], "native")

(* run_native_gridftp, setup_gridftp_user, start_gridftp *)
ThreeWayPreflight(c) ==
    /\ In(c, "three", "native")
    /\ \/ Go(c, "account") /\ NoFault
       \/ (Failing(c, "build") \/ Leave(c, camp[c])) /\ Fault
    /\ QuietButFaults
ThreeWayAccount(c) == In(c, "three", "account") /\ SetupAccount(c, "gridftp")
ThreeWayDaemon(c) == In(c, "three", "gridftp") /\ StartDaemon(c, "urlcopy", "build")
ThreeWayNative(c) == In(c, "three", "urlcopy") /\ MeasureTransfers(c, camp[c], "build")

-----------------------------------------------------------------------------
(* run_gridflux, ensure_gridflux_build *)
ThreeWayBuild(c) == In(c, "three", "build") /\ Plain(c, "gridflux")

ThreeWayCommands == {MatrixCommand(<<"stor", "retr">>, "off", repeat) : repeat \in Repeats}
ThreeWayMatrix(c) == In(c, "three", "gridflux") /\ StartMatrix(c, ThreeWayCommands)

(* The campaign looks for "raw_csv=", which the matrix does not print, so it  *)
(* always takes the newest CSV in the directory.  A matrix that failed is a   *)
(* failing row only if nothing could be read.                                 *)
ThreeWayReturns(c) ==
    /\ In(c, "three", "nested") /\ MatrixEnded(c)
    /\ Takes(c, recent[c], MatrixFailed(c) /\ RowsOf(recent[c]) = <<>>, "cleanup")
    /\ Quiet

-----------------------------------------------------------------------------
(* cleanup: stop_gridftp by its pid file, vsftpd and iperf3 by their names.   *)
ThreeWayStop(c) ==
    /\ In(c, "three", "cleanup")
    /\ StopsAll(c, {"globus-gridftp-server", "vsftpd", "iperf3"})
ThreeWayRemove(c) == In(c, "three", "remove") /\ Removes(c, remote)

(* write_wrapper: no status; main() returns 0.                                *)
ThreeWayWrapper(c) == In(c, "three", "wrapper") /\ Finish(c, "written", "ok")

ThreeWayStep(c) ==
    \/ ThreeWayEnvironment(c) \/ ThreeWayIperf(c) \/ ThreeWayMeasure(c) \/ ThreeWayStorage(c)
    \/ ThreeWayInputs(c) \/ ThreeWayVsftpd(c) \/ ThreeWayFtp(c)
    \/ ThreeWayPreflight(c) \/ ThreeWayAccount(c) \/ ThreeWayDaemon(c) \/ ThreeWayNative(c)
    \/ ThreeWayBuild(c) \/ ThreeWayMatrix(c) \/ ThreeWayReturns(c)
    \/ ThreeWayStop(c) \/ ThreeWayRemove(c) \/ ThreeWayWrapper(c)
=============================================================================
