---------------------------- MODULE PerfCampaign ----------------------------
(***************************************************************************)
(* The campaigns, their nested matrices and matrix runs started by hand,   *)
(* side by side on the same two machines.                                  *)
(***************************************************************************)
EXTENDS CloudCampaign, ThreeWayCampaign, DiskProof

CONSTANT Beside  \* bound: the styles of campaign beside which a run is started by hand

ASSUME SpecsAssumption == CloudSpecs \cup ThreeWayCommands \cup DiskSpecs \subseteq CommandLines

vars == <<matrixVars, campaignVars>>

Init ==
    /\ MatrixInit
    /\ \A c \in Campaigns : tool[NestedRun[c]] = "matrix"
    /\ style \in [Campaigns -> {"cloud", "three", "disk"}]
    /\ camp = [c \in Campaigns |-> EmptyCampaign]
    /\ recent = [c \in Campaigns |-> Absent]

(* A CSV of a private matrix becomes the newest one when it is written.       *)
Touches(r) == recent' = [c \in Campaigns |->
                  IF tool[r] = "matrix" /\ camp[c].pc = "nested" THEN r ELSE recent[c]]

MatrixStep(r) ==
    /\ RunStep(r)
    /\ IF run[r].pc \in {"csv", "csv_write"} THEN Touches(r) ELSE UNCHANGED recent
    /\ UNCHANGED <<style, camp>>

(* Bound: a run by hand starts before the campaigns start their matrices, if  *)
(* nothing has failed so far.  Its start touches nothing the others look at   *)
(* and it may stay at its first step for as long as it likes, so every order  *)
(* of its steps and those of a matrix is reached; what a campaign does before *)
(* its matrix shares nothing with it.                                         *)
StartByHand(r) ==
    /\ faults = 0 /\ \A c \in Campaigns : style[c] \in Beside /\ camp[c].pc = "gridflux"
    /\ Start(r)

CampaignStart(c) == CloudStart(c) \/ ThreeWayStart(c) \/ DiskStart(c)
CampaignStep(c) == CloudStep(c) \/ ThreeWayStep(c) \/ DiskStep(c) \/ MatrixTimeout(c)

Next ==
    \/ \E r \in Runs : MatrixStep(r)
    \/ \E r \in Runs : (StartByHand(r) \/ Kill(r)) /\ UNCHANGED campaignVars
    \/ \E r \in Runs : (ServerBinds(r) \/ ServerFails(r) \/ ClientEnds(r))
                          /\ UNCHANGED campaignVars
    \/ \E o \in orphans : OrphanEnds(o) /\ UNCHANGED campaignVars
    \/ \E c \in Campaigns : CampaignStart(c) \/ CampaignStep(c)

Spec == Init /\ [][Next]_vars

-----------------------------------------------------------------------------
(* Properties                                                                 *)

(* A row says "pass" only if a client of that very case ended well, and, for  *)
(* a resume case of the private matrix, after a first client that was cut     *)
(* short: not because of a file an earlier run, another run or an orphan has  *)
(* left under the same name (run_case, run_stor_resume, run_retr_resume).     *)
PassMeansDelivered ==
    \A r \in Runs : run[r].result = "pass" =>
        /\ run[r].delivered
        /\ tool[r] = "matrix" /\ run[r].next <= Len(run[r].plan) /\ IsResume(CaseOf(r)) => run[r].cut

(* A matrix that exits with 0 has a passing row for every case, in order, in  *)
(* its CSV, a summary that counts them all, and neither a server nor a client *)
(* of its own is left (main of both matrices).                                *)
ExitZeroMeansAll ==
    \A r \in Runs : run[r].exit = "ok" =>
        /\ Len(disk[r].csv) = Len(run[r].plan)
        /\ \A i \in DOMAIN run[r].plan : /\ disk[r].csv[i].case = run[r].plan[i]
                                         /\ disk[r].csv[i].result = "pass"
        /\ RowCount(disk[r].summary) = Len(run[r].plan) /\ FailCount(disk[r].summary) = 0
        /\ \A p \in DOMAIN port : port[p] # r
        /\ \A o \in orphans : o.run # r

(* A server listens only while its case is under way, unless its run was      *)
(* killed or the server has outlived SIGKILL: whatever goes wrong in a case,  *)
(* the next one finds the machine without it (the finally of run_case).       *)
InCase(r) == server[r] = "up" /\ (run[r].exit = "killed"
                                    \/ run[r].pc \notin {"clean", "csv", "csv_write", "summary",
                                                         "case", "leftover", "teardown"})
NoServerForgotten ==
    \A p \in DOMAIN port : port[p] # Absent =>
        (InCase(port[p]) /\ p = PortOf(port[p])) \/ p \in frozen

(* A disk proof that exits with 0 has read the CSV of its own matrix, and     *)
(* that matrix exited with 0: another run's file, a matrix that died or was   *)
(* killed, or one that lost a row never looks like a success.                 *)
DiskProofIsBacked ==
    \A c \in Campaigns : style[c] = "disk" /\ camp[c].exit = "ok" =>
        /\ camp[c].source = NestedRun[c]
        /\ run[NestedRun[c]].exit = "ok"

(* Once the wrapper is written no server the campaign started on this machine *)
(* runs any more and no account it knows of is left, whichever phase raised   *)
(* (cleanup).  The iperf3 server on the other machine may stay: its kill is   *)
(* not checked, and the clean-up does not find it.                            *)
CleanedUp ==
    \A c \in Campaigns : camp[c].wrapper # "none" =>
        camp[c].helpers \subseteq {"iperf3-peer"} /\ ~(camp[c].account /\ camp[c].created)

(* A run or a campaign that has not ended can always go on, or waits for a    *)
(* server, a client or a matrix that can: a frozen server, a client that      *)
(* hangs, a port that belongs to somebody else and a matrix that was killed   *)
(* stop nobody (the timeouts of connect_control, run_remote, subprocess.run). *)
(* A step never goes back to an earlier phase, case or attempt, so this is    *)
(* what termination rests on.                                                 *)
RunGoesOn(r) ==
    \/ server[r] = "starting"
    \/ ENABLED RunStep(r)
    \/ ENABLED ClientEnds(r)
NobodyStuck ==
    /\ \A r \in Runs : run[r].pc # "idle" /\ run[r].exit = "none" => RunGoesOn(r)
    /\ \A c \in Campaigns : camp[c].pc # "idle" /\ camp[c].exit = "none" =>
         \/ camp[c].pc = "nested" /\ run[NestedRun[c]].exit = "none"
         \/ ENABLED CampaignStep(c)
=============================================================================
