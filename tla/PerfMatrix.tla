----------------------------- MODULE PerfMatrix -----------------------------
(***************************************************************************)
(* run_gridftp_private_matrix.py and run_gridftp_tree_private_matrix.py:   *)
(* a run takes its cases one after the other.  For each it starts a        *)
(* control server on this machine, creates a source, has a client on the   *)
(* other machine transfer it, compares hashes, stops the server, cleans up *)
(* and rewrites its CSV files.  Server and client are processes of their   *)
(* own: they outlive an exception, a timeout and a killed run, and two     *)
(* runs share ports and, in the private matrix, remote file names.         *)
(***************************************************************************)
EXTENDS PerfCases

CONSTANTS Runs,        \* runs of a matrix tool
          Operator,    \* the runs started by hand
          Killable,    \* bound: the runs that may be killed
          Base,        \* [Runs -> --control-port-base]
          DataBase,    \* [Runs -> --data-port-base]
          CommandLines,  \* the options runs are started with
          ArgsOf,      \* [Operator -> those a run of each tool may be started with]
          MaxChunks,   \* --max-chunks of a partial transfer (--max-files 1 of a tree)
          MaxFaults,   \* bound on failures, timeouts and kills
          Absent

ASSUME MatrixAssumption ==
    /\ Operator \subseteq Runs /\ Killable \subseteq Runs
    /\ Base \in [Runs -> 0..PortLimit] /\ DataBase \in [Runs -> Nat]
    /\ ArgsOf \in [Operator -> [{"matrix", "tree"} -> SUBSET CommandLines]]
    /\ MaxChunks \in Nat \ {0} /\ MaxFaults \in Nat
    /\ Absent \notin Runs
ASSUME OptionsAssumption == CommandLines \subseteq Options

VARIABLES tool,     \* [Runs -> {"matrix", "tree"}]
          run,      \* [Runs -> what a run knows]
          server,   \* [Runs -> state of the control server a run has started]
          port,     \* [0..PortLimit -> the run whose server listens there, or Absent]
          frozen,   \* ports whose server answers nothing any more
          client,   \* [Runs -> state of the remote client a run waits for]
          orphans,  \* remote clients nobody waits for
          local,    \* [Runs -> files of the case in the server root of a run]
          remote,   \* [Names -> files of a case on the other machine]
          disk,     \* [Runs -> what a run leaves in its output directory]
          faults

matrixVars == <<tool, run, server, port, frozen, client, orphans, local, remote, disk, faults>>

NoFiles == [source |-> FALSE, output |-> "absent"]
EmptyRun == [pc |-> "idle", plan |-> <<>>, next |-> 1, attempt |-> "once", served |-> Absent,
             reply |-> "none", result |-> "fail", metrics |-> FALSE, delivered |-> FALSE,
             cut |-> FALSE, aborted |-> FALSE, rows |-> <<>>, exit |-> "none"]
EmptyDisk == [csv |-> <<>>, summary |-> {}, printed |-> FALSE, root |-> FALSE]

CaseOf(r) == run[r].plan[run[r].next]
PortOf(r) == control_port(Base[r], CaseOf(r))
(* A tree case is named after its run, a matrix case after its options only.  *)
NameOf(r) == IF tool[r] = "tree" THEN <<r, CaseOf(r)>> ELSE <<Absent, CaseOf(r)>>

At(r, step) == run[r].pc = step /\ run[r].exit = "none"
Goto(r, step) == run' = [run EXCEPT ![r].pc = step]
(* An exception inside the try of run_case.                                   *)
Raise(r) == run' = [run EXCEPT ![r].pc = "handler"]
Fault == faults < MaxFaults /\ faults' = faults + 1
NoFault == UNCHANGED faults

(* A port that does not exist is one where nobody listens.                    *)
Listening(r) == IF PortOf(r) \in DOMAIN port THEN port[PortOf(r)] ELSE Absent
Answers(r, o) == o # Absent /\ Listening(r) = o /\ PortOf(r) \notin frozen

(* The server root of run o holds the files of run r's case under the names   *)
(* that run r asks for: a tree is always "dataset".                           *)
SameNames(r, o) == tool[r] = tool[o] /\ (tool[r] = "tree" \/ CaseOf(r) = CaseOf(o))

(* Remote files of a case come into being with the case.                      *)
Files(n) == IF n \in DOMAIN remote THEN remote[n] ELSE NoFiles
SetRemote(n, f) == [x \in DOMAIN remote \cup {n} |-> IF x = n THEN f ELSE remote[x]]

processVars == <<server, port, frozen, client, orphans>>

-----------------------------------------------------------------------------
(* main(): the cases, the ports, the binaries, certificates, environment      *)

Plans == [args \in CommandLines |->
            [matrix |-> generate_cases(args), tree |-> build_cases(args)]]
PlanOf(r, args) == Plans[args][tool[r]]

(* Ports are only checked by the private matrix; whatever goes wrong before   *)
(* the first case ends the run with a traceback.                              *)
Startup(r, args) ==
    LET plan == PlanOf(r, args) IN
    \/ /\ tool[r] = "matrix" => validate_ports(Base[r], DataBase[r], plan)
       /\ run' = [run EXCEPT ![r].plan = plan, ![r].pc = "case"]
       /\ disk' = [disk EXCEPT ![r].root = (tool[r] = "matrix")]
       /\ NoFault
    \/ /\ \/ tool[r] = "matrix" /\ ~validate_ports(Base[r], DataBase[r], plan) /\ NoFault
          \/ Fault
       /\ run' = [run EXCEPT ![r].exit = "crash"]
       /\ UNCHANGED disk

Start(r) ==
    /\ r \in Operator /\ At(r, "idle")
    /\ \E args \in ArgsOf[r][tool[r]] : Startup(r, args)
    /\ UNCHANGED <<tool, processVars, local, remote>>

-----------------------------------------------------------------------------
(* run_case: preparation                                                      *)

(* A new row: it fails until the hashes were compared.  In a tree row no      *)
(* option is replaced by what the logs say.                                   *)
Begun(r) ==
    [run[r] EXCEPT !.attempt = IF IsResume(CaseOf(r)) THEN "partial" ELSE "once",
                   !.served = Absent, !.reply = "none", !.result = "fail",
                   !.metrics = (tool[r] = "tree"), !.delivered = FALSE, !.cut = FALSE]

(* cleanup_remote_paths, then start_control_server.  The remote rm is not     *)
(* checked: it may fail and leave old files; a timeout raises.                *)
BeginCase(r) ==
    /\ At(r, "case") /\ run[r].next <= Len(run[r].plan)
    /\ \/ /\ run' = [run EXCEPT ![r] = [Begun(r) EXCEPT !.pc = "source"]]
          /\ server' = [server EXCEPT ![r] = "starting"]
          /\ \/ remote' = SetRemote(NameOf(r), NoFiles) /\ NoFault
             \/ Files(NameOf(r)) # NoFiles /\ UNCHANGED remote /\ Fault
          /\ local' = [local EXCEPT ![r] = NoFiles]
       \/ /\ run' = [run EXCEPT ![r] = [Begun(r) EXCEPT !.pc = "handler"]]
          /\ Fault
          /\ UNCHANGED <<server, local, remote>>
    /\ UNCHANGED <<tool, port, frozen, client, orphans, disk>>

(* make_remote_file or make_local_file, the hash of the source, the sidecars. *)
MakeSource(r) ==
    /\ At(r, "source")
    /\ \/ /\ IF IsUpload(CaseOf(r))
             THEN /\ remote' = SetRemote(NameOf(r), [Files(NameOf(r)) EXCEPT !.source = TRUE])
                  /\ UNCHANGED local
             ELSE /\ local' = [local EXCEPT ![r].source = TRUE]
                  /\ UNCHANGED remote
          /\ Goto(r, IF tool[r] = "tree" THEN "client" ELSE "connect")
          /\ NoFault
       \/ Raise(r) /\ Fault /\ UNCHANGED <<local, remote>>
    /\ UNCHANGED <<tool, processVars, disk>>

-----------------------------------------------------------------------------
(* The control server: external, as far as the runs depend on it              *)

(* A server that finds its port taken, or is given none, exits.               *)
ServerBinds(r) ==
    /\ server[r] = "starting"
    /\ IF Listening(r) = Absent /\ PortOf(r) \in DOMAIN port
       THEN /\ port' = [port EXCEPT ![PortOf(r)] = r]
            /\ server' = [server EXCEPT ![r] = "up"]
       ELSE /\ server' = [server EXCEPT ![r] = "dead"]
            /\ UNCHANGED port
    /\ UNCHANGED <<tool, run, frozen, client, orphans, local, remote, disk, faults>>

ServerFails(r) ==
    /\ server[r] = "up" /\ Listening(r) = r /\ PortOf(r) \notin frozen /\ Fault
    /\ \/ /\ server' = [server EXCEPT ![r] = "dead"]
          /\ port' = [port EXCEPT ![PortOf(r)] = Absent]
          /\ UNCHANGED frozen
       \/ frozen' = frozen \cup {PortOf(r)} /\ UNCHANGED <<server, port>>
    /\ UNCHANGED <<tool, run, client, orphans, local, remote, disk>>

-----------------------------------------------------------------------------
(* The control connection of the private matrix                               *)

(* connect_control and login_control: retried for 15 seconds, so a server     *)
(* that is coming up is waited for.  Whoever listens on the port answers.     *)
Connect(r) ==
    /\ At(r, "connect")
    /\ \/ /\ Answers(r, Listening(r))
          /\ run' = [run EXCEPT ![r].served = Listening(r), ![r].pc = "request"]
          /\ NoFault
       \/ /\ \/ Listening(r) = Absent /\ server[r] # "starting" /\ NoFault
             \/ PortOf(r) \in frozen /\ NoFault
             \/ Fault
          /\ Raise(r)
    /\ UNCHANGED <<tool, processVars, local, remote, disk>>

(* REST for a resume, EPSV, and STOR or RETR up to the 150.  The server looks *)
(* in its own root: RETR needs the source there, STOR may find a file.        *)
HasSource(r, o) == IF IsUpload(CaseOf(r)) THEN Files(NameOf(r)).source
                                          ELSE SameNames(r, o) /\ local[o].source
Grantable(r) ==
    /\ Answers(r, run[r].served)
    /\ IsUpload(CaseOf(r)) \/ HasSource(r, run[r].served)
Request(r) ==
    /\ At(r, "request")
    /\ \/ Grantable(r) /\ Goto(r, "client") /\ NoFault
       \/ /\ \/ ~Grantable(r) /\ NoFault
             \/ /\ Grantable(r) /\ IsUpload(CaseOf(r)) /\ SameNames(r, run[r].served)
                /\ local[run[r].served].output = "good" /\ NoFault
             \/ Fault
          /\ Raise(r)
    /\ UNCHANGED <<tool, processVars, local, remote, disk>>

-----------------------------------------------------------------------------
(* The remote client                                                          *)

(* run_upload_client, run_download_client, run_tree_command: ssh starts it.   *)
StartClient(r) ==
    /\ At(r, "client")
    /\ run' = [run EXCEPT ![r].pc = "await",
                          ![r].served = IF tool[r] = "tree" THEN Listening(r) ELSE @]
    /\ client' = [client EXCEPT ![r] = "running"]
    /\ UNCHANGED <<tool, server, port, frozen, orphans, local, remote, disk, faults>>

(* Where a transfer of run r served by run o ends up.                         *)
Deliver(r, o, content) ==
    IF IsUpload(CaseOf(r))
    THEN /\ local' = IF SameNames(r, o) THEN [local EXCEPT ![o].output = content] ELSE local
         /\ UNCHANGED remote
    ELSE /\ remote' = SetRemote(NameOf(r), [Files(NameOf(r)) EXCEPT !.output = content])
         /\ UNCHANGED local

IsCut(r) == run[r].attempt = "partial" /\ CaseOf(r).chunks > MaxChunks
Outcome(r, state, reply) ==
    /\ client' = [client EXCEPT ![r] = state]
    /\ run' = [run EXCEPT ![r].reply = reply,
                          ![r].cut = @ \/ (state = "failed" /\ run[r].attempt = "partial"),
                          ![r].delivered = @ \/ (state = "ok" /\ run[r].attempt # "partial")]

(* The client ends by itself (external): whole, cut short by --max-chunks,    *)
(* failed, with the last answer lost, or with a damaged file.  A client of a  *)
(* frozen server does not end.                                                *)
ClientEnds(r) ==
    LET o == run[r].served
        serves == Answers(r, o) /\ HasSource(r, o)
    IN /\ client[r] = "running"
       /\ o = Listening(r) /\ o # Absent => PortOf(r) \notin frozen
       /\ \/ serves /\ IsCut(r) /\ Deliver(r, o, "partial") /\ Outcome(r, "failed", "550") /\ NoFault
          \/ serves /\ ~IsCut(r) /\ Deliver(r, o, "good") /\ Outcome(r, "ok", "226") /\ NoFault
          \/ ~serves /\ UNCHANGED <<local, remote>> /\ Outcome(r, "failed", "550") /\ NoFault
          \/ serves /\ ~IsCut(r) /\ Fault
               /\ \/ Deliver(r, o, "partial") /\ Outcome(r, "failed", "550")
                  \/ Deliver(r, o, "good") /\ Outcome(r, "failed", "226")
                  \/ Deliver(r, o, "bad") /\ Outcome(r, "ok", "226")
       /\ UNCHANGED <<tool, server, port, frozen, orphans, disk>>

ReturnsUnchecked(r) ==
    /\ At(r, "await") /\ client[r] \in {"ok", "failed"}
    /\ Goto(r, IF tool[r] = "tree" THEN "hash" ELSE "reply")
    /\ client' = [client EXCEPT ![r] = "none"]
    /\ UNCHANGED <<tool, server, port, frozen, orphans, local, remote, disk, faults>>

(* The status of the client is looked at before the last reply.  A tree run   *)
(* does not look at the status of the partial transfer.                       *)
ClientReturns(r) ==
    /\ At(r, "await") /\ client[r] \in {"ok", "failed"}
    /\ LET partial == run[r].attempt = "partial"
           expected == (client[r] = "ok") # partial
       IN run' = [run EXCEPT
             ![r].pc = CASE tool[r] = "tree" /\ partial -> "client"
                         [] tool[r] = "tree" /\ ~partial /\ expected -> "hash"
                         [] tool[r] = "matrix" /\ expected -> "reply"
                         [] OTHER -> "handler",
             ![r].attempt = IF tool[r] = "tree" /\ partial THEN "resume" ELSE @]
    /\ client' = [client EXCEPT ![r] = "none"]
    /\ UNCHANGED <<tool, server, port, frozen, orphans, local, remote, disk, faults>>

(* --case-timeout: only the local ssh is killed, the client goes on.          *)
Orphan(r) == [run |-> r, port |-> PortOf(r), served |-> run[r].served, case |-> CaseOf(r),
              upload |-> IsUpload(CaseOf(r)), name |-> NameOf(r)]
PatientTimeout(r) ==
    /\ At(r, "await") /\ client[r] = "running" /\ Fault
    /\ Raise(r)
    /\ client' = [client EXCEPT ![r] = "none"]
    /\ orphans' = orphans \cup {Orphan(r)}
    /\ UNCHANGED <<tool, server, port, frozen, local, remote, disk>>
ClientTimeout(r) ==
    /\ At(r, "await") /\ client[r] = "running"
    /\ \/ PortOf(r) \in frozen /\ NoFault
       \/ Fault
    /\ Raise(r)
    /\ client' = [client EXCEPT ![r] = "none"]
    /\ orphans' = orphans \cup {Orphan(r)}
    /\ UNCHANGED <<tool, server, port, frozen, local, remote, disk>>

(* An orphan delivers late, as long as its server is there, or gives up when  *)
(* the server has gone.                                                       *)
OrphanEnds(o) ==
    LET serving == o.served # Absent /\ port[o.port] = o.served
    IN /\ o \in orphans /\ orphans' = orphans \ {o}
       /\ serving => o.port \notin frozen
       /\ IF ~serving THEN UNCHANGED <<local, remote>>
          ELSE IF o.upload
          THEN /\ local' = IF tool[o.run] = tool[o.served] /\ o.case = CaseOf(o.served)
                           THEN [local EXCEPT ![o.served].output = "good"] ELSE local
               /\ UNCHANGED remote
          ELSE remote' = SetRemote(o.name, [Files(o.name) EXCEPT !.output = "good"])
                 /\ UNCHANGED local
       /\ UNCHANGED <<tool, run, server, port, frozen, client, disk, faults>>

(* The last reply of the control connection, read with a timeout of three     *)
(* seconds, and QUIT.  A partial transfer must have been answered 550; then   *)
(* the run logs in again.                                                     *)
FinalReply(r) ==
    /\ At(r, "reply")
    /\ LET partial == run[r].attempt = "partial"
           expected == run[r].reply = (IF partial THEN "550" ELSE "226")
       IN \/ /\ Answers(r, run[r].served) /\ expected
             /\ run' = [run EXCEPT ![r].pc = IF partial THEN "connect" ELSE "hash",
                                   ![r].attempt = IF partial THEN "resume" ELSE @]
             /\ NoFault
          \/ /\ \/ ~(Answers(r, run[r].served) /\ expected) /\ NoFault
                \/ Fault
             /\ Raise(r)
    /\ UNCHANGED <<tool, processVars, local, remote, disk>>

-----------------------------------------------------------------------------
(* run_case: verdict, except and finally                                      *)

Destination(r) == IF IsUpload(CaseOf(r)) THEN local[r].output ELSE Files(NameOf(r)).output

(* The effective options and the metrics from the logs of both sides.         *)
fill_metrics(r) == [run[r] EXCEPT !.metrics = TRUE]

(* The hash of the destination, sidecars, event log, metrics.  Different      *)
(* hashes raise in the private matrix, as does a file that is not there; a    *)
(* tree that is not there has the hash of an empty one, and its row fails     *)
(* without an exception (tree_hash_local, tree_hash_remote).                  *)
HashDest(r) ==
    /\ At(r, "hash")
    /\ \/ /\ Destination(r) = "good" /\ NoFault
          /\ run' = [run EXCEPT ![r] = [fill_metrics(r) EXCEPT !.result = "pass", !.pc = "finally"]]
       \/ /\ Destination(r) # "good" /\ NoFault
          /\ \/ /\ tool[r] = "tree"
                /\ run' = [run EXCEPT ![r] = [fill_metrics(r) EXCEPT !.pc = "finally"]]
             \/ /\ tool[r] = "matrix" /\ Destination(r) # "absent"
                /\ run' = [run EXCEPT ![r] = [fill_metrics(r) EXCEPT !.pc = "handler"]]
             \/ tool[r] = "matrix" /\ Destination(r) = "absent" /\ Raise(r)
       \/ Fault /\ Raise(r)
    /\ UNCHANGED <<tool, processVars, local, remote, disk>>

(* The handler fetches the client's events; a timeout there leaves run_case.  *)
Handle(r) ==
    /\ At(r, "handler")
    /\ \/ run' = [run EXCEPT ![r].pc = "finally", ![r].result = "fail"] /\ NoFault
       \/ /\ run' = [run EXCEPT ![r].pc = "finally", ![r].result = "fail", ![r].aborted = TRUE]
          /\ Fault
    /\ UNCHANGED <<tool, processVars, local, remote, disk>>

Stopped(r) ==
    /\ server' = [server EXCEPT ![r] = "none"]
    /\ port' = [p \in DOMAIN port |-> IF p = PortOf(r) /\ port[p] = r THEN Absent ELSE port[p]]
    /\ frozen' = IF Listening(r) = r THEN frozen \ {PortOf(r)} ELSE frozen

StopUnlessAborted(r) ==
    /\ At(r, "finally")
    /\ IF run[r].aborted THEN UNCHANGED <<server, port, frozen>> ELSE Stopped(r)
    /\ Goto(r, "clean")
    /\ UNCHANGED <<tool, client, orphans, local, remote, disk, faults>>

(* stop_process, stop_server: SIGTERM, five seconds, SIGKILL, five seconds.   *)
(* A server that outlives that raises: the private matrix gives up, the tree  *)
(* matrix marks the row, as it does for a server that had died by itself.     *)
StopServer(r) ==
    /\ At(r, "finally")
    /\ \/ /\ Stopped(r) /\ NoFault
          /\ run' = [run EXCEPT ![r].pc = "clean",
                       ![r].result = IF tool[r] = "tree" /\ server[r] = "dead" THEN "fail" ELSE @]
       \/ /\ Listening(r) = r /\ server[r] = "up" /\ PortOf(r) \in frozen /\ NoFault
          /\ run' = IF tool[r] = "tree"
                    THEN [run EXCEPT ![r].pc = "clean", ![r].result = "fail"]
                    ELSE [run EXCEPT ![r].pc = "teardown", ![r].aborted = TRUE]
          /\ server' = [server EXCEPT ![r] = "none"]
          /\ UNCHANGED <<port, frozen>>
    /\ UNCHANGED <<tool, client, orphans, local, remote, disk>>

(* A row that passed has its files removed, those of a tree always are; the   *)
(* timeout of the remote rm leaves run_case and loses the row.                *)
Clean(r) ==
    /\ At(r, "clean")
    /\ LET cleans == tool[r] = "tree" \/ run[r].result = "pass"
           after == IF run[r].aborted THEN "teardown" ELSE "csv"
       IN \/ /\ cleans /\ NoFault
             /\ remote' = SetRemote(NameOf(r), NoFiles)
             /\ local' = IF tool[r] = "tree" THEN local ELSE [local EXCEPT ![r] = NoFiles]
             /\ Goto(r, after)
          \/ /\ cleans /\ Fault
             /\ run' = [run EXCEPT ![r].pc = "teardown", ![r].aborted = TRUE]
             /\ UNCHANGED <<local, remote>>
          \/ ~cleans /\ NoFault /\ Goto(r, after) /\ UNCHANGED <<local, remote>>
    /\ UNCHANGED <<tool, processVars, disk>>

-----------------------------------------------------------------------------
(* main(): rows, leftover processes, exit                                     *)

(* run_case returns; rows.append(row), and the CSV is opened for writing,     *)
(* which empties it.                                                          *)
OpenCsv(r) ==
    /\ At(r, "csv")
    /\ run' = [run EXCEPT ![r] =
          [EmptyRun EXCEPT !.pc = "csv_write", !.plan = run[r].plan, !.next = run[r].next,
                           !.rows = Append(run[r].rows, [case |-> CaseOf(r),
                                       result |-> run[r].result, metrics |-> run[r].metrics])]]
    /\ disk' = [disk EXCEPT ![r].csv = <<>>]
    /\ UNCHANGED <<tool, processVars, local, remote, faults>>

WriteCsv(r) ==
    /\ At(r, "csv_write")
    /\ disk' = [disk EXCEPT ![r].csv = run[r].rows]
    /\ Goto(r, "summary")
    /\ UNCHANGED <<tool, processVars, local, remote, faults>>

WriteSummary(r) ==
    /\ At(r, "summary")
    /\ disk' = [disk EXCEPT ![r].summary = summarize_rows(run[r].rows)]
    /\ run' = [run EXCEPT ![r].pc = "case", ![r].next = @ + 1]
    /\ UNCHANGED <<tool, processVars, local, remote, faults>>

(* process_check: pgrep sees servers and file clients of every run; it does   *)
(* not know the tree clients, and an ssh that fails looks like a clean host.  *)
LocalLeft == \E p \in DOMAIN port : port[p] # Absent
RemoteLeft == \/ \E q \in Runs : client[q] = "running" /\ tool[q] = "matrix"
              \/ \E o \in orphans : tool[o.run] = "matrix"
ProcessCheck(r) ==
    /\ At(r, "case") /\ run[r].next > Len(run[r].plan)
    /\ \E seen \in BOOLEAN :
         /\ IF seen \/ ~RemoteLeft THEN NoFault ELSE Fault
         /\ LET left == LocalLeft \/ (seen /\ RemoteLeft)
            IN /\ Goto(r, IF left THEN "leftover" ELSE "teardown")
               /\ disk' = [disk EXCEPT ![r].printed = ~left]
    /\ UNCHANGED <<tool, processVars, local, remote>>

AllPass(r) == \A i \in DOMAIN run[r].rows : run[r].rows[i].result = "pass"
NeedsTls(r) == \E i \in DOMAIN run[r].plan : run[r].plan[i].tls = "required"

TeardownByRows(r) ==
    /\ At(r, "teardown") \/ At(r, "leftover")
    /\ run' = [run EXCEPT ![r].exit = IF AllPass(r) THEN "ok" ELSE "fail"]
    /\ UNCHANGED <<tool, processVars, local, remote, disk, faults>>

(* The finally of main(): the certificate on the other machine, the run root  *)
(* (kept only when the run got as far as counting failures).                  *)
Teardown(r) ==
    /\ At(r, "teardown") \/ At(r, "leftover")
    /\ \/ /\ NoFault
          /\ run' = [run EXCEPT ![r].exit = CASE run[r].aborted -> "crash"
                                              [] run[r].pc = "leftover" -> "fail"
                                              [] OTHER -> IF AllPass(r) THEN "ok" ELSE "fail"]
          /\ disk' = [disk EXCEPT ![r].root = @ /\ disk[r].printed /\ ~AllPass(r)]
       \/ NeedsTls(r) /\ Fault /\ run' = [run EXCEPT ![r].exit = "crash"] /\ UNCHANGED disk
    /\ UNCHANGED <<tool, processVars, local, remote>>

(* SIGKILL: no finally.  The server has a session of its own and stays, the   *)
(* client stays, the files stay.                                              *)
Killed(r) ==
    /\ run' = [run EXCEPT ![r].exit = "killed"]
    /\ client' = [client EXCEPT ![r] = "none"]
    /\ orphans' = IF client[r] = "running" THEN orphans \cup {Orphan(r)} ELSE orphans
Kill(r) ==
    /\ r \in Killable /\ run[r].pc # "idle" /\ run[r].exit = "none" /\ Fault
    /\ Killed(r)
    /\ UNCHANGED <<tool, server, port, frozen, local, remote, disk>>

-----------------------------------------------------------------------------
MatrixInit ==
    /\ tool \in [Runs -> {"matrix", "tree"}]
    /\ run = [r \in Runs |-> EmptyRun]
    /\ server = [r \in Runs |-> "none"]
    /\ port = [p \in 0..PortLimit |-> Absent] /\ frozen = {}
    /\ client = [r \in Runs |-> "none"] /\ orphans = {}
    /\ local = [r \in Runs |-> NoFiles] /\ remote = <<>>
    /\ disk = [r \in Runs |-> EmptyDisk]
    /\ faults = 0

(* What a run does by itself once it was started.                             *)
RunStep(r) ==
    \/ BeginCase(r) \/ MakeSource(r) \/ Connect(r) \/ Request(r) \/ StartClient(r)
    \/ ClientReturns(r) \/ ClientTimeout(r) \/ FinalReply(r) \/ HashDest(r) \/ Handle(r)
    \/ StopServer(r) \/ Clean(r) \/ OpenCsv(r) \/ WriteCsv(r) \/ WriteSummary(r)
    \/ ProcessCheck(r) \/ Teardown(r)
=============================================================================
