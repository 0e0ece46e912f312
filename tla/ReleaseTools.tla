---------------------------- MODULE ReleaseTools ----------------------------
(***************************************************************************)
(* The release tools of tools/release/ as processes that share the local   *)
(* and the remote tree: the alpha gate (quick and full), the alpha         *)
(* candidate, which runs a full gate, the beta gate, which runs two alpha  *)
(* gates and the alpha candidate, the beta candidate and the freeze check. *)
(* A tool is a straight line of phases; it never stops at a failed step,   *)
(* it records it.  What varies is the outcome of the commands it runs,     *)
(* what other programs do to the tree meanwhile, and where a run is        *)
(* killed.                                                                 *)
(***************************************************************************)
EXTENDS ReleaseArtifacts, PublicExport, Sequences

CONSTANTS Mode,        \* [Procs -> {"quick", "full", "reuse"}]: a quick candidate is
                       \* --local-only, a beta candidate may get --gate-json
          Launch,      \* the run a phase of a run starts, as a function of <<run, phase>>
          Operator,    \* the runs started by hand
          After,       \* bound: the runs that are over, or that no tool
                       \* has started, before such a run starts
          Killable,    \* bound: the runs that may be killed
          MaxEvents    \* bound on failing commands, kills and foreign changes

ASSUME ToolsAssumption ==
    /\ Mode \in [Procs -> {"quick", "full", "reuse"}]
    /\ \A p \in Procs : Mode[p] = "reuse" => Kind[p] = "beta_rc"
    /\ Operator \subseteq Procs /\ Killable \subseteq Procs
    /\ After \in [Operator -> SUBSET Procs]
    /\ MaxEvents \in Nat

VARIABLES pc,      \* [Procs -> Nat]: position in the program, 0 before the start
          rc,      \* [Procs -> outcome of the process, "none" while it runs]
          lock,    \* [{"alpha", "beta"} -> holder or Absent]: the flock of a gate
          run,     \* [Procs -> what a process knows besides its report]
          report,  \* [Procs -> the report a process has in memory]
          latest,  \* [Kinds -> the last run of a tool that wrote its JSON]
          events,  \* failing commands, kills and foreign changes so far
          leaked   \* [Procs -> an export that passed holds what it must not]

treeVars == <<local, remote>>
procVars == <<pc, rc, lock, run, report>>
vars == <<local, remote, pc, rc, lock, run, report, latest, events, leaked>>

Summary == {"none", "pass", "fail"}
FailureKinds == {"step", "residual", "matrix", "smoke", "nested", "freshness", "sync", "verify",
                 "hygiene", "docs", "local_only"}
Reports == [failures : SUBSET FailureKinds, count : Nat, fresh : Summary, sync : Summary,
            verify : Summary, hygiene : Summary, passed : BOOLEAN]
Runs == [stepFailed : BOOLEAN, residual : BOOLEAN, matrix : Summary, smoke : BOOLEAN,
         nested : BOOLEAN, paths : SUBSET File, postSync : Summary, postVerify : Summary]
ASSUME AbsentAssumption == Absent \notin Reports   \* a report that is there is not absent

EmptyReport == [failures |-> {}, count |-> 0, fresh |-> "none", sync |-> "none",
                verify |-> "none", hygiene |-> "none", passed |-> FALSE]
EmptyRun == [stepFailed |-> FALSE, residual |-> FALSE, matrix |-> "none", smoke |-> TRUE,
             nested |-> FALSE, paths |-> {}, postSync |-> "none", postVerify |-> "none"]

-----------------------------------------------------------------------------
(* The programs: main() of each tool, in pieces                               *)

AlphaSetup == <<"lock", "commands">>
AlphaMatrix == <<"matrix">>
AlphaFirstReport == <<"blank_report">>
AlphaFirstSync == <<"preset_manifest", "sync", "verify">>
AlphaFirstVerdict == <<"conclude">>
AlphaRefresh == <<"manifest", "fresh", "json", "remanifest", "fresh">>
AlphaFinalSync == <<"sync", "verify">>
AlphaFinalVerdict == <<"final_conclude", "final_manifest", "fresh_gate">>
PostReport == <<"post_sync", "post_verify", "post_check">>

AlphaGateProgram(mode) ==
    IF mode = "quick"
    THEN AlphaSetup \o AlphaFirstReport \o AlphaFirstVerdict \o <<"exit">>
    ELSE AlphaSetup \o AlphaMatrix \o AlphaFirstReport \o AlphaFirstSync
           \o AlphaFirstVerdict \o AlphaRefresh \o AlphaFinalSync \o AlphaFinalVerdict
           \o PostReport \o <<"exit">>

RcCommands == <<"nested_gate", "commands">>
RcFirstRound == <<"blank_report", "manifest", "fresh">>
RcSync == <<"sync", "verify">>
RcFinal == <<"verdict", "preset_write", "preset_manifest", "fresh_gate">>

AlphaRcProgram(mode) ==
    IF mode = "quick" THEN RcCommands \o RcFirstRound \o RcFinal \o <<"exit">>
                      ELSE RcCommands \o RcFirstRound \o RcSync \o RcFinal
                             \o PostReport \o <<"exit">>

BetaSetup == <<"lock">>
BetaAlphaGates == <<"quick_gate", "full_gate", "alpha_rc">>
BetaCommands == <<"smoke", "commands">>
BetaFirstRound == <<"conclude", "manifest", "fresh", "conclude">>
BetaSync == <<"manifest", "fresh", "sync", "verify">>
BetaFinal == <<"conclude", "manifest", "fresh_gate">>
BetaPost == <<"post_sync", "post_verify", "post_conclude">>

BetaGateProgram == BetaSetup \o BetaAlphaGates \o BetaCommands \o BetaFirstRound
                     \o BetaSync \o BetaFinal \o BetaPost \o <<"exit">>

BetaRcGate == <<"beta_gate">>
BetaRcFirstRound == <<"conclude", "manifest", "fresh", "conclude">>
BetaRcSync == <<"manifest", "fresh", "sync", "verify">>
BetaRcFinal == <<"conclude", "manifest", "fresh">>
BetaRcPost == <<"post_sync", "post_verify", "post_conclude">>

BetaRcProgram == BetaRcGate \o BetaRcFirstRound \o BetaRcSync \o BetaRcFinal
                   \o BetaRcPost \o <<"exit">>

FreezeProgram == <<"freeze_check", "freeze_write", "exit">>

ProgramOf(kind, mode) ==
    CASE kind = "alpha_gate" -> AlphaGateProgram(mode)
      [] kind = "alpha_rc"   -> AlphaRcProgram(mode)
      [] kind = "beta_gate"  -> BetaGateProgram
      [] kind = "beta_rc"    -> BetaRcProgram
      [] kind = "freeze"     -> FreezeProgram
Program == [p \in Procs |-> ProgramOf(Kind[p], Mode[p])]

(* The phases that run another tool; each starts a run of its own.            *)
ChildPhases == {"nested_gate", "quick_gate", "full_gate", "alpha_rc", "beta_gate"}
ASSUME LaunchAssumption ==
    \A p \in Procs, phase \in ChildPhases :
        /\ <<p, phase>> \in DOMAIN Launch <=> \E n \in DOMAIN Program[p] : Program[p][n] = phase
        /\ <<p, phase>> \in DOMAIN Launch => Launch[<<p, phase>>] \in Procs

Running(p) == pc[p] > 0 /\ rc[p] = "none"
At(p, phase) == Running(p) /\ Program[p][pc[p]] = phase
Advance(p) == pc' = [pc EXCEPT ![p] = @ + 1]
Faulty(b) == IF b THEN events < MaxEvents /\ events' = events + 1 ELSE UNCHANGED events

(* A process ends: its flock is released, its memory is gone.                 *)
Ends(p, outcome) ==
    /\ rc' = [rc EXCEPT ![p] = outcome]
    /\ lock' = [k \in DOMAIN lock |-> IF lock[k] = p THEN Absent ELSE lock[k]]
    /\ run' = [run EXCEPT ![p] = EmptyRun]
    /\ report' = [report EXCEPT ![p] = EmptyReport]
    /\ UNCHANGED pc

-----------------------------------------------------------------------------
(* Verdicts                                                                   *)

Bad(summary) == summary \notin {"none", "pass"}
Failed(kind, when) == IF when THEN {kind} ELSE {}

(* Once the remote copy is required a summary that could not be read is a     *)
(* failure; before that only one that says so.                                *)
RemoteRequired(p) == \/ Program[p][pc[p]] = "final_conclude"
                     \/ Program[p][pc[p]] = "verdict" /\ Mode[p] = "full"
SummaryFailures(p, r) ==
    LET fails(s) == IF RemoteRequired(p) THEN s # "pass" ELSE Bad(s)
    IN  Failed("sync", fails(r.sync)) \cup Failed("verify", fails(r.verify))

(* The lists of failures main() of the alpha gate computes.                   *)
AlphaGateFailures(p, r) ==
    Failed("step", run[p].stepFailed) \cup Failed("residual", run[p].residual)
        \cup Failed("matrix", run[p].matrix = "fail") \cup SummaryFailures(p, r)

(* main() of the alpha candidate; a --local-only candidate never passes.      *)
AlphaRcFailures(p, r) ==
    Failed("step", run[p].stepFailed) \cup Failed("nested", ~run[p].nested)
        \cup Failed("residual", run[p].residual) \cup Failed("freshness", Bad(r.fresh))
        \cup SummaryFailures(p, r) \cup Failed("local_only", Mode[p] = "quick")

(* finalized_report of the beta gate.                                         *)
BetaGateFailures(p, r) ==
    Failed("step", run[p].stepFailed) \cup Failed("residual", run[p].residual)
        \cup Failed("smoke", ~run[p].smoke)
        \cup Failed("freshness", Bad(r.fresh)) \cup SummaryFailures(p, r)

(* finalize_report of the beta candidate.                                     *)
BetaRcFailures(p, r) ==
    Failed("step", run[p].stepFailed) \cup Failed("nested", ~run[p].nested)
        \cup Failed("freshness", Bad(r.fresh)) \cup SummaryFailures(p, r)

FailuresOf(p, r) == CASE Kind[p] = "alpha_gate" -> AlphaGateFailures(p, r)
                      [] Kind[p] = "alpha_rc"   -> AlphaRcFailures(p, r)
                      [] Kind[p] = "beta_gate"  -> BetaGateFailures(p, r)
                      [] Kind[p] = "beta_rc"    -> BetaRcFailures(p, r)

Concluded(p, r) == LET fs == FailuresOf(p, r)
                   IN  [r EXCEPT !.failures = fs, !.passed = (fs = {})]

(* Markdown and JSON are written one after the other, from the same report.   *)
Written(p, r) == [local EXCEPT ![Json(p)] = r, ![Markdown(p)] = r]
Wrote(p) == latest' = [latest EXCEPT ![Kind[p]] = p]

-----------------------------------------------------------------------------
(* Starting a tool and the gates' locks                                       *)

(* main() up to the first phase: by hand, once.                               *)
Start(p) ==
    /\ p \in Operator /\ pc[p] = 0
    /\ \A q \in After[p] : rc[q] # "none" \/ (q \notin Operator /\ pc[q] = 0)
    /\ pc' = [pc EXCEPT ![p] = 1]
    /\ UNCHANGED <<treeVars, rc, lock, run, report, latest, events, leaked>>

LockOf(p) == IF Kind[p] = "alpha_gate" THEN "alpha" ELSE "beta"

(* acquire_gate_lock, acquire_beta_lock: LOCK_NB, so a second gate exits.     *)
UnlockedStart(p) ==
    /\ At(p, "lock")
    /\ lock' = [lock EXCEPT ![LockOf(p)] = p]
    /\ Advance(p)
    /\ UNCHANGED <<treeVars, rc, run, report, latest, events, leaked>>
AcquireLock(p) ==
    /\ At(p, "lock") /\ lock[LockOf(p)] = Absent
    /\ lock' = [lock EXCEPT ![LockOf(p)] = p]
    /\ Advance(p)
    /\ UNCHANGED <<treeVars, rc, run, report, latest, events, leaked>>

Refused(p) ==
    /\ At(p, "lock") /\ lock[LockOf(p)] # Absent
    /\ Ends(p, "refused")
    /\ UNCHANGED <<treeVars, latest, events, leaked>>

-----------------------------------------------------------------------------
(* Commands: builds, tests, smokes, the export, nested tools                  *)

(* run_step, run_remote_shell_step, run_remote_process_check: builds, tests,   *)
(* demos, the public export with its hygiene scan, and the search for servers *)
(* left over on either machine.  Every command of the list is run, whatever   *)
(* happened to the ones before it, and none reads what this module models.    *)
RunCommands(p) ==
    /\ At(p, "commands")
    /\ \E failed, left \in BOOLEAN, tree \in Trees :
         LET ok == ExportPasses(tree)
         IN /\ Faulty(failed \/ left \/ ~ok)
            /\ run' = [run EXCEPT ![p].stepFailed = @ \/ failed \/ ~ok, ![p].residual = left]
            /\ report' = [report EXCEPT ![p].hygiene = IF ok THEN "pass" ELSE "fail"]
            /\ leaked' = [leaked EXCEPT ![p] = ok /\ copy_tree(tree) \cap Forbidden # {}]
    /\ Advance(p)
    /\ UNCHANGED <<treeVars, rc, lock, latest>>

(* The private baseline matrix.  When it leaves no summary, the empty path    *)
(* reaches parse_matrix_summary as the current directory, and open() raises.  *)
RunMatrix(p) ==
    /\ At(p, "matrix")
    /\ \E s \in Summary :
         /\ Faulty(s # "pass")
         /\ IF s = "none"
            THEN Ends(p, "crash")
            ELSE /\ run' = [run EXCEPT ![p].stepFailed = @ \/ s = "fail", ![p].matrix = s]
                 /\ Advance(p)
                 /\ UNCHANGED <<rc, lock, report>>
    /\ UNCHANGED <<treeVars, latest, leaked>>

(* The Beta 1C smoke and the io_uring log lines.  Without a "json=" line the  *)
(* empty path is read as a file, and the gate dies.                           *)
RunSmoke(p) ==
    /\ At(p, "smoke")
    /\ \E s \in Summary :
         /\ Faulty(s # "pass")
         /\ IF s = "none"
            THEN Ends(p, "crash")
            ELSE /\ run' = [run EXCEPT ![p].smoke = (s = "pass")]
                 /\ Advance(p)
                 /\ UNCHANGED <<rc, lock, report>>
    /\ UNCHANGED <<treeVars, latest, leaked>>

Child(p) == Launch[<<p, Program[p][pc[p]]>>]
AtChild(p) == Running(p) /\ Program[p][pc[p]] \in ChildPhases

StartChild(p) ==
    /\ AtChild(p) /\ Mode[p] # "reuse" /\ pc[Child(p)] = 0
    /\ pc' = [pc EXCEPT ![Child(p)] = 1]
    /\ UNCHANGED <<treeVars, rc, lock, run, report, latest, events, leaked>>

(* A run that got past its lock prints the path of its JSON before it exits;  *)
(* one that was refused, died or was killed prints nothing.                   *)
Printed(q) == rc[q] \in {"ok", "fail"}
SaysPassed(q) == Exists(Json(q)) /\ local[Json(q)].passed

(* The exit status of the nested run is a step; the candidates also read the  *)
(* "passed" of the JSON it printed.                                           *)
NestedPassed(q) == Printed(q) /\ SaysPassed(q)

ChildUnchecked(p) ==
    /\ AtChild(p) /\ Mode[p] # "reuse" /\ rc[Child(p)] # "none"
    /\ run' = [run EXCEPT ![p].nested = NestedPassed(Child(p))]
    /\ Advance(p)
    /\ UNCHANGED <<treeVars, rc, lock, report, latest, events, leaked>>
ChildAwaited(p) ==
    /\ AtChild(p) /\ Mode[p] # "reuse" /\ Printed(Child(p))
    /\ run' = [run EXCEPT ![p].stepFailed = @ \/ rc[Child(p)] # "ok",
                          ![p].nested = NestedPassed(Child(p))]
    /\ Advance(p)
    /\ UNCHANGED <<treeVars, rc, lock, report, latest, events, leaked>>
ChildReturns(p) ==
    /\ AtChild(p) /\ Mode[p] # "reuse" /\ rc[Child(p)] # "none"
    /\ run' = [run EXCEPT ![p].stepFailed = @ \/ rc[Child(p)] # "ok",
                          ![p].nested = NestedPassed(Child(p))]
    /\ Advance(p)
    /\ UNCHANGED <<treeVars, rc, lock, report, latest, events, leaked>>

(* --gate-json: the beta candidate packages a gate that was run before.       *)
ReuseGate(p) ==
    /\ At(p, "beta_gate") /\ Mode[p] = "reuse"
    /\ run' = [run EXCEPT ![p].nested = SaysPassed(Child(p))]
    /\ Advance(p)
    /\ UNCHANGED <<treeVars, rc, lock, report, latest, events, leaked>>

-----------------------------------------------------------------------------
(* Reports, manifests and the remote copy                                     *)

Collected(p) == CASE Kind[p] = "alpha_gate" -> collect_alpha_artifact_paths(Json(p))
                  [] Kind[p] = "alpha_rc"   -> candidate_artifact_paths(p)
                  [] Kind[p] = "beta_gate"  -> collect_beta_artifact_paths(p)
                  [] Kind[p] = "beta_rc"    ->
                        beta_candidate_artifact_paths(p, Json(Launch[<<p, "beta_gate">>]))

(* The first report, written before any verdict: it does not pass.  The alpha *)
(* gate collects its first paths before it, so its JSON is not among them.    *)
WriteBlankReport(p) ==
    /\ At(p, "blank_report")
    /\ run' = IF Kind[p] = "alpha_gate" /\ Mode[p] = "full"
              THEN [run EXCEPT ![p].paths = Collected(p)] ELSE run
    /\ LET fs == IF Kind[p] = "alpha_rc" THEN FailuresOf(p, report[p]) ELSE {}
           r  == [report[p] EXCEPT !.failures = fs, !.passed = FALSE]
       IN  report' = [report EXCEPT ![p] = r] /\ local' = Written(p, r)
    /\ Wrote(p) /\ Advance(p)
    /\ UNCHANGED <<remote, rc, lock, events, leaked>>

(* The verdict of a round and the report that carries it.                     *)
Conclude(p) ==
    /\ At(p, "conclude") \/ At(p, "final_conclude")
    /\ LET r == Concluded(p, report[p])
       IN  report' = [report EXCEPT ![p] = r] /\ local' = Written(p, r)
    /\ Wrote(p) /\ Advance(p)
    /\ UNCHANGED <<remote, rc, lock, run, events, leaked>>

(* The alpha candidate decides first, and writes after the next collection.   *)
Decide(p) ==
    /\ At(p, "verdict")
    /\ report' = [report EXCEPT ![p] = Concluded(p, @)]
    /\ Advance(p)
    /\ UNCHANGED <<treeVars, rc, lock, run, latest, events, leaked>>

(* Count and freshness are entered before they are known, so that the report  *)
(* need not be written again after the manifest.                              *)
PresetWrite(p) ==
    /\ At(p, "preset_write")
    /\ LET paths == Collected(p)
           r == [report[p] EXCEPT !.count = Cardinality(paths), !.fresh = "pass"]
       IN  /\ run' = [run EXCEPT ![p].paths = paths]
           /\ report' = [report EXCEPT ![p] = r] /\ local' = Written(p, r)
    /\ Wrote(p) /\ Advance(p)
    /\ UNCHANGED <<remote, rc, lock, events, leaked>>

(* The alpha gate adds the freshness to its JSON; the markdown stays.         *)
WriteJson(p) ==
    /\ At(p, "json")
    /\ local' = [local EXCEPT ![Json(p)] = report[p]]
    /\ Wrote(p) /\ Advance(p)
    /\ UNCHANGED <<remote, rc, lock, run, report, events, leaked>>

(* The paths of a manifest: collected now, or the ones of the manifest before *)
(* it, or the ones that were counted for the report.                          *)
PathsToList(p) ==
    CASE At(p, "manifest") \/ At(p, "final_manifest") -> Collected(p)
      [] At(p, "remanifest")      -> DOMAIN local[Manifest(p)]
      [] At(p, "preset_manifest") -> run[p].paths

(* Collection and manifest in one step: a file that changes in between looks  *)
(* as if it had changed before, one that appears as if it had afterwards.     *)
(* A path manifest_entry_for refuses ends the run: nothing catches it.        *)
WriteManifest(p) ==
    /\ \E ph \in {"manifest", "final_manifest", "remanifest", "preset_manifest"} : At(p, ph)
    /\ LET paths == PathsToList(p)
       IN  IF ManifestRaises(paths)
           THEN Ends(p, "crash") /\ UNCHANGED local
           ELSE /\ local' = [local EXCEPT ![Manifest(p)] = ManifestOf(paths)]
                /\ report' = IF At(p, "manifest") \/ At(p, "preset_manifest")
                             THEN [report EXCEPT ![p].count = Cardinality(paths)]
                             ELSE report
                /\ run' = [run EXCEPT ![p].paths = {}]
                /\ Advance(p)
                /\ UNCHANGED <<rc, lock>>
    /\ UNCHANGED <<remote, latest, events, leaked>>

CheckFreshness(p) ==
    /\ At(p, "fresh")
    /\ report' = [report EXCEPT ![p].fresh = Freshness(p)]
    /\ Advance(p)
    /\ UNCHANGED <<treeVars, rc, lock, run, latest, events, leaked>>

(* The last check before the final copy: a stale manifest ends the run with   *)
(* one more report.                                                           *)
StaleFailures(p) ==
    CASE Kind[p] = "alpha_gate" -> Failed("step", run[p].stepFailed) \cup {"freshness"}
      [] Kind[p] = "alpha_rc"   -> report[p].failures \cup {"freshness"}
      [] OTHER                  -> FailuresOf(p, [report[p] EXCEPT !.fresh = "fail"])

StaleExitOnly(p) ==
    /\ At(p, "fresh_gate")
    /\ IF Freshness(p) = "pass" THEN Advance(p) /\ UNCHANGED <<rc, lock, run, report>>
                                ELSE Ends(p, "fail")
    /\ UNCHANGED <<treeVars, latest, events, leaked>>
FreshnessGate(p) ==
    /\ At(p, "fresh_gate")
    /\ IF Freshness(p) = "pass"
       THEN /\ report' = [report EXCEPT ![p].fresh = "pass"]
            /\ Advance(p)
            /\ UNCHANGED <<local, latest, rc, lock, run>>
       ELSE /\ local' = Written(p, [report[p] EXCEPT !.failures = StaleFailures(p),
                                                    !.fresh = "fail", !.passed = FALSE])
            /\ Wrote(p) /\ Ends(p, "fail")
    /\ UNCHANGED <<remote, events, leaked>>

(* sync_remote_artifacts.py --sync.  A failing rsync may have copied some of  *)
(* the files (bound: none, one, or all but one); a sync that dies leaves no   *)
(* summary.                                                                   *)
PartialCopies(files) == {{}} \cup {{f} : f \in files} \cup {files \ {f} : f \in files}
SyncOutcome(p, s) ==
    \/ /\ s = (IF \A f \in Listed(p) : local[f] = ManifestHash(p, f) THEN "pass" ELSE "fail")
       /\ remote' = Copied(ToSync(p))
       /\ UNCHANGED events
    \/ /\ s \in {"fail", "none"} /\ Faulty(TRUE)
       /\ \E part \in PartialCopies(ToSync(p)) : remote' = Copied(part)

(* check_remote_artifact_sync.py --manifest, or the remote out of reach.      *)
VerifyOutcome(p, s) ==
    \/ s = (IF Verified(p) THEN "pass" ELSE "fail") /\ UNCHANGED events
    \/ s \in {"fail", "none"} /\ Faulty(TRUE)

Sync(p) ==
    /\ At(p, "sync")
    /\ \E s \in Summary :
         /\ SyncOutcome(p, s)
         /\ report' = [report EXCEPT ![p].sync = s]
         /\ run' = [run EXCEPT ![p].stepFailed = @ \/ s # "pass"]
    /\ Advance(p)
    /\ UNCHANGED <<local, rc, lock, latest, leaked>>

Verify(p) ==
    /\ At(p, "verify")
    /\ \E s \in Summary :
         /\ VerifyOutcome(p, s)
         /\ report' = [report EXCEPT ![p].verify = s]
         /\ run' = [run EXCEPT ![p].stepFailed = @ \/ s # "pass"]
    /\ Advance(p)
    /\ UNCHANGED <<treeVars, rc, lock, latest, leaked>>

(* The sync and the check after the last report; they are steps only if they  *)
(* fail.                                                                      *)
PostSync(p) ==
    /\ At(p, "post_sync")
    /\ \E s \in Summary : SyncOutcome(p, s) /\ run' = [run EXCEPT ![p].postSync = s]
    /\ Advance(p)
    /\ UNCHANGED <<local, rc, lock, report, latest, leaked>>

PostVerify(p) ==
    /\ At(p, "post_verify")
    /\ \E s \in Summary : VerifyOutcome(p, s) /\ run' = [run EXCEPT ![p].postVerify = s]
    /\ Advance(p)
    /\ UNCHANGED <<treeVars, rc, lock, report, latest, leaked>>

PostBad(p) == run[p].postSync # "pass" \/ run[p].postVerify # "pass"

PostIgnored(p) ==
    /\ At(p, "post_check")
    /\ Advance(p)
    /\ UNCHANGED <<treeVars, rc, lock, run, report, latest, events, leaked>>

(* Alpha tools: only a failure makes them write the report once more.         *)
PostCheck(p) ==
    /\ At(p, "post_check")
    /\ IF PostBad(p)
       THEN LET r == [report[p] EXCEPT !.failures = {"step"}, !.passed = FALSE]
            IN /\ report' = [report EXCEPT ![p] = r] /\ local' = Written(p, r) /\ Wrote(p)
       ELSE UNCHANGED <<local, report, latest>>
    /\ Advance(p)
    /\ UNCHANGED <<remote, rc, lock, run, events, leaked>>

(* Beta tools: the report is concluded and written again in any case.         *)
PostConclude(p) ==
    /\ At(p, "post_conclude")
    /\ LET r0 == IF PostBad(p) THEN [report[p] EXCEPT !.sync = run[p].postSync,
                                                      !.verify = run[p].postVerify]
                               ELSE report[p]
           fs == FailuresOf(p, r0) \cup Failed("step", PostBad(p))
           r  == [r0 EXCEPT !.failures = fs, !.passed = (fs = {})]
       IN  report' = [report EXCEPT ![p] = r] /\ local' = Written(p, r)
    /\ Wrote(p) /\ Advance(p)
    /\ UNCHANGED <<remote, rc, lock, run, events, leaked>>

(* The end of main(): the exit status is the verdict in memory.               *)
Exit(p) ==
    /\ At(p, "exit")
    /\ Ends(p, IF report[p].passed THEN "ok" ELSE "fail")
    /\ UNCHANGED <<treeVars, latest, events, leaked>>

-----------------------------------------------------------------------------
(* The freeze check                                                           *)

(* latest_result: the newest JSON of a tool, {} when there is none.           *)
Payload(kind) == IF latest[kind] = Absent THEN EmptyReport ELSE local[Json(latest[kind])]

(* latest_artifact_verify: the check in the newest report of the candidate,   *)
(* unless a *_beta-release-candidate-final-verify.json is there.  No tool     *)
(* writes one: it is a check an operator has made at any time, of anything.   *)
FinalVerify == {Payload("beta_rc").verify} \cup {"pass", "fail"}

(* build_report of the freeze check.                                          *)
FreezeByEvidence(p, left, verify) ==
    LET fs == Failed("verify", verify # "pass")
                \cup Failed("hygiene", Payload("beta_gate").hygiene # "pass")
                \cup Failed("residual", left)
    IN [report[p] EXCEPT !.failures = fs, !.passed = (fs = {})]
FreezeReport(p, left, verify) ==
    LET gate == Payload("beta_gate")
        cand == Payload("beta_rc")
        fs == Failed("nested", ~gate.passed \/ ~cand.passed)
                \cup Failed("verify", verify # "pass")
                \cup Failed("hygiene", gate.hygiene # "pass")
                \cup Failed("docs", \E k \in {"beta_gate", "beta_rc"} : ~Exists(<<"md", k>>))
                \cup Failed("residual", left)
    IN [report[p] EXCEPT !.failures = fs, !.passed = (fs = {})]

(* The first report goes to the freeze document, which the second one needs;  *)
(* the second to the document and the JSON.                                   *)
FreezeCheck(p) ==
    /\ At(p, "freeze_check")
    /\ \E left \in BOOLEAN, verify \in FinalVerify :
         /\ Faulty(left)
         /\ local' = [local EXCEPT ![Markdown(p)] = FreezeReport(p, left, verify)]
    /\ Advance(p)
    /\ UNCHANGED <<remote, rc, lock, run, report, latest, leaked>>

FreezeWrite(p) ==
    /\ At(p, "freeze_write")
    /\ \E left \in BOOLEAN, verify \in FinalVerify :
         /\ Faulty(left)
         /\ report' = [report EXCEPT ![p] = FreezeReport(p, left, verify)]
         /\ local' = Written(p, FreezeReport(p, left, verify))
    /\ Wrote(p) /\ Advance(p)
    /\ UNCHANGED <<remote, rc, lock, run, leaked>>

-----------------------------------------------------------------------------
(* What happens around the tools                                              *)

(* Another program or a person adds a document, a result or a log, or changes *)
(* one that is there.                                                         *)
ForeignChange(d) ==
    /\ Faulty(TRUE)
    /\ local' = [local EXCEPT ![<<"doc", d>>] = events + 1]
    /\ UNCHANGED <<remote, procVars, latest, leaked>>

(* A run is killed; a run it has started goes on by itself.                   *)
Kill(p) ==
    /\ p \in Killable /\ Running(p) /\ Faulty(TRUE)
    /\ Ends(p, "killed")
    /\ UNCHANGED <<treeVars, latest, leaked>>

-----------------------------------------------------------------------------
Init ==
    /\ \E present \in SUBSET (Docs \ PrivateDocs) :
         local = [f \in File |-> IF f \in {"doc"} \X present THEN 0 ELSE Absent]
    /\ remote = [f \in File |-> Absent]
    /\ pc = [p \in Procs |-> 0] /\ rc = [p \in Procs |-> "none"]
    /\ lock = [k \in {"alpha", "beta"} |-> Absent]
    /\ run = [p \in Procs |-> EmptyRun] /\ report = [p \in Procs |-> EmptyReport]
    /\ latest = [k \in Kinds |-> Absent]
    /\ events = 0
    /\ leaked = [p \in Procs |-> FALSE]

(* What a process does by itself.                                             *)
Step(p) ==
    \/ AcquireLock(p) \/ Refused(p)
    \/ RunCommands(p) \/ RunMatrix(p) \/ RunSmoke(p)
    \/ StartChild(p) \/ ChildReturns(p) \/ ReuseGate(p)
    \/ WriteBlankReport(p) \/ Conclude(p) \/ Decide(p) \/ PresetWrite(p) \/ WriteJson(p)
    \/ WriteManifest(p) \/ CheckFreshness(p) \/ FreshnessGate(p)
    \/ Sync(p) \/ Verify(p) \/ PostSync(p) \/ PostVerify(p) \/ PostCheck(p) \/ PostConclude(p)
    \/ FreezeCheck(p) \/ FreezeWrite(p)
    \/ Exit(p)

Next ==
    \/ \E p \in Procs : Start(p) \/ Step(p) \/ Kill(p)
    \/ \E d \in Docs : ForeignChange(d)

Spec == Init /\ [][Next]_vars

(* Every command a tool runs returns: subprocess.run without a timeout waits  *)
(* for the command, and the commands are assumed to end.                      *)
FairSpec == Spec /\ \A p \in Procs : WF_vars(Step(p))

-----------------------------------------------------------------------------
(* Properties                                                                 *)

ExitsOk(p) == rc[p] = "none" /\ rc'[p] = "ok"

(* An alpha tool that succeeds leaves its JSON, its manifest and the copies   *)
(* of both on the remote machine in agreement: no report is written after the *)
(* manifest that describes it, nothing is published that the manifest does    *)
(* not describe.  The gate's markdown agrees too, because gates exclude one   *)
(* another (main of run_alpha_release_gate.py, run_alpha_release_candidate.py) *)
Remote(p) == Mode[p] = "full" /\ Kind[p] \in {"alpha_gate", "alpha_rc"}
Agree(p, f) == f \in DOMAIN local[Manifest(p)]
                 /\ local[f] = local[Manifest(p)][f] /\ remote[f] = local[f]
SuccessIsPublished ==
    [][\A p \in Procs : ExitsOk(p) /\ Remote(p) =>
          /\ remote[Manifest(p)] = local[Manifest(p)]
          /\ Agree(p, Json(p))
          /\ Kind[p] = "alpha_gate" => Agree(p, Markdown(p))]_vars

(* The exit status and the JSON a tool leaves behind say the same.  Callers   *)
(* read one or the other: a step reads the status, the candidates and the     *)
(* freeze check read the JSON.                                                *)
StatusAgreesWithReport ==
    \A p \in Procs : rc[p] \in {"ok", "fail"} =>
        Exists(Json(p)) /\ (local[Json(p)].passed <=> rc[p] = "ok")

(* A tool that succeeds has had every run it started succeed, and every run   *)
(* whose report it packages say so.  A nested run that was refused, died or   *)
(* was killed counts as failed, even when an older report is lying around.    *)
Nested(p) == {q \in Procs : \E ph \in ChildPhases :
                <<p, ph>> \in DOMAIN Launch /\ Launch[<<p, ph>>] = q}
SuccessNeedsNested ==
    \A p \in Procs : rc[p] = "ok" /\ Kind[p] # "beta_rc" =>
        \A q \in Nested(p) : rc[q] = "ok"

(* A freeze check that passes after the beta gate is over rests on a gate     *)
(* that has succeeded, or was killed after its first verdict: the check looks *)
(* at the newest reports on disk only, and a killed gate has left one that    *)
(* says "passed" (build_report of run_beta_freeze_check.py).  A gate that     *)
(* failed, died or was refused is never frozen.                               *)
FreezeIsBacked ==
    \A p \in Procs : Kind[p] = "freeze" /\ rc[p] = "ok" =>
        latest["beta_gate"] # Absent /\ rc[latest["beta_gate"]] \in {"ok", "killed"}

(* The order FreezeIsBacked speaks of: a freeze check is run by hand, when     *)
(* the beta gates, run by hand too, are over.                                 *)
FreezeComesLast ==
    /\ \A y, q \in Procs : Kind[y] = "freeze" /\ Kind[q] = "beta_gate" /\ y \in Operator =>
         q \in After[y] \cap Operator
    /\ \A y \in Procs, x \in DOMAIN Launch : Kind[y] = "freeze" => Launch[x] # y

(* What validate_artifact_path refuses never reaches the remote tree, though  *)
(* one collection does not filter; and an export that passes its hygiene scan *)
(* holds nothing that must not be published (copy_tree, scan_file).           *)
PrivateStaysLocal ==
    /\ \A f \in File : ~ValidArtifact(f) => remote[f] = Absent
    /\ \A p \in Procs : ~leaked[p]

(* Two runs of the alpha gate never work at once; a second is turned away,    *)
(* also when it was started by the beta gate or by the candidate.             *)
Working(p) == Running(p) /\ pc[p] > 1
GatesExclusive ==
    \A p, q \in Procs : p # q /\ Kind[p] = Kind[q] /\ Kind[p] \in {"alpha_gate", "beta_gate"} =>
        ~(Working(p) /\ Working(q))

(* Every run ends, whatever it has to wait for: no lock is waited on.         *)
EveryRunEnds == \A p \in Procs : (pc[p] > 0) ~> (rc[p] # "none")

(* docs/release/README.md: the gate writes its final report first, then the   *)
(* manifest.  For the beta gate and the beta candidate.                       *)
FinalManifestDescribesReport ==
    [][\A p \in Procs : ExitsOk(p) /\ Kind[p] \in {"beta_gate", "beta_rc"} =>
          local[Json(p)] = local[Manifest(p)][Json(p)]]_vars
=============================================================================
