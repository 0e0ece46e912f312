-------------------------- MODULE ReleaseArtifacts --------------------------
(***************************************************************************)
(* The files the release tools of tools/release/ share, and what the       *)
(* artifact helpers do to them: collecting the paths of a release, writing *)
(* a manifest of their hashes, checking the manifest against the local     *)
(* tree (freshness), copying stale files to the remote tree and comparing  *)
(* both trees with the manifest (sync_remote_artifacts.py and              *)
(* check_remote_artifact_sync.py).                                         *)
(*                                                                         *)
(* A file is a pair <<class, name>>: "json" and "manifest" files are       *)
(* timestamped and belong to one run of a tool, an "md" report belongs to  *)
(* a tool and is overwritten by every run of it, a "doc" stands for what   *)
(* other tools and people put below docs/ and tools/perf/results/.         *)
(* A hash is the content it is the hash of.                                *)
(***************************************************************************)
EXTENDS Naturals, FiniteSets, Functions

CONSTANTS Procs,        \* runs of release tools; each happens at most once
          Kind,         \* [Procs -> Kinds]: the tool a run is a run of
          Docs,         \* artifacts other programs create or change
          PrivateDocs,  \* those whose path validate_artifact_path rejects
          Absent        \* no such file

Kinds == {"alpha_gate", "alpha_rc", "beta_gate", "beta_rc", "freeze"}

ASSUME ProcsAssumption == /\ IsFiniteSet(Procs) /\ Absent \notin Procs
                           /\ Kind \in [Procs -> Kinds]
ASSUME DocsAssumption == IsFiniteSet(Docs) /\ PrivateDocs \subseteq Docs

File == ({"json", "manifest"} \X Procs) \cup ({"md"} \X Kinds) \cup ({"doc"} \X Docs)
Json(p) == <<"json", p>>
Manifest(p) == <<"manifest", p>>
Markdown(p) == <<"md", Kind[p]>>

VARIABLES local,    \* [File -> content]: this machine's tree
          remote    \* [File -> content]: the tree on the other machine

Exists(f) == local[f] # Absent

(* validate_artifact_path: absolute paths, traversal, sensitive words, build  *)
(* directories and blocked suffixes are refused.                              *)
ValidArtifact(f) == f \notin ({"doc"} \X PrivateDocs)

-----------------------------------------------------------------------------
(* Collecting the artifacts of a release                                      *)

(* The documents, tools, figures and result files every collection looks for: *)
(* docs/release/*.md (the reports of all tools), tools, demo and matrix       *)
(* results, whatever of it exists.                                            *)
SharedArtifacts == {f \in File : f[1] \in {"md", "doc"}}

collect_alpha_artifact_paths(gateJson) ==
    {f \in SharedArtifacts \cup {gateJson} : ValidArtifact(f) /\ Exists(f)}

(* The alpha candidate adds the files below its own log directory, which pass *)
(* through no check before the manifest is written.                           *)
candidate_artifact_paths(p) ==
    collect_alpha_artifact_paths(Json(p))
        \cup {f \in {Json(p), Markdown(p)} \cup ({"doc"} \X Docs) : Exists(f)}

(* The beta collection: the alpha one, the gate's own report, and the latest  *)
(* freeze check.  The manifest itself is left out.                            *)
collect_beta_artifact_paths(p) ==
    {f \in collect_alpha_artifact_paths(Json(p)) \cup {Json(p), Markdown(p)}
             \cup {Json(q) : q \in {q \in Procs : Kind[q] = "freeze"}} :
        ValidArtifact(f) /\ Exists(f)}

(* The beta candidate packages the gate's JSON next to its own.               *)
beta_candidate_artifact_paths(p, gateJson) ==
    {f \in collect_beta_artifact_paths(p) \cup {gateJson} : ValidArtifact(f) /\ Exists(f)}

-----------------------------------------------------------------------------
(* The manifest, its freshness, and the copy on the remote machine            *)

(* manifest_entry_for raises for a path it rejects; nothing is written then.  *)
NeverRaises(paths) == FALSE
ManifestRaises(paths) == \E f \in paths : ~ValidArtifact(f)

(* write_alpha_artifact_manifest: the hash of every path, as it is now.       *)
ManifestOf(paths) == [f \in paths |-> local[f]]

(* check_alpha_artifact_manifest_freshness: every listed file still has the   *)
(* size and the hash the manifest gives it.                                   *)
Stale(p) == {f \in DOMAIN local[Manifest(p)] : local[f] # local[Manifest(p)][f]}
Freshness(p) == IF Stale(p) = {} THEN "pass" ELSE "fail"

(* load_manifest: the listed artifacts, and the manifest file itself with the *)
(* hash it has now.                                                           *)
Listed(p) == DOMAIN local[Manifest(p)] \cup {Manifest(p)}
ManifestHash(p, f) == IF f = Manifest(p) THEN local[f] ELSE local[Manifest(p)][f]

(* check_artifacts: what an artifact looks like on both machines.             *)
ArtifactStatus(p, f) ==
    CASE ~Exists(f)                              -> "missing_local"
      [] Exists(f) /\ remote[f] = Absent         -> "missing"
      [] Exists(f) /\ remote[f] # Absent
            /\ (local[f] # remote[f] \/ ManifestHash(p, f) # local[f]) -> "mismatch"
      [] OTHER                                   -> "match"

Verified(p) == \A f \in Listed(p) : ArtifactStatus(p, f) = "match"

(* The required artifacts rsync is asked to copy: what is missing or differs, *)
(* whether or not the manifest still describes it.                            *)
ToSync(p) == {f \in Listed(p) : ArtifactStatus(p, f) \in {"missing", "mismatch"}}

(* rsync overwrites the copies of `files` on the remote machine.              *)
Copied(files) == [f \in File |-> IF f \in files THEN local[f] ELSE remote[f]]
=============================================================================
