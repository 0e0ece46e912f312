---------------------------- MODULE PublicExport ----------------------------
(***************************************************************************)
(* export_public_repo.py and check_public_hygiene.py --strict: which files *)
(* of the source tree reach a public export, what the copy does to them,   *)
(* and what the hygiene scan of the copy reports.  A file is known by its  *)
(* sort: what its path, its suffix or its text make the two scripts see.   *)
(***************************************************************************)
EXTENDS Naturals, FiniteSets

FileSort == {"source",          \* text with nothing to hide
             "agents",          \* AGENTS.md, the private topology table
             "build_file",      \* below build*/ or a build system's own file
             "credential",      \* a key, certificate, token or secret by its name
             "object",          \* ELF, or a suffix such as .o .so .bin .log
             "archive",         \* .gz .zip .tar .xz: copied, refused by the scan
             "picture",         \* .png .jpg
             "unknown_binary",  \* not UTF-8, no known suffix
             "perf_result",     \* below tools/perf/results
             "private_value",   \* text that names a host or password of AGENTS.md
             "redacted_value",  \* the same text after sanitize_text
             "inline_secret"}   \* text with a key block, a password or token literal

(* What must never be published. *)
Forbidden == {"agents", "build_file", "credential", "object", "perf_result",
              "private_value", "inline_secret"}

(* should_exclude: by directory, name, suffix, ELF magic or prefix.           *)
should_exclude(s) == s \in {"agents", "build_file", "credential", "object", "perf_result"}

(* sanitize_text: every value read from AGENTS.md becomes <redacted>.         *)
sanitize_text(s) == IF s = "private_value" THEN "redacted_value" ELSE s

(* copy_tree: text is sanitized on the way, what is not UTF-8 is copied.      *)
copy_tree(tree) == {sanitize_text(s) : s \in {x \in tree : ~should_exclude(x)}}

(* scan_file of check_public_hygiene.py --strict: the sorts that give a       *)
(* finding.  A value of AGENTS.md is known to the scan only if it is one of   *)
(* the few spelled out in its patterns, so "private_value" is not among them. *)
scan_file(s) == s \in {"agents", "build_file", "object", "archive", "unknown_binary",
                       "inline_secret"}

(* main of export_public_repo.py: copy, then scan the copy; the exit status   *)
(* is the scan's.                                                             *)
ExportPasses(tree) == ~\E s \in copy_tree(tree) : scan_file(s)

(* Trees with one sort of file besides plain sources, and one with two that   *)
(* are treated apart.                                                         *)
Trees == {{"source"} \cup t : t \in {t \in SUBSET FileSort : Cardinality(t) <= 1}}
             \cup {{"source", "private_value", "inline_secret"}}
=============================================================================
