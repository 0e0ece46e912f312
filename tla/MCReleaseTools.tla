--------------------------- MODULE MCReleaseTools ---------------------------
(* Small instances of ReleaseTools: `og` is a quick alpha gate started by     *)
(* hand, `c` an alpha candidate with its gate `cg`, `b` a beta gate with its   *)
(* nested runs `bq`, `bf` and `c`, `d` a beta candidate that packages `b`, `z` *)
(* a freeze check.                                                             *)
EXTENDS ReleaseTools, TLC

CONSTANTS og, c, cg, b, bq, bf, d, z, d1, d2

AllKinds == (og :> "alpha_gate") @@ (c :> "alpha_rc") @@ (cg :> "alpha_gate")
              @@ (b :> "beta_gate") @@ (bq :> "alpha_gate") @@ (bf :> "alpha_gate")
              @@ (d :> "beta_rc") @@ (z :> "freeze")
AllModes == [p \in DOMAIN AllKinds |-> CASE p \in {og, bq} -> "quick"
                                          [] p = d -> "reuse"
                                          [] OTHER -> "full"]

AllLaunches == (<<c, "nested_gate">> :> cg) @@ (<<b, "quick_gate">> :> bq)
                 @@ (<<b, "full_gate">> :> bf) @@ (<<b, "alpha_rc">> :> c)
                 @@ (<<d, "beta_gate">> :> b)

(* The alpha candidate with its full gate, and a quick gate beside it. *)
AlphaProcs == {og, c, cg}
AlphaOperator == {og, c}
(* The beta gate with the whole chain below it, then a candidate that         *)
(* packages its report and, beside it, a freeze check.                        *)
BetaProcs == {c, cg, b, bq, bf, d, z}
BetaOperator == {b, d, z}
BetaKillable == {cg, bf, bq, b, d}

AfterOf == [p \in Operator |-> IF p \in {d, z} THEN {b, bq, bf, c, cg} ELSE {}]

(* d1 is an ordinary document, d2 a log whose name is refused. *)
MCDocs == {d1, d2}
MCPrivate == {d2}

(* What the theorem on freeze checks supposes holds here. *)
ASSUME FreezeChecksLast == FreezeComesLast

KindOf == [p \in Procs |-> AllKinds[p]]
ModeOf == [p \in Procs |-> AllModes[p]]
=============================================================================
