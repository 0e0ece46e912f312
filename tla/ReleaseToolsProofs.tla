------------------------ MODULE ReleaseToolsProofs ------------------------
(***************************************************************************)
(* The safety properties of ReleaseTools, for every set of runs, every     *)
(* nesting of them and every mode, as its assumptions allow.               *)
(*                                                                         *)
(* Programs are lists put together from pieces; the first part spells each *)
(* out as one list of phases and reads off what all have in common.  Then  *)
(* ToolsInv: where each run is in its program, its lock, its manifest, its *)
(* report, and what it knows of the tools it ran.  Every action is shown   *)
(* to be a move of one run (Moved), and every move keeps the invariant.    *)
(* PublishInv and FreezeInv do the same for what an alpha tool publishes   *)
(* and for what a freeze check rests on, with frames of their own          *)
(* (Printing, Filed).                                                      *)
(***************************************************************************)
EXTENDS ReleaseTools, SequenceTheorems, FiniteSetTheorems, TLAPS

-----------------------------------------------------------------------------
(* The programs, phase by phase                                               *)

(* The phases a program is made of.                                           *)
Phases == {"lock", "commands", "matrix", "smoke", "blank_report", "conclude", "final_conclude",
           "verdict", "preset_write", "json", "manifest", "final_manifest", "remanifest",
           "preset_manifest", "fresh", "fresh_gate", "sync", "verify", "post_sync",
           "post_verify", "post_check", "post_conclude", "freeze_check", "freeze_write",
           "exit", "nested_gate", "quick_gate", "full_gate", "alpha_rc", "beta_gate"}
(* A list of n phases, and the first n of one.                                *)
Piece(s, n) == s \in Seq(Phases) /\ Len(s) = n
Front(s, n) == [i \in 1 .. n |-> s[i]]

(* t is what s has after its first m elements, up to its first j elements.    *)
Continues(s, m, t, j) ==
  \E n, k \in Nat : /\ m \in Nat /\ j = m + n /\ j <= k /\ Piece(s, k) /\ Piece(t, n)
                    /\ \A i \in 1 .. n : s[m + i] = t[i]

(* A program cut after its first phases goes on with the next piece.          *)
LEMMA Extend ==
  ASSUME NEW s, NEW m, NEW t, NEW j, Continues(s, m, t, j)
  PROVE  Front(s, m) \o t = Front(s, j)
  <1>1. PICK n \in Nat, k \in Nat : /\ m \in Nat /\ j = m + n /\ j <= k /\ Piece(s, k) /\ Piece(t, n)
                    /\ \A i \in 1 .. n : s[m + i] = t[i]
    BY DEF Continues
  <1> DEFINE u == Front(s, m)
  <1>2. u \in Seq(Phases) /\ Len(u) = m /\ \A i \in 1 .. m : u[i] = s[i] BY <1>1 DEF Piece, Front
  <1> DEFINE v == Front(s, j)
  <1>3. v \in Seq(Phases) /\ Len(v) = m + n /\ \A i \in 1 .. m + n : v[i] = s[i]
    BY <1>1 DEF Piece, Front
  <1> HIDE DEF u, v
  <1> DEFINE w == u \o t
  <1>4. /\ w \in Seq(Phases) /\ Len(w) = m + n
        /\ \A i \in 1 .. m + n : w[i] = IF i <= m THEN u[i] ELSE t[i - m]
    BY <1>1, <1>2, ConcatProperties DEF Piece
  <1> HIDE DEF w
  <1>5. ASSUME NEW i \in 1 .. m + n PROVE w[i] = v[i]
    <2>1. CASE i <= m BY <2>1, <1>1, <1>2, <1>3, <1>4
    <2>2. CASE i > m
      <3>1. i - m \in 1 .. n /\ m + (i - m) = i BY <2>2, <1>1
      <3>2. s[i] = t[i - m] BY <3>1, <1>1
      <3> QED BY <2>2, <1>3, <1>4, <3>2, <1>1
    <2> QED BY <2>1, <2>2, <1>1
  <1>6. w = v BY <1>3, <1>4, <1>5, SeqEqual
  <1> QED BY <1>6 DEF w, u, v

(* A program begins with its first piece.                                     *)
LEMMA Begin ==
  ASSUME NEW s, NEW t, NEW j, Continues(s, 0, t, j)
  PROVE  t = Front(s, j)
  <1>1. PICK n \in Nat, k \in Nat : /\ j = 0 + n /\ j <= k /\ Piece(s, k) /\ Piece(t, n)
                    /\ \A i \in 1 .. n : s[0 + i] = t[i]
    BY DEF Continues
  <1> DEFINE u == Front(s, j)
  <1>2. u \in Seq(Phases) /\ Len(u) = n /\ \A i \in 1 .. n : u[i] = s[i] BY <1>1 DEF Piece, Front
  <1>3. t \in Seq(Phases) /\ Len(t) = n /\ \A i \in 1 .. n : t[i] = s[i] BY <1>1 DEF Piece
  <1> HIDE DEF u
  <1>4. t = u BY <1>2, <1>3, SeqEqual
  <1> QED BY <1>4 DEF u

(* A program cut at its end is the program.                                   *)
LEMMA Whole ==
  ASSUME NEW s, NEW k \in Nat, Piece(s, k)
  PROVE  s = Front(s, k)
  <1> DEFINE u == Front(s, k)
  <1>2. u \in Seq(Phases) /\ Len(u) = k /\ \A i \in 1 .. k : u[i] = s[i] BY DEF Piece, Front
  <1> HIDE DEF u
  <1>4. s = u BY <1>2, SeqEqual DEF Piece
  <1> QED BY <1>4 DEF u

(* The phase every program ends with.                                         *)
LastPhase == <<"exit">>

(* The pieces main() of every tool is made of, and how many phases each has.  *)
LEMMA Pieces ==
  /\ Piece(AlphaSetup, 2)
  /\ Piece(AlphaMatrix, 1)
  /\ Piece(AlphaFirstReport, 1)
  /\ Piece(AlphaFirstSync, 3)
  /\ Piece(AlphaFirstVerdict, 1)
  /\ Piece(AlphaRefresh, 5)
  /\ Piece(AlphaFinalSync, 2)
  /\ Piece(AlphaFinalVerdict, 3)
  /\ Piece(PostReport, 3)
  /\ Piece(RcCommands, 2)
  /\ Piece(RcFirstRound, 3)
  /\ Piece(RcSync, 2)
  /\ Piece(RcFinal, 4)
  /\ Piece(BetaSetup, 1)
  /\ Piece(BetaAlphaGates, 3)
  /\ Piece(BetaCommands, 2)
  /\ Piece(BetaFirstRound, 4)
  /\ Piece(BetaSync, 4)
  /\ Piece(BetaFinal, 3)
  /\ Piece(BetaPost, 3)
  /\ Piece(BetaRcGate, 1)
  /\ Piece(BetaRcFirstRound, 4)
  /\ Piece(BetaRcSync, 4)
  /\ Piece(BetaRcFinal, 3)
  /\ Piece(BetaRcPost, 3)
  /\ Piece(LastPhase, 1)
BY DEF Piece, Phases, AlphaSetup, AlphaMatrix, AlphaFirstReport, AlphaFirstSync,
    AlphaFirstVerdict, AlphaRefresh, AlphaFinalSync, AlphaFinalVerdict, PostReport, RcCommands,
    RcFirstRound, RcSync, RcFinal, BetaSetup, BetaAlphaGates, BetaCommands, BetaFirstRound,
    BetaSync, BetaFinal, BetaPost, BetaRcGate, BetaRcFirstRound, BetaRcSync, BetaRcFinal,
    BetaRcPost, LastPhase

(* The phases of main of the alpha gate, --quick, from first to last. *)
QuickGatePhases ==
  <<"lock", "commands", "blank_report", "conclude", "exit">>

(* main of run_alpha_release_gate.py --quick, phase by phase.                 *)
LEMMA QuickGateSpelled ==
  AlphaGateProgram("quick") = QuickGatePhases
  <1>1. Piece(QuickGatePhases, 5) BY DEF Piece, Phases, QuickGatePhases
  <1>2. /\ \A i \in 1 .. 2 : QuickGatePhases[i] = AlphaSetup[i]
        /\ \A i \in 1 .. 1 : QuickGatePhases[2 + i] = AlphaFirstReport[i]
        /\ \A i \in 1 .. 1 : QuickGatePhases[3 + i] = AlphaFirstVerdict[i]
        /\ \A i \in 1 .. 1 : QuickGatePhases[4 + i] = LastPhase[i]
    BY DEF QuickGatePhases, AlphaSetup, AlphaFirstReport, AlphaFirstVerdict, LastPhase
  <1>3. Continues(QuickGatePhases, 0, AlphaSetup, 2) BY <1>1, <1>2, Pieces DEF Continues
  <1>4. Continues(QuickGatePhases, 2, AlphaFirstReport, 3) BY <1>1, <1>2, Pieces DEF Continues
  <1>5. Continues(QuickGatePhases, 3, AlphaFirstVerdict, 4) BY <1>1, <1>2, Pieces DEF Continues
  <1>6. Continues(QuickGatePhases, 4, LastPhase, 5) BY <1>1, <1>2, Pieces DEF Continues
  <1>7. AlphaSetup = Front(QuickGatePhases, 2) BY <1>3, Begin
  <1>8. Front(QuickGatePhases, 2) \o AlphaFirstReport = Front(QuickGatePhases, 3) BY <1>4, Extend
  <1>9. Front(QuickGatePhases, 3) \o AlphaFirstVerdict = Front(QuickGatePhases, 4) BY <1>5, Extend
  <1>10. Front(QuickGatePhases, 4) \o LastPhase = Front(QuickGatePhases, 5) BY <1>6, Extend
  <1>11. Front(QuickGatePhases, 5) = QuickGatePhases BY <1>1, Whole
  <1>12. AlphaSetup \o AlphaFirstReport \o AlphaFirstVerdict \o LastPhase = QuickGatePhases
    BY <1>7, <1>8, <1>9, <1>10, <1>11
  <1> QED BY <1>12 DEF AlphaGateProgram, LastPhase

(* The phases of main of the alpha gate, from first to last. *)
FullGatePhases ==
  <<"lock", "commands", "matrix", "blank_report", "preset_manifest", "sync",
    "verify", "conclude", "manifest", "fresh", "json", "remanifest", "fresh",
    "sync", "verify", "final_conclude", "final_manifest", "fresh_gate",
    "post_sync", "post_verify", "post_check", "exit">>

(* main of run_alpha_release_gate.py --full, phase by phase.                  *)
LEMMA FullGateSpelled ==
  ASSUME NEW mode, mode # "quick"
  PROVE  AlphaGateProgram(mode) = FullGatePhases
  <1>1. Piece(FullGatePhases, 22) BY DEF Piece, Phases, FullGatePhases
  <1>2. /\ \A i \in 1 .. 2 : FullGatePhases[i] = AlphaSetup[i]
        /\ \A i \in 1 .. 1 : FullGatePhases[2 + i] = AlphaMatrix[i]
        /\ \A i \in 1 .. 1 : FullGatePhases[3 + i] = AlphaFirstReport[i]
        /\ \A i \in 1 .. 3 : FullGatePhases[4 + i] = AlphaFirstSync[i]
        /\ \A i \in 1 .. 1 : FullGatePhases[7 + i] = AlphaFirstVerdict[i]
        /\ \A i \in 1 .. 5 : FullGatePhases[8 + i] = AlphaRefresh[i]
        /\ \A i \in 1 .. 2 : FullGatePhases[13 + i] = AlphaFinalSync[i]
        /\ \A i \in 1 .. 3 : FullGatePhases[15 + i] = AlphaFinalVerdict[i]
        /\ \A i \in 1 .. 3 : FullGatePhases[18 + i] = PostReport[i]
        /\ \A i \in 1 .. 1 : FullGatePhases[21 + i] = LastPhase[i]
    BY DEF FullGatePhases, AlphaSetup, AlphaMatrix, AlphaFirstReport, AlphaFirstSync,
        AlphaFirstVerdict, AlphaRefresh, AlphaFinalSync, AlphaFinalVerdict, PostReport,
        LastPhase
  <1>3. Continues(FullGatePhases, 0, AlphaSetup, 2) BY <1>1, <1>2, Pieces DEF Continues
  <1>4. Continues(FullGatePhases, 2, AlphaMatrix, 3) BY <1>1, <1>2, Pieces DEF Continues
  <1>5. Continues(FullGatePhases, 3, AlphaFirstReport, 4) BY <1>1, <1>2, Pieces DEF Continues
  <1>6. Continues(FullGatePhases, 4, AlphaFirstSync, 7) BY <1>1, <1>2, Pieces DEF Continues
  <1>7. Continues(FullGatePhases, 7, AlphaFirstVerdict, 8) BY <1>1, <1>2, Pieces DEF Continues
  <1>8. Continues(FullGatePhases, 8, AlphaRefresh, 13) BY <1>1, <1>2, Pieces DEF Continues
  <1>9. Continues(FullGatePhases, 13, AlphaFinalSync, 15) BY <1>1, <1>2, Pieces DEF Continues
  <1>10. Continues(FullGatePhases, 15, AlphaFinalVerdict, 18) BY <1>1, <1>2, Pieces DEF Continues
  <1>11. Continues(FullGatePhases, 18, PostReport, 21) BY <1>1, <1>2, Pieces DEF Continues
  <1>12. Continues(FullGatePhases, 21, LastPhase, 22) BY <1>1, <1>2, Pieces DEF Continues
  <1>13. AlphaSetup = Front(FullGatePhases, 2) BY <1>3, Begin
  <1>14. Front(FullGatePhases, 2) \o AlphaMatrix = Front(FullGatePhases, 3) BY <1>4, Extend
  <1>15. Front(FullGatePhases, 3) \o AlphaFirstReport = Front(FullGatePhases, 4) BY <1>5, Extend
  <1>16. Front(FullGatePhases, 4) \o AlphaFirstSync = Front(FullGatePhases, 7) BY <1>6, Extend
  <1>17. Front(FullGatePhases, 7) \o AlphaFirstVerdict = Front(FullGatePhases, 8) BY <1>7, Extend
  <1>18. Front(FullGatePhases, 8) \o AlphaRefresh = Front(FullGatePhases, 13) BY <1>8, Extend
  <1>19. Front(FullGatePhases, 13) \o AlphaFinalSync = Front(FullGatePhases, 15) BY <1>9, Extend
  <1>20. Front(FullGatePhases, 15) \o AlphaFinalVerdict = Front(FullGatePhases, 18) BY <1>10, Extend
  <1>21. Front(FullGatePhases, 18) \o PostReport = Front(FullGatePhases, 21) BY <1>11, Extend
  <1>22. Front(FullGatePhases, 21) \o LastPhase = Front(FullGatePhases, 22) BY <1>12, Extend
  <1>23. Front(FullGatePhases, 22) = FullGatePhases BY <1>1, Whole
  <1>24. AlphaSetup \o AlphaMatrix \o AlphaFirstReport \o AlphaFirstSync
           \o AlphaFirstVerdict \o AlphaRefresh \o AlphaFinalSync \o AlphaFinalVerdict \o PostReport
           \o LastPhase = FullGatePhases
    BY <1>13, <1>14, <1>15, <1>16, <1>17, <1>18, <1>19, <1>20, <1>21, <1>22, <1>23
  <1> QED BY <1>24 DEF AlphaGateProgram, LastPhase

(* The phases of the alpha candidate, --local-only, from first to last. *)
LocalRcPhases ==
  <<"nested_gate", "commands", "blank_report", "manifest", "fresh", "verdict",
    "preset_write", "preset_manifest", "fresh_gate", "exit">>

(* main of run_alpha_release_candidate.py --local-only, phase by phase.       *)
LEMMA LocalRcSpelled ==
  AlphaRcProgram("quick") = LocalRcPhases
  <1>1. Piece(LocalRcPhases, 10) BY DEF Piece, Phases, LocalRcPhases
  <1>2. /\ \A i \in 1 .. 2 : LocalRcPhases[i] = RcCommands[i]
        /\ \A i \in 1 .. 3 : LocalRcPhases[2 + i] = RcFirstRound[i]
        /\ \A i \in 1 .. 4 : LocalRcPhases[5 + i] = RcFinal[i]
        /\ \A i \in 1 .. 1 : LocalRcPhases[9 + i] = LastPhase[i]
    BY DEF LocalRcPhases, RcCommands, RcFirstRound, RcFinal, LastPhase
  <1>3. Continues(LocalRcPhases, 0, RcCommands, 2) BY <1>1, <1>2, Pieces DEF Continues
  <1>4. Continues(LocalRcPhases, 2, RcFirstRound, 5) BY <1>1, <1>2, Pieces DEF Continues
  <1>5. Continues(LocalRcPhases, 5, RcFinal, 9) BY <1>1, <1>2, Pieces DEF Continues
  <1>6. Continues(LocalRcPhases, 9, LastPhase, 10) BY <1>1, <1>2, Pieces DEF Continues
  <1>7. RcCommands = Front(LocalRcPhases, 2) BY <1>3, Begin
  <1>8. Front(LocalRcPhases, 2) \o RcFirstRound = Front(LocalRcPhases, 5) BY <1>4, Extend
  <1>9. Front(LocalRcPhases, 5) \o RcFinal = Front(LocalRcPhases, 9) BY <1>5, Extend
  <1>10. Front(LocalRcPhases, 9) \o LastPhase = Front(LocalRcPhases, 10) BY <1>6, Extend
  <1>11. Front(LocalRcPhases, 10) = LocalRcPhases BY <1>1, Whole
  <1>12. RcCommands \o RcFirstRound \o RcFinal \o LastPhase = LocalRcPhases
    BY <1>7, <1>8, <1>9, <1>10, <1>11
  <1> QED BY <1>12 DEF AlphaRcProgram, LastPhase

(* The phases of the alpha candidate, from first to last. *)
FullRcPhases ==
  <<"nested_gate", "commands", "blank_report", "manifest", "fresh", "sync",
    "verify", "verdict", "preset_write", "preset_manifest", "fresh_gate",
    "post_sync", "post_verify", "post_check", "exit">>

(* main of run_alpha_release_candidate.py, phase by phase.                    *)
LEMMA FullRcSpelled ==
  ASSUME NEW mode, mode # "quick"
  PROVE  AlphaRcProgram(mode) = FullRcPhases
  <1>1. Piece(FullRcPhases, 15) BY DEF Piece, Phases, FullRcPhases
  <1>2. /\ \A i \in 1 .. 2 : FullRcPhases[i] = RcCommands[i]
        /\ \A i \in 1 .. 3 : FullRcPhases[2 + i] = RcFirstRound[i]
        /\ \A i \in 1 .. 2 : FullRcPhases[5 + i] = RcSync[i]
        /\ \A i \in 1 .. 4 : FullRcPhases[7 + i] = RcFinal[i]
        /\ \A i \in 1 .. 3 : FullRcPhases[11 + i] = PostReport[i]
        /\ \A i \in 1 .. 1 : FullRcPhases[14 + i] = LastPhase[i]
    BY DEF FullRcPhases, RcCommands, RcFirstRound, RcSync, RcFinal, PostReport, LastPhase
  <1>3. Continues(FullRcPhases, 0, RcCommands, 2) BY <1>1, <1>2, Pieces DEF Continues
  <1>4. Continues(FullRcPhases, 2, RcFirstRound, 5) BY <1>1, <1>2, Pieces DEF Continues
  <1>5. Continues(FullRcPhases, 5, RcSync, 7) BY <1>1, <1>2, Pieces DEF Continues
  <1>6. Continues(FullRcPhases, 7, RcFinal, 11) BY <1>1, <1>2, Pieces DEF Continues
  <1>7. Continues(FullRcPhases, 11, PostReport, 14) BY <1>1, <1>2, Pieces DEF Continues
  <1>8. Continues(FullRcPhases, 14, LastPhase, 15) BY <1>1, <1>2, Pieces DEF Continues
  <1>9. RcCommands = Front(FullRcPhases, 2) BY <1>3, Begin
  <1>10. Front(FullRcPhases, 2) \o RcFirstRound = Front(FullRcPhases, 5) BY <1>4, Extend
  <1>11. Front(FullRcPhases, 5) \o RcSync = Front(FullRcPhases, 7) BY <1>5, Extend
  <1>12. Front(FullRcPhases, 7) \o RcFinal = Front(FullRcPhases, 11) BY <1>6, Extend
  <1>13. Front(FullRcPhases, 11) \o PostReport = Front(FullRcPhases, 14) BY <1>7, Extend
  <1>14. Front(FullRcPhases, 14) \o LastPhase = Front(FullRcPhases, 15) BY <1>8, Extend
  <1>15. Front(FullRcPhases, 15) = FullRcPhases BY <1>1, Whole
  <1>16. RcCommands \o RcFirstRound \o RcSync \o RcFinal
           \o PostReport \o LastPhase = FullRcPhases
    BY <1>9, <1>10, <1>11, <1>12, <1>13, <1>14, <1>15
  <1> QED BY <1>16 DEF AlphaRcProgram, LastPhase

(* The phases of the beta gate, from first to last. *)
BetaGatePhases ==
  <<"lock", "quick_gate", "full_gate", "alpha_rc", "smoke", "commands",
    "conclude", "manifest", "fresh", "conclude", "manifest", "fresh", "sync",
    "verify", "conclude", "manifest", "fresh_gate", "post_sync",
    "post_verify", "post_conclude", "exit">>

(* main of run_beta_release_gate.py, phase by phase.                          *)
LEMMA BetaGateSpelled ==
  BetaGateProgram = BetaGatePhases
  <1>1. Piece(BetaGatePhases, 21) BY DEF Piece, Phases, BetaGatePhases
  <1>2. /\ \A i \in 1 .. 1 : BetaGatePhases[i] = BetaSetup[i]
        /\ \A i \in 1 .. 3 : BetaGatePhases[1 + i] = BetaAlphaGates[i]
        /\ \A i \in 1 .. 2 : BetaGatePhases[4 + i] = BetaCommands[i]
        /\ \A i \in 1 .. 4 : BetaGatePhases[6 + i] = BetaFirstRound[i]
        /\ \A i \in 1 .. 4 : BetaGatePhases[10 + i] = BetaSync[i]
        /\ \A i \in 1 .. 3 : BetaGatePhases[14 + i] = BetaFinal[i]
        /\ \A i \in 1 .. 3 : BetaGatePhases[17 + i] = BetaPost[i]
        /\ \A i \in 1 .. 1 : BetaGatePhases[20 + i] = LastPhase[i]
    BY DEF BetaGatePhases, BetaSetup, BetaAlphaGates, BetaCommands, BetaFirstRound,
        BetaSync, BetaFinal, BetaPost, LastPhase
  <1>3. Continues(BetaGatePhases, 0, BetaSetup, 1) BY <1>1, <1>2, Pieces DEF Continues
  <1>4. Continues(BetaGatePhases, 1, BetaAlphaGates, 4) BY <1>1, <1>2, Pieces DEF Continues
  <1>5. Continues(BetaGatePhases, 4, BetaCommands, 6) BY <1>1, <1>2, Pieces DEF Continues
  <1>6. Continues(BetaGatePhases, 6, BetaFirstRound, 10) BY <1>1, <1>2, Pieces DEF Continues
  <1>7. Continues(BetaGatePhases, 10, BetaSync, 14) BY <1>1, <1>2, Pieces DEF Continues
  <1>8. Continues(BetaGatePhases, 14, BetaFinal, 17) BY <1>1, <1>2, Pieces DEF Continues
  <1>9. Continues(BetaGatePhases, 17, BetaPost, 20) BY <1>1, <1>2, Pieces DEF Continues
  <1>10. Continues(BetaGatePhases, 20, LastPhase, 21) BY <1>1, <1>2, Pieces DEF Continues
  <1>11. BetaSetup = Front(BetaGatePhases, 1) BY <1>3, Begin
  <1>12. Front(BetaGatePhases, 1) \o BetaAlphaGates = Front(BetaGatePhases, 4) BY <1>4, Extend
  <1>13. Front(BetaGatePhases, 4) \o BetaCommands = Front(BetaGatePhases, 6) BY <1>5, Extend
  <1>14. Front(BetaGatePhases, 6) \o BetaFirstRound = Front(BetaGatePhases, 10) BY <1>6, Extend
  <1>15. Front(BetaGatePhases, 10) \o BetaSync = Front(BetaGatePhases, 14) BY <1>7, Extend
  <1>16. Front(BetaGatePhases, 14) \o BetaFinal = Front(BetaGatePhases, 17) BY <1>8, Extend
  <1>17. Front(BetaGatePhases, 17) \o BetaPost = Front(BetaGatePhases, 20) BY <1>9, Extend
  <1>18. Front(BetaGatePhases, 20) \o LastPhase = Front(BetaGatePhases, 21) BY <1>10, Extend
  <1>19. Front(BetaGatePhases, 21) = BetaGatePhases BY <1>1, Whole
  <1>20. BetaSetup \o BetaAlphaGates \o BetaCommands \o BetaFirstRound
           \o BetaSync \o BetaFinal \o BetaPost \o LastPhase = BetaGatePhases
    BY <1>11, <1>12, <1>13, <1>14, <1>15, <1>16, <1>17, <1>18, <1>19
  <1> QED BY <1>20 DEF BetaGateProgram, LastPhase

(* The phases of the beta candidate, from first to last. *)
BetaRcPhases ==
  <<"beta_gate", "conclude", "manifest", "fresh", "conclude", "manifest",
    "fresh", "sync", "verify", "conclude", "manifest", "fresh", "post_sync",
    "post_verify", "post_conclude", "exit">>

(* main of run_beta_release_candidate.py, phase by phase.                     *)
LEMMA BetaRcSpelled ==
  BetaRcProgram = BetaRcPhases
  <1>1. Piece(BetaRcPhases, 16) BY DEF Piece, Phases, BetaRcPhases
  <1>2. /\ \A i \in 1 .. 1 : BetaRcPhases[i] = BetaRcGate[i]
        /\ \A i \in 1 .. 4 : BetaRcPhases[1 + i] = BetaRcFirstRound[i]
        /\ \A i \in 1 .. 4 : BetaRcPhases[5 + i] = BetaRcSync[i]
        /\ \A i \in 1 .. 3 : BetaRcPhases[9 + i] = BetaRcFinal[i]
        /\ \A i \in 1 .. 3 : BetaRcPhases[12 + i] = BetaRcPost[i]
        /\ \A i \in 1 .. 1 : BetaRcPhases[15 + i] = LastPhase[i]
    BY DEF BetaRcPhases, BetaRcGate, BetaRcFirstRound, BetaRcSync, BetaRcFinal, BetaRcPost,
        LastPhase
  <1>3. Continues(BetaRcPhases, 0, BetaRcGate, 1) BY <1>1, <1>2, Pieces DEF Continues
  <1>4. Continues(BetaRcPhases, 1, BetaRcFirstRound, 5) BY <1>1, <1>2, Pieces DEF Continues
  <1>5. Continues(BetaRcPhases, 5, BetaRcSync, 9) BY <1>1, <1>2, Pieces DEF Continues
  <1>6. Continues(BetaRcPhases, 9, BetaRcFinal, 12) BY <1>1, <1>2, Pieces DEF Continues
  <1>7. Continues(BetaRcPhases, 12, BetaRcPost, 15) BY <1>1, <1>2, Pieces DEF Continues
  <1>8. Continues(BetaRcPhases, 15, LastPhase, 16) BY <1>1, <1>2, Pieces DEF Continues
  <1>9. BetaRcGate = Front(BetaRcPhases, 1) BY <1>3, Begin
  <1>10. Front(BetaRcPhases, 1) \o BetaRcFirstRound = Front(BetaRcPhases, 5) BY <1>4, Extend
  <1>11. Front(BetaRcPhases, 5) \o BetaRcSync = Front(BetaRcPhases, 9) BY <1>5, Extend
  <1>12. Front(BetaRcPhases, 9) \o BetaRcFinal = Front(BetaRcPhases, 12) BY <1>6, Extend
  <1>13. Front(BetaRcPhases, 12) \o BetaRcPost = Front(BetaRcPhases, 15) BY <1>7, Extend
  <1>14. Front(BetaRcPhases, 15) \o LastPhase = Front(BetaRcPhases, 16) BY <1>8, Extend
  <1>15. Front(BetaRcPhases, 16) = BetaRcPhases BY <1>1, Whole
  <1>16. BetaRcGate \o BetaRcFirstRound \o BetaRcSync \o BetaRcFinal
           \o BetaRcPost \o LastPhase = BetaRcPhases
    BY <1>9, <1>10, <1>11, <1>12, <1>13, <1>14, <1>15
  <1> QED BY <1>16 DEF BetaRcProgram, LastPhase

-----------------------------------------------------------------------------
(* What every program has in common                                           *)

(* Phases by what they leave behind: a manifest, a report in the JSON, a      *)
(* verdict in memory.                                                         *)
ManifestPhases == {"manifest", "final_manifest", "remanifest", "preset_manifest"}
WritePhases == {"blank_report", "conclude", "final_conclude", "preset_write", "json",
                "post_conclude", "freeze_write"}
VerdictPhases == {"conclude", "final_conclude", "verdict", "post_conclude", "freeze_write"}

EndsWithExit(s) == s \in Seq(Phases) /\ Len(s) > 0 /\ s[Len(s)] = "exit"
(* A report is written before the end, and no verdict comes after the last one. *)
ReportsVerdict(s) == \A n \in 1 .. Len(s) : s[n] = "exit" =>
    \E i \in 1 .. n - 1 : s[i] \in WritePhases /\ \A j \in i + 1 .. n - 1 : s[j] # "verdict"
(* Nothing is copied before a manifest was written. *)
ManifestFirst(s) == \A n \in 1 .. Len(s) : s[n] \in {"sync", "post_sync"} =>
    \E i \in 1 .. n - 1 : s[i] \in ManifestPhases
(* Nested tools are run before the first verdict. *)
ChildrenFirst(s) == \A n \in 1 .. Len(s) : s[n] \in ChildPhases =>
    \A i \in 1 .. n - 1 : s[i] \notin VerdictPhases
Shaped(s) == EndsWithExit(s) /\ ReportsVerdict(s) /\ ManifestFirst(s) /\ ChildrenFirst(s)

(* The quick alpha gate has the common shape.                                 *)
LEMMA QuickGateShaped == Shaped(QuickGatePhases)
  <1>1. EndsWithExit(QuickGatePhases) BY DEF EndsWithExit, Phases, QuickGatePhases
  <1>2. ReportsVerdict(QuickGatePhases) BY DEF ReportsVerdict, WritePhases, QuickGatePhases
  <1>3. ManifestFirst(QuickGatePhases) BY DEF ManifestFirst, ManifestPhases, QuickGatePhases
  <1>4. ChildrenFirst(QuickGatePhases)
    BY DEF ChildrenFirst, ChildPhases, VerdictPhases, QuickGatePhases
  <1> QED BY <1>1, <1>2, <1>3, <1>4 DEF Shaped

(* The full alpha gate has the common shape.                                  *)
LEMMA FullGateShaped == Shaped(FullGatePhases)
  <1>1. EndsWithExit(FullGatePhases) BY DEF EndsWithExit, Phases, FullGatePhases
  <1>2. ReportsVerdict(FullGatePhases) BY DEF ReportsVerdict, WritePhases, FullGatePhases
  <1>3. ManifestFirst(FullGatePhases) BY DEF ManifestFirst, ManifestPhases, FullGatePhases
  <1>4. ChildrenFirst(FullGatePhases)
    BY DEF ChildrenFirst, ChildPhases, VerdictPhases, FullGatePhases
  <1> QED BY <1>1, <1>2, <1>3, <1>4 DEF Shaped

(* The local alpha candidate has the common shape.                            *)
LEMMA LocalRcShaped == Shaped(LocalRcPhases)
  <1>1. EndsWithExit(LocalRcPhases) BY DEF EndsWithExit, Phases, LocalRcPhases
  <1>2. ReportsVerdict(LocalRcPhases) BY DEF ReportsVerdict, WritePhases, LocalRcPhases
  <1>3. ManifestFirst(LocalRcPhases) BY DEF ManifestFirst, ManifestPhases, LocalRcPhases
  <1>4. ChildrenFirst(LocalRcPhases) BY DEF ChildrenFirst, ChildPhases, VerdictPhases, LocalRcPhases
  <1> QED BY <1>1, <1>2, <1>3, <1>4 DEF Shaped

(* The remote alpha candidate has the common shape.                           *)
LEMMA FullRcShaped == Shaped(FullRcPhases)
  <1>1. EndsWithExit(FullRcPhases) BY DEF EndsWithExit, Phases, FullRcPhases
  <1>2. ReportsVerdict(FullRcPhases) BY DEF ReportsVerdict, WritePhases, FullRcPhases
  <1>3. ManifestFirst(FullRcPhases) BY DEF ManifestFirst, ManifestPhases, FullRcPhases
  <1>4. ChildrenFirst(FullRcPhases) BY DEF ChildrenFirst, ChildPhases, VerdictPhases, FullRcPhases
  <1> QED BY <1>1, <1>2, <1>3, <1>4 DEF Shaped

(* The beta gate has the common shape.                                        *)
LEMMA BetaGateShaped == Shaped(BetaGatePhases)
  <1>1. EndsWithExit(BetaGatePhases) BY DEF EndsWithExit, Phases, BetaGatePhases
  <1>2. ReportsVerdict(BetaGatePhases) BY DEF ReportsVerdict, WritePhases, BetaGatePhases
  <1>3. ManifestFirst(BetaGatePhases) BY DEF ManifestFirst, ManifestPhases, BetaGatePhases
  <1>4. ChildrenFirst(BetaGatePhases)
    BY DEF ChildrenFirst, ChildPhases, VerdictPhases, BetaGatePhases
  <1> QED BY <1>1, <1>2, <1>3, <1>4 DEF Shaped

(* The beta candidate has the common shape.                                   *)
LEMMA BetaRcShaped == Shaped(BetaRcPhases)
  <1>1. EndsWithExit(BetaRcPhases) BY DEF EndsWithExit, Phases, BetaRcPhases
  <1>2. ReportsVerdict(BetaRcPhases) BY DEF ReportsVerdict, WritePhases, BetaRcPhases
  <1>3. ManifestFirst(BetaRcPhases) BY DEF ManifestFirst, ManifestPhases, BetaRcPhases
  <1>4. ChildrenFirst(BetaRcPhases) BY DEF ChildrenFirst, ChildPhases, VerdictPhases, BetaRcPhases
  <1> QED BY <1>1, <1>2, <1>3, <1>4 DEF Shaped

-----------------------------------------------------------------------------
(* The invariant                                                              *)

Outcomes == {"none", "ok", "fail", "refused", "crash", "killed"}
IsGate(p) == Kind[p] \in {"alpha_gate", "beta_gate"}
Phase(p) == Program[p][pc[p]]

(* The part of its program a run has behind it.                               *)
Past(p) == 1 .. pc[p] - 1
HasManifest(p) == \E i \in Past(p) : Program[p][i] \in ManifestPhases
HasReport(p) == \E i \in Past(p) :
    Program[p][i] \in WritePhases /\ \A j \in i + 1 .. pc[p] - 1 : Program[p][j] # "verdict"

(* Types.  A run that works is somewhere in its program.                      *)
TreeTypes ==
    /\ local = [f \in File |-> local[f]] /\ remote = [f \in File |-> remote[f]]
    /\ \A p \in Procs : local[Json(p)] \in Reports \cup {Absent}
ProcTypes ==
    /\ pc \in [Procs -> Nat] /\ rc \in [Procs -> Outcomes]
    /\ lock \in [{"alpha", "beta"} -> Procs \cup {Absent}]
    /\ run \in [Procs -> Runs] /\ report \in [Procs -> Reports]
    /\ leaked \in [Procs -> BOOLEAN]
    /\ \A p \in Procs : Running(p) => pc[p] \in 1 .. Len(Program[p])
TypeInv == TreeTypes /\ ProcTypes

(* A gate past its first phase holds its lock (acquire_gate_lock).            *)
LockInv == \A p \in Procs : IsGate(p) /\ Working(p) => lock[LockOf(p)] = p

(* A manifest that was written lists nothing validate_artifact_path refuses.  *)
ManifestInv == \A p \in Procs : HasManifest(p) =>
    \A f \in DOMAIN local[Manifest(p)] : ValidArtifact(f)

(* Once a report was written, the JSON and the memory of a run say the same   *)
(* of its success, but between the verdict of the alpha candidate and the     *)
(* report that carries it.                                                    *)
SameVerdict(p) == Exists(Json(p)) /\ local[Json(p)].passed = report[p].passed
ReportInv == \A p \in Procs : Running(p) /\ HasReport(p) => SameVerdict(p)

(* A nested run that did not succeed is a failed step, and a verdict that     *)
(* passes has counted the steps.  (The beta candidate may package a gate that *)
(* was run before.)                                                           *)
ChildInv == \A p \in Procs : Kind[p] # "beta_rc" /\ Running(p) =>
    \A i \in Past(p) : Program[p][i] \in ChildPhases =>
        run[p].stepFailed \/ rc[Launch[<<p, Program[p][i]>>]] = "ok"
VerdictInv == \A p \in Procs : Kind[p] # "beta_rc" /\ report[p].passed =>
    \A q \in Nested(p) : rc[q] = "ok"

ControlInv == LockInv /\ ManifestInv /\ ReportInv /\ ChildInv /\ VerdictInv
                /\ StatusAgreesWithReport /\ SuccessNeedsNested
ToolsInv == TypeInv /\ ControlInv /\ PrivateStaysLocal

-----------------------------------------------------------------------------
(* What a step of one run does to the others, and what it may do itself       *)

Untouched(q) == /\ pc'[q] = pc[q] /\ rc'[q] = rc[q] /\ run'[q] = run[q] /\ report'[q] = report[q]
                /\ local'[Json(q)] = local[Json(q)] /\ local'[Manifest(q)] = local[Manifest(q)]
Only(p) == /\ \A q \in Procs \ {p} : Untouched(q)
           /\ \A k \in DOMAIN lock : lock[k] \notin {p, Absent} => lock'[k] = lock[k]

(* It goes on to the next phase.                                              *)
Advanced(p) ==
    /\ Running(p) /\ Phase(p) # "exit" /\ pc'[p] = pc[p] + 1 /\ rc'[p] = rc[p]
    /\ IF Phase(p) \in ManifestPhases
       THEN \A f \in DOMAIN local'[Manifest(p)] : ValidArtifact(f)
       ELSE local'[Manifest(p)] = local[Manifest(p)]
    /\ \/ local'[Json(p)] # Absent /\ local'[Json(p)].passed = report'[p].passed
       \/ Phase(p) = "verdict"
       \/ /\ Phase(p) \notin WritePhases
          /\ local'[Json(p)] = local[Json(p)] /\ report'[p].passed = report[p].passed
    /\ run[p].stepFailed => run'[p].stepFailed
    /\ Phase(p) \in ChildPhases /\ Kind[p] # "beta_rc" =>
         run'[p].stepFailed \/ rc[Launch[<<p, Phase(p)>>]] = "ok"
    /\ report'[p].passed => \/ report[p].passed
                            \/ Kind[p] \in {"freeze", "beta_rc"}
                            \/ Phase(p) \in VerdictPhases /\ ~run[p].stepFailed
    /\ IsGate(p) /\ (pc[p] = 1 => Phase(p) = "lock") /\ (pc[p] > 1 => lock[LockOf(p)] = p)
         => lock'[LockOf(p)] = p

(* It ends.                                                                   *)
Ended(p) ==
    /\ Running(p) /\ pc'[p] = pc[p] /\ rc'[p] # "none" /\ ~report'[p].passed
    /\ local'[Manifest(p)] = local[Manifest(p)]
    /\ rc'[p] \in {"ok", "fail"} =>
         \/ /\ Phase(p) = "exit" /\ local'[Json(p)] = local[Json(p)]
            /\ rc'[p] = IF report[p].passed THEN "ok" ELSE "fail"
         \/ rc'[p] = "fail" /\ local'[Json(p)] # Absent /\ ~local'[Json(p)].passed

(* It is started.                                                             *)
Started(p) == /\ pc[p] = 0 /\ pc'[p] = 1 /\ rc'[p] = rc[p] /\ run'[p] = run[p]
              /\ report'[p] = report[p] /\ local' = local

(* The freeze check has the common shape.                                     *)
LEMMA FreezeShaped == Shaped(FreezeProgram)
  <1>1. EndsWithExit(FreezeProgram) BY DEF EndsWithExit, Phases, FreezeProgram
  <1>2. ReportsVerdict(FreezeProgram) BY DEF ReportsVerdict, WritePhases, FreezeProgram
  <1>3. ManifestFirst(FreezeProgram) BY DEF ManifestFirst, ManifestPhases, FreezeProgram
  <1>4. ChildrenFirst(FreezeProgram) BY DEF ChildrenFirst, ChildPhases, VerdictPhases, FreezeProgram
  <1> QED BY <1>1, <1>2, <1>3, <1>4 DEF Shaped

(* Every tool's program has this shape; a gate's starts with the lock, and    *)
(* the freeze check runs no other tool.                                       *)
LEMMA ProgramShape ==
  ASSUME NEW p \in Procs
  PROVE  /\ Shaped(Program[p])
         /\ IsGate(p) => Program[p][1] = "lock"
         /\ Kind[p] = "freeze" => Program[p] = FreezeProgram
         /\ Kind[p] = "freeze" => Nested(p) = {}
  <1>1. Program[p] = ProgramOf(Kind[p], Mode[p]) BY DEF Program
  <1>2. Kind[p] \in Kinds /\ Mode[p] \in {"quick", "full", "reuse"}
    BY ProcsAssumption, ToolsAssumption
  <1>3. CASE Kind[p] = "alpha_gate"
    <2>1. Program[p] = AlphaGateProgram(Mode[p]) BY <1>1, <1>3 DEF ProgramOf
    <2>2. CASE Mode[p] = "quick"
      <3>1. Program[p] = QuickGatePhases BY <2>1, <2>2, QuickGateSpelled
      <3>2. QuickGatePhases[1] = "lock" BY DEF QuickGatePhases
      <3> QED BY <1>3, <3>1, <3>2, QuickGateShaped
    <2>3. CASE Mode[p] # "quick"
      <3>1. Program[p] = FullGatePhases BY <2>1, <2>3, FullGateSpelled
      <3>2. FullGatePhases[1] = "lock" BY DEF FullGatePhases
      <3> QED BY <1>3, <3>1, <3>2, FullGateShaped
    <2> QED BY <2>2, <2>3
  <1>4. CASE Kind[p] = "alpha_rc"
    <2>1. Program[p] = AlphaRcProgram(Mode[p]) BY <1>1, <1>4 DEF ProgramOf
    <2>2. Program[p] \in {LocalRcPhases, FullRcPhases} BY <2>1, LocalRcSpelled, FullRcSpelled
    <2> QED BY <1>4, <2>2, LocalRcShaped, FullRcShaped DEF IsGate
  <1>5. CASE Kind[p] = "beta_gate"
    <2>1. Program[p] = BetaGatePhases BY <1>1, <1>5, BetaGateSpelled DEF ProgramOf
    <2>2. BetaGatePhases[1] = "lock" BY DEF BetaGatePhases
    <2> QED BY <1>5, <2>1, <2>2, BetaGateShaped
  <1>6. CASE Kind[p] = "beta_rc"
    <2>1. Program[p] = BetaRcPhases BY <1>1, <1>6, BetaRcSpelled DEF ProgramOf
    <2> QED BY <1>6, <2>1, BetaRcShaped DEF IsGate
  <1>7. CASE Kind[p] = "freeze"
    <2>1. Program[p] = FreezeProgram BY <1>1, <1>7 DEF ProgramOf
    <2>2. \A n \in DOMAIN FreezeProgram : FreezeProgram[n] \notin ChildPhases
      BY DEF FreezeProgram, ChildPhases
    <2>3. Nested(p) = {} BY <2>1, <2>2, LaunchAssumption DEF Nested
    <2> QED BY <1>7, <2>1, <2>3, FreezeShaped DEF IsGate
  <1> QED BY <1>2, <1>3, <1>4, <1>5, <1>6, <1>7 DEF Kinds

(* A run goes on only where its program does.                                 *)
LEMMA AtPhase ==
  ASSUME NEW p \in Procs, TypeInv, Running(p)
  PROVE  /\ pc[p] \in 1 .. Len(Program[p]) /\ Len(Program[p]) \in Nat
         /\ Phase(p) \in Phases
         /\ Phase(p) # "exit" => pc[p] + 1 \in 1 .. Len(Program[p])
  <1>1. pc[p] \in 1 .. Len(Program[p]) BY DEF TypeInv, ProcTypes
  <1>2. EndsWithExit(Program[p]) BY ProgramShape DEF Shaped
  <1> QED BY <1>1, <1>2 DEF EndsWithExit, Phase

(* At a verdict every nested tool has been run: its phase is behind.          *)
LEMMA NestedPast ==
  ASSUME NEW p \in Procs, TypeInv, Running(p), Phase(p) \in VerdictPhases, NEW q \in Nested(p)
  PROVE  \E i \in Past(p) : Program[p][i] \in ChildPhases /\ q = Launch[<<p, Program[p][i]>>]
  <1>1. PICK phase \in ChildPhases : <<p, phase>> \in DOMAIN Launch /\ Launch[<<p, phase>>] = q
    BY DEF Nested
  <1>2. PICK n \in DOMAIN Program[p] : Program[p][n] = phase BY <1>1, LaunchAssumption
  <1>3. EndsWithExit(Program[p]) /\ ChildrenFirst(Program[p]) BY ProgramShape DEF Shaped
  <1>4. n \in 1 .. Len(Program[p]) /\ pc[p] \in 1 .. Len(Program[p]) /\ Len(Program[p]) \in Nat
    BY <1>2, <1>3, AtPhase DEF EndsWithExit
  <1>5. ~(pc[p] < n) BY <1>2, <1>3, <1>4 DEF ChildrenFirst, Phase
  <1>6. n # pc[p] BY <1>2 DEF Phase, ChildPhases, VerdictPhases
  <1>7. n \in Past(p) BY <1>4, <1>5, <1>6 DEF Past
  <1> QED BY <1>1, <1>2, <1>7

(* A run that goes on to its next phase keeps the control invariant.          *)
LEMMA AdvanceKeeps ==
  ASSUME NEW p \in Procs, TypeInv, TypeInv', ControlInv, Only(p), Advanced(p)
  PROVE  ControlInv'
  <1>1. pc \in [Procs -> Nat] /\ pc' \in [Procs -> Nat] /\ pc[p] > 0 /\ rc[p] = "none"
    BY DEF TypeInv, ProcTypes, Advanced, Running
  <1>2. \A q \in Procs : rc'[q] = rc[q] BY DEF Only, Untouched, Advanced
  <1>3. \A q \in Procs \ {p} : Untouched(q) BY DEF Only
  <1>4. pc[p] \in 1 .. Len(Program[p]) /\ Len(Program[p]) \in Nat BY AtPhase DEF Advanced
  <1>5. Past(p)' = Past(p) \cup {pc[p]} BY <1>1 DEF Past, Advanced
  <1>6. LockInv'
    <2> SUFFICES ASSUME NEW q \in Procs, IsGate(q), Working(q)'
                 PROVE  lock'[LockOf(q)] = q
      BY DEF LockInv, IsGate, LockOf
    <2>1. LockOf(q) \in DOMAIN lock BY DEF TypeInv, ProcTypes, LockOf
    <2>2. CASE q # p
      <3>1. Working(q) BY <2>2, <1>3 DEF Working, Running, Untouched
      <3>2. lock[LockOf(q)] = q BY <3>1 DEF ControlInv, LockInv
      <3> QED BY <2>1, <2>2, <3>2, ProcsAssumption DEF Only
    <2>3. CASE q = p
      <3>1. pc[p] = 1 => Phase(p) = "lock" BY <2>3, ProgramShape DEF Phase
      <3>2. pc[p] > 1 => lock[LockOf(p)] = p
        BY <2>3 DEF ControlInv, LockInv, Working, Advanced
      <3> QED BY <2>3, <3>1, <3>2 DEF Advanced
    <2> QED BY <2>2, <2>3
  <1>7. ManifestInv'
    <2> SUFFICES ASSUME NEW q \in Procs, HasManifest(q)'
                 PROVE  \A f \in DOMAIN local'[Manifest(q)] : ValidArtifact(f)
      BY DEF ManifestInv, ValidArtifact, Manifest
    <2>1. CASE q # p BY <2>1, <1>3 DEF ControlInv, ManifestInv, HasManifest, Past, Untouched
    <2>2. CASE q = p /\ Phase(p) \in ManifestPhases BY <2>2 DEF Advanced
    <2>3. CASE q = p /\ Phase(p) \notin ManifestPhases
      <3>1. HasManifest(p) BY <2>3, <1>5 DEF HasManifest, Phase
      <3> QED BY <2>3, <3>1 DEF ControlInv, ManifestInv, Advanced
    <2> QED BY <2>1, <2>2, <2>3
  <1>8. ReportInv'
    <2> SUFFICES ASSUME NEW q \in Procs, Running(q)', HasReport(q)'
                 PROVE  local'[Json(q)] # Absent /\ local'[Json(q)].passed = report'[q].passed
      BY DEF ReportInv, SameVerdict, Exists, Json
    <2>1. CASE q # p
      <3>1. Running(q) /\ HasReport(q) BY <2>1, <1>3 DEF Running, HasReport, Past, Untouched
      <3>2. SameVerdict(q) BY <3>1 DEF ControlInv, ReportInv
      <3> QED BY <2>1, <3>2, <1>3 DEF SameVerdict, Exists, Untouched
    <2>2. CASE q = p
      <3>1. PICK i \in 1 .. pc[p] : /\ Program[p][i] \in WritePhases
                                    /\ \A j \in i + 1 .. pc[p] : Program[p][j] # "verdict"
        BY <2>2, <1>1 DEF HasReport, Past, Advanced
      <3>2. i = pc[p] => Phase(p) \in WritePhases BY <3>1 DEF Phase
      <3>3. i < pc[p] => Phase(p) # "verdict" /\ HasReport(p)
        BY <3>1, <1>1 DEF Phase, HasReport, Past
      <3>4. Phase(p) # "verdict" BY <3>1, <3>2, <3>3, <1>1 DEF WritePhases
      <3>5. CASE Phase(p) \notin WritePhases
        <4>1. HasReport(p) BY <3>1, <3>2, <3>3, <3>5, <1>1
        <4>2. SameVerdict(p) BY <4>1 DEF ControlInv, ReportInv, Advanced
        <4> QED BY <2>2, <3>4, <4>2 DEF SameVerdict, Exists, Advanced
      <3>6. CASE Phase(p) \in WritePhases BY <2>2, <3>4, <3>6 DEF Advanced
      <3> QED BY <3>5, <3>6
    <2> QED BY <2>1, <2>2
  <1>9. ChildInv'
    <2> SUFFICES ASSUME NEW q \in Procs, Kind[q] # "beta_rc", Running(q)',
                        NEW i \in Past(q)', Program[q][i] \in ChildPhases
                 PROVE  run'[q].stepFailed \/ rc'[Launch[<<q, Program[q][i]>>]] = "ok"
      BY DEF ChildInv
    <2>1. DOMAIN Program[q] = 1 .. Len(Program[q]) BY ProgramShape DEF Shaped, EndsWithExit
    <2>2. Launch[<<q, Program[q][i]>>] \in Procs
      <3>1. i \in 1 .. Len(Program[q])
        BY <2>1, AtPhase DEF TypeInv, ProcTypes, Past
      <3> QED BY <2>1, <3>1, LaunchAssumption
    <2>3. CASE q # p
      <3>1. Running(q) /\ i \in Past(q) BY <2>3, <1>3 DEF Running, Past, Untouched
      <3> QED BY <2>2, <2>3, <3>1, <1>2, <1>3 DEF ControlInv, ChildInv, Untouched
    <2>4. CASE q = p /\ i = pc[p] BY <2>2, <2>4, <1>2 DEF Advanced, Phase
    <2>5. CASE q = p /\ i # pc[p]
      <3>1. i \in Past(p) BY <2>5, <1>5
      <3> QED BY <2>2, <2>5, <3>1, <1>2 DEF ControlInv, ChildInv, Advanced
    <2> QED BY <2>3, <2>4, <2>5
  <1>10. VerdictInv'
    <2> SUFFICES ASSUME NEW q \in Procs, Kind[q] # "beta_rc", report'[q].passed,
                        NEW c \in Nested(q)
                 PROVE  rc'[c] = "ok"
      BY DEF VerdictInv, Nested
    <2>1. c \in Procs BY DEF Nested
    <2>2. CASE report[q].passed BY <2>1, <2>2, <1>2 DEF ControlInv, VerdictInv
    <2>3. CASE q = p /\ ~report[p].passed
      <3>1. Phase(p) \in VerdictPhases /\ ~run[p].stepFailed
        BY <2>3, ProgramShape DEF Advanced
      <3>2. PICK i \in Past(p) : Program[p][i] \in ChildPhases /\ c = Launch[<<p, Program[p][i]>>]
        BY <2>3, <3>1, NestedPast DEF Advanced
      <3>3. rc[c] = "ok" BY <2>3, <3>1, <3>2 DEF ControlInv, ChildInv, Advanced
      <3> QED BY <2>1, <3>3, <1>2
    <2>4. q # p => report'[q] = report[q] BY <1>3 DEF Untouched
    <2> QED BY <2>2, <2>3, <2>4
  <1>11. StatusAgreesWithReport'
    <2> SUFFICES ASSUME NEW q \in Procs, rc'[q] \in {"ok", "fail"}
                 PROVE  local'[Json(q)] # Absent /\ (local'[Json(q)].passed <=> rc'[q] = "ok")
      BY DEF StatusAgreesWithReport, Exists, Json
    <2>1. q # p BY <1>1, <1>2
    <2> QED BY <2>1, <1>2, <1>3 DEF ControlInv, StatusAgreesWithReport, Exists, Untouched
  <1>12. SuccessNeedsNested'
    <2>1. \A q \in Procs : Nested(q) \subseteq Procs BY DEF Nested
    <2> QED BY <2>1, <1>2 DEF ControlInv, SuccessNeedsNested, Nested
  <1> QED BY <1>6, <1>7, <1>8, <1>9, <1>10, <1>11, <1>12 DEF ControlInv

(* A run that ends keeps the control invariant: it exits with what its report *)
(* says, or dies without a verdict that passes.                               *)
LEMMA EndKeeps ==
  ASSUME NEW p \in Procs, TypeInv, TypeInv', ControlInv, Only(p), Ended(p)
  PROVE  ControlInv'
  <1>1. pc[p] > 0 /\ rc[p] = "none" /\ rc'[p] # "none" BY DEF Ended, Running
  <1>2. \A q \in Procs : rc[q] = "ok" => rc'[q] = "ok" BY <1>1 DEF Only, Untouched
  <1>3. \A q \in Procs \ {p} : Untouched(q) BY DEF Only
  <1>4. \A q \in Procs : pc'[q] = pc[q] BY <1>3 DEF Untouched, Ended
  <1>5. ASSUME NEW q \in Procs, Running(q)' PROVE q # p /\ Running(q) /\ Past(q)' = Past(q)
    BY <1>1, <1>3, <1>5 DEF Running, Past, Untouched
  <1>6. LockInv'
    <2> SUFFICES ASSUME NEW q \in Procs, IsGate(q), Working(q)'
                 PROVE  lock'[LockOf(q)] = q
      BY DEF LockInv, IsGate, LockOf
    <2>1. LockOf(q) \in DOMAIN lock BY DEF TypeInv, ProcTypes, LockOf
    <2>2. q # p /\ Working(q) BY <1>4, <1>5 DEF Working
    <2>3. lock[LockOf(q)] = q BY <2>2 DEF ControlInv, LockInv
    <2> QED BY <2>1, <2>2, <2>3, ProcsAssumption DEF Only
  <1>7. ManifestInv'
    <2> SUFFICES ASSUME NEW q \in Procs, HasManifest(q)'
                 PROVE  \A f \in DOMAIN local'[Manifest(q)] : ValidArtifact(f)
      BY DEF ManifestInv, ValidArtifact, Manifest
    <2>1. HasManifest(q) BY <1>4 DEF HasManifest, Past
    <2>2. local'[Manifest(q)] = local[Manifest(q)] BY <1>3 DEF Untouched, Ended
    <2> QED BY <2>1, <2>2 DEF ControlInv, ManifestInv
  <1>8. ReportInv'
    <2> SUFFICES ASSUME NEW q \in Procs, Running(q)', HasReport(q)'
                 PROVE  local'[Json(q)] # Absent /\ local'[Json(q)].passed = report'[q].passed
      BY DEF ReportInv, SameVerdict, Exists, Json
    <2>1. q # p /\ Running(q) /\ HasReport(q) BY <1>4, <1>5 DEF HasReport, Past
    <2>2. SameVerdict(q) BY <2>1 DEF ControlInv, ReportInv
    <2> QED BY <2>1, <2>2, <1>3 DEF SameVerdict, Exists, Untouched
  <1>9. ChildInv'
    <2> SUFFICES ASSUME NEW q \in Procs, Kind[q] # "beta_rc", Running(q)',
                        NEW i \in Past(q)', Program[q][i] \in ChildPhases
                 PROVE  run'[q].stepFailed \/ rc'[Launch[<<q, Program[q][i]>>]] = "ok"
      BY DEF ChildInv
    <2>1. q # p /\ Running(q) /\ i \in Past(q) BY <1>5
    <2>2. DOMAIN Program[q] = 1 .. Len(Program[q]) /\ Len(Program[q]) \in Nat
      BY ProgramShape DEF Shaped, EndsWithExit
    <2>3. i \in 1 .. Len(Program[q]) BY <2>1, <2>2, AtPhase DEF Past
    <2>4. Launch[<<q, Program[q][i]>>] \in Procs BY <2>2, <2>3, LaunchAssumption
    <2> QED BY <2>1, <2>4, <1>2, <1>3 DEF ControlInv, ChildInv, Untouched
  <1>10. VerdictInv'
    <2> SUFFICES ASSUME NEW q \in Procs, Kind[q] # "beta_rc", report'[q].passed,
                        NEW c \in Nested(q)
                 PROVE  rc'[c] = "ok"
      BY DEF VerdictInv, Nested
    <2>1. q # p BY DEF Ended
    <2>2. rc[c] = "ok" BY <2>1, <1>3 DEF ControlInv, VerdictInv, Untouched
    <2> QED BY <2>2, <1>2 DEF Nested
  <1>11. StatusAgreesWithReport'
    <2> SUFFICES ASSUME NEW q \in Procs, rc'[q] \in {"ok", "fail"}
                 PROVE  local'[Json(q)] # Absent /\ (local'[Json(q)].passed <=> rc'[q] = "ok")
      BY DEF StatusAgreesWithReport, Exists, Json
    <2>1. CASE q # p BY <2>1, <1>3 DEF ControlInv, StatusAgreesWithReport, Exists, Untouched
    <2>2. CASE q = p /\ Phase(p) = "exit" /\ local'[Json(p)] = local[Json(p)]
                /\ rc'[p] = IF report[p].passed THEN "ok" ELSE "fail"
      <3>1. ReportsVerdict(Program[p]) BY ProgramShape DEF Shaped
      <3>2. pc[p] \in 1 .. Len(Program[p]) BY AtPhase DEF Ended
      <3>3. HasReport(p) BY <2>2, <3>1, <3>2 DEF ReportsVerdict, HasReport, Past, Phase
      <3>4. SameVerdict(p) BY <3>3 DEF ControlInv, ReportInv, Ended
      <3> QED BY <2>2, <3>4 DEF SameVerdict, Exists
    <2>3. CASE q = p /\ rc'[p] = "fail" /\ local'[Json(p)] # Absent /\ ~local'[Json(p)].passed
      BY <2>3
    <2> QED BY <2>1, <2>2, <2>3 DEF Ended
  <1>12. SuccessNeedsNested'
    <2> SUFFICES ASSUME NEW q \in Procs, rc'[q] = "ok", Kind[q] # "beta_rc", NEW c \in Nested(q)
                 PROVE  rc'[c] = "ok"
      BY DEF SuccessNeedsNested, Nested
    <2>1. CASE q # p BY <2>1, <1>2, <1>3 DEF ControlInv, SuccessNeedsNested, Nested, Untouched
    <2>2. CASE q = p
      <3>1. report[p].passed BY <2>2 DEF Ended
      <3> QED BY <2>2, <3>1, <1>2 DEF ControlInv, VerdictInv, Nested
    <2> QED BY <2>1, <2>2
  <1> QED BY <1>6, <1>7, <1>8, <1>9, <1>10, <1>11, <1>12 DEF ControlInv

(* A run that is started keeps the control invariant.                         *)
LEMMA StartKeeps ==
  ASSUME NEW p \in Procs, TypeInv, TypeInv', ControlInv, Only(p), Started(p), lock' = lock
  PROVE  ControlInv'
  <1>1. \A q \in Procs : /\ rc'[q] = rc[q] /\ run'[q] = run[q] /\ report'[q] = report[q]
                         /\ local'[Json(q)] = local[Json(q)]
                         /\ local'[Manifest(q)] = local[Manifest(q)]
    BY DEF Only, Untouched, Started
  <1>2. pc'[p] = 1 /\ \A q \in Procs \ {p} : pc'[q] = pc[q] BY DEF Only, Untouched, Started
  <1>3. ~Working(p)' /\ Past(p)' = {} BY <1>2 DEF Working, Past
  <1>4. ASSUME NEW q \in Procs \ {p} PROVE (Running(q)' <=> Running(q)) /\ Past(q)' = Past(q)
    BY <1>1, <1>2 DEF Running, Past
  <1>5. LockInv' BY <1>2, <1>3, <1>4 DEF ControlInv, LockInv, Working, IsGate, LockOf
  <1>6. ManifestInv'
    BY <1>1, <1>3, <1>4 DEF ControlInv, ManifestInv, HasManifest, ValidArtifact, Manifest
  <1>7. ReportInv'
    <2> SUFFICES ASSUME NEW q \in Procs, Running(q)', HasReport(q)' PROVE SameVerdict(q)'
      BY DEF ReportInv
    <2>1. q # p BY <1>3 DEF HasReport
    <2>2. Running(q) /\ HasReport(q) BY <2>1, <1>2, <1>4 DEF HasReport
    <2> QED BY <2>2, <1>1 DEF ControlInv, ReportInv, SameVerdict, Exists, Json
  <1>8. ChildInv'
    <2> SUFFICES ASSUME NEW q \in Procs, Kind[q] # "beta_rc", Running(q)',
                        NEW i \in Past(q)', Program[q][i] \in ChildPhases
                 PROVE  run'[q].stepFailed \/ rc'[Launch[<<q, Program[q][i]>>]] = "ok"
      BY DEF ChildInv
    <2>1. q # p /\ Running(q) /\ i \in Past(q) BY <1>3, <1>4
    <2>2. DOMAIN Program[q] = 1 .. Len(Program[q]) /\ Len(Program[q]) \in Nat
      BY ProgramShape DEF Shaped, EndsWithExit
    <2>3. i \in 1 .. Len(Program[q]) BY <2>1, <2>2, AtPhase DEF Past
    <2>4. Launch[<<q, Program[q][i]>>] \in Procs BY <2>2, <2>3, LaunchAssumption
    <2> QED BY <2>1, <2>4, <1>1 DEF ControlInv, ChildInv
  <1>9. VerdictInv' BY <1>1 DEF ControlInv, VerdictInv, Nested
  <1>10. StatusAgreesWithReport'
    BY <1>1 DEF ControlInv, StatusAgreesWithReport, Exists, Json
  <1>11. SuccessNeedsNested' BY <1>1 DEF ControlInv, SuccessNeedsNested, Nested
  <1> QED BY <1>5, <1>6, <1>7, <1>8, <1>9, <1>10, <1>11 DEF ControlInv

-----------------------------------------------------------------------------
(* Files and reports                                                          *)

(* The three files of a run are its own, but for the Markdown page the runs   *)
(* of one tool share.                                                         *)
LEMMA Names ==
  ASSUME NEW p \in Procs, NEW q \in Procs
  PROVE  /\ Json(p) \in File /\ Manifest(p) \in File /\ Markdown(p) \in File
         /\ Json(p) # Manifest(q) /\ Json(p) # Markdown(q) /\ Manifest(p) # Markdown(q)
         /\ p # q => Json(p) # Json(q) /\ Manifest(p) # Manifest(q)
         /\ ValidArtifact(Json(p)) /\ ValidArtifact(Manifest(p)) /\ ValidArtifact(Markdown(p))
  <1>1. Kind[p] \in Kinds BY ProcsAssumption
  <1> QED BY <1>1 DEF Json, Manifest, Markdown, File, ValidArtifact

(* A tree has finitely many files (a collection is a finite set).             *)
LEMMA FileIsFinite == IsFiniteSet(File)
  <1>1. IsFiniteSet({"json"}) /\ IsFiniteSet({"manifest"}) /\ IsFiniteSet({"md"})
        /\ IsFiniteSet({"doc"})
    BY FS_Singleton
  <1>2. \A x, y : IsFiniteSet({x, y})
    <2> TAKE x, y
    <2>1. IsFiniteSet({x}) /\ IsFiniteSet({y}) BY FS_Singleton
    <2>2. IsFiniteSet({x} \cup {y}) BY <2>1, FS_Union
    <2>3. {x, y} = {x} \cup {y} OBVIOUS
    <2> QED BY <2>2, <2>3
  <1>3. IsFiniteSet(Kinds)
    <2>1. Kinds = {"alpha_gate", "alpha_rc"} \cup {"beta_gate", "beta_rc"} \cup {"freeze"}
      BY DEF Kinds
    <2>2. IsFiniteSet({"freeze"}) BY FS_Singleton
    <2>3. IsFiniteSet({"alpha_gate", "alpha_rc"}) /\ IsFiniteSet({"beta_gate", "beta_rc"}) BY <1>2
    <2>4. IsFiniteSet({"alpha_gate", "alpha_rc"} \cup {"beta_gate", "beta_rc"}) BY <2>3, FS_Union
    <2> QED BY <2>1, <2>2, <2>4, FS_Union
  <1>4. IsFiniteSet({"json", "manifest"} \X Procs) BY <1>2, FS_Product, ProcsAssumption
  <1>5. IsFiniteSet({"md"} \X Kinds) /\ IsFiniteSet({"doc"} \X Docs)
    BY <1>1, <1>3, FS_Product, DocsAssumption
  <1>6. IsFiniteSet(({"json", "manifest"} \X Procs) \cup ({"md"} \X Kinds))
    BY <1>4, <1>5, FS_Union
  <1> QED BY <1>5, <1>6, FS_Union DEF File

(* Writing a report touches the JSON and the page of its own run only.        *)
LEMMA WriteReport ==
  ASSUME NEW p \in Procs, TreeTypes, NEW r \in Reports, local' = Written(p, r)
  PROVE  /\ local' = [f \in File |-> local'[f]]
         /\ local'[Json(p)] = r /\ local'[Json(p)] # Absent
         /\ \A q \in Procs : local'[Manifest(q)] = local[Manifest(q)]
         /\ \A q \in Procs \ {p} : local'[Json(q)] = local[Json(q)]
         /\ \A q \in Procs : local'[Json(q)] \in Reports \cup {Absent}
  <1>1. local' = [local EXCEPT ![Json(p)] = r, ![Markdown(p)] = r] BY DEF Written
  <1>2. local = [f \in File |-> local[f]] BY DEF TreeTypes
  <1>3. local' = [f \in File |-> IF f \in {Json(p), Markdown(p)} THEN r ELSE local[f]]
    BY <1>1, <1>2
  <1>4. \A q \in Procs : local'[Manifest(q)] = local[Manifest(q)] BY <1>3, Names
  <1>5. \A q \in Procs \ {p} : local'[Json(q)] = local[Json(q)] BY <1>3, Names
  <1>6. local'[Json(p)] = r BY <1>3, Names
  <1> QED BY <1>3, <1>4, <1>5, <1>6, AbsentAssumption DEF TreeTypes

(* The failures of a tool are of the known kinds, and a failed step is always *)
(* one.                                                                       *)
LEMMA FailuresTyped ==
  ASSUME NEW p \in Procs, NEW r \in Reports, Kind[p] # "freeze"
  PROVE  /\ FailuresOf(p, r) \in SUBSET FailureKinds
         /\ FailuresOf(p, r) = {} => ~run[p].stepFailed
  <1>1. Kind[p] \in Kinds BY ProcsAssumption
  <1>2. \A k \in FailureKinds : \A b : Failed(k, b) \in SUBSET FailureKinds /\ (Failed(k, b) = {} => ~b)
    BY DEF Failed
  <1>3. SummaryFailures(p, r) \in SUBSET FailureKinds BY DEF SummaryFailures, Failed, FailureKinds
  <1>4. CASE Kind[p] = "alpha_gate"
    <2>1. FailuresOf(p, r) = AlphaGateFailures(p, r) BY <1>4 DEF FailuresOf
    <2>2. AlphaGateFailures(p, r) \in SUBSET FailureKinds
      BY <1>3 DEF AlphaGateFailures, Failed, FailureKinds
    <2>3. Failed("step", run[p].stepFailed) \subseteq AlphaGateFailures(p, r)
      BY DEF AlphaGateFailures
    <2> QED BY <2>1, <2>2, <2>3 DEF Failed
  <1>5. CASE Kind[p] = "alpha_rc"
    <2>1. FailuresOf(p, r) = AlphaRcFailures(p, r) BY <1>5 DEF FailuresOf
    <2>2. AlphaRcFailures(p, r) \in SUBSET FailureKinds
      BY <1>3 DEF AlphaRcFailures, Failed, FailureKinds
    <2>3. Failed("step", run[p].stepFailed) \subseteq AlphaRcFailures(p, r) BY DEF AlphaRcFailures
    <2> QED BY <2>1, <2>2, <2>3 DEF Failed
  <1>6. CASE Kind[p] = "beta_gate"
    <2>1. FailuresOf(p, r) = BetaGateFailures(p, r) BY <1>6 DEF FailuresOf
    <2>2. BetaGateFailures(p, r) \in SUBSET FailureKinds
      BY <1>3 DEF BetaGateFailures, Failed, FailureKinds
    <2>3. Failed("step", run[p].stepFailed) \subseteq BetaGateFailures(p, r) BY DEF BetaGateFailures
    <2> QED BY <2>1, <2>2, <2>3 DEF Failed
  <1>7. CASE Kind[p] = "beta_rc"
    <2>1. FailuresOf(p, r) = BetaRcFailures(p, r) BY <1>7 DEF FailuresOf
    <2>2. BetaRcFailures(p, r) \in SUBSET FailureKinds
      BY <1>3 DEF BetaRcFailures, Failed, FailureKinds
    <2>3. Failed("step", run[p].stepFailed) \subseteq BetaRcFailures(p, r) BY DEF BetaRcFailures
    <2> QED BY <2>1, <2>2, <2>3 DEF Failed
  <1> QED BY <1>1, <1>4, <1>5, <1>6, <1>7 DEF Kinds

(* A conclusion passes only when no step failed.                              *)
LEMMA ConcludedTyped ==
  ASSUME NEW p \in Procs, NEW r \in Reports, Kind[p] # "freeze"
  PROVE  /\ Concluded(p, r) \in Reports
         /\ Concluded(p, r).passed => ~run[p].stepFailed
  <1> DEFINE fs == FailuresOf(p, r)
  <1>1. fs \in SUBSET FailureKinds /\ (fs = {} => ~run[p].stepFailed) BY FailuresTyped
  <1>2. Concluded(p, r) = [r EXCEPT !.failures = fs, !.passed = (fs = {})] BY DEF Concluded
  <1> HIDE DEF fs
  <1>3. Concluded(p, r) \in Reports BY <1>1, <1>2 DEF Reports
  <1>4. Concluded(p, r).passed <=> fs = {} BY <1>2 DEF Reports
  <1> QED BY <1>1, <1>3, <1>4

(* The freeze check runs neither of the phases that use a tool's own verdict. *)
LEMMA NotFreeze ==
  ASSUME NEW p \in Procs, TypeInv, Running(p), Phase(p) \notin {"freeze_check", "freeze_write", "exit"}
  PROVE  Kind[p] # "freeze"
  <1>1. ASSUME Kind[p] = "freeze" PROVE FALSE
    <2>1. Program[p] = FreezeProgram BY <1>1, ProgramShape
    <2>2. pc[p] \in 1 .. Len(Program[p]) BY AtPhase
    <2>3. Phase(p) \in {"freeze_check", "freeze_write", "exit"}
      BY <2>1, <2>2 DEF Phase, FreezeProgram
    <2> QED BY <2>3
  <1> QED BY <1>1

-----------------------------------------------------------------------------
(* The frame of a step                                                        *)

(* Going on moves the program counter of one run.                             *)
LEMMA AdvanceFrame ==
  ASSUME NEW p \in Procs, TypeInv, Running(p), Phase(p) # "exit", Advance(p), rc' = rc
  PROVE  /\ pc' \in [Procs -> Nat] /\ pc'[p] = pc[p] + 1 /\ rc'[p] = rc[p]
         /\ rc' \in [Procs -> Outcomes]
         /\ \A q \in Procs \ {p} : pc'[q] = pc[q] /\ rc'[q] = rc[q]
         /\ \A q \in Procs : Running(q)' => pc'[q] \in 1 .. Len(Program[q])
  <1>1. pc \in [Procs -> Nat] /\ rc \in [Procs -> Outcomes] BY DEF TypeInv, ProcTypes
  <1>2. pc' = [pc EXCEPT ![p] = pc[p] + 1] BY DEF Advance
  <1>3. pc[p] + 1 \in 1 .. Len(Program[p]) BY AtPhase
  <1>4. \A q \in Procs : Running(q) => pc[q] \in 1 .. Len(Program[q]) BY DEF TypeInv, ProcTypes
  <1>5. \A q \in Procs \ {p} : pc'[q] = pc[q] BY <1>1, <1>2
  <1>6. pc'[p] = pc[p] + 1 BY <1>1, <1>2
  <1>7. \A q \in Procs : Running(q)' => pc'[q] \in 1 .. Len(Program[q])
    BY <1>3, <1>4, <1>5, <1>6 DEF Running
  <1>8. pc' \in [Procs -> Nat] BY <1>1, <1>2
  <1> QED BY <1>1, <1>5, <1>6, <1>7, <1>8

(* Ending touches the exit status, the lock and the verdict of one run.       *)
LEMMA EndFrame ==
  ASSUME NEW p \in Procs, TypeInv, Running(p), NEW o \in Outcomes, o # "none", Ends(p, o),
         leaked' = leaked
  PROVE  /\ ProcTypes' /\ pc' = pc /\ rc'[p] = o /\ ~report'[p].passed
         /\ \A q \in Procs \ {p} : /\ pc'[q] = pc[q] /\ rc'[q] = rc[q]
                                   /\ run'[q] = run[q] /\ report'[q] = report[q]
         /\ \A k \in DOMAIN lock : lock[k] \notin {p, Absent} => lock'[k] = lock[k]
  <1>1. /\ pc \in [Procs -> Nat] /\ rc \in [Procs -> Outcomes]
        /\ lock \in [{"alpha", "beta"} -> Procs \cup {Absent}]
        /\ run \in [Procs -> Runs] /\ report \in [Procs -> Reports]
        /\ leaked \in [Procs -> BOOLEAN]
        /\ \A q \in Procs : Running(q) => pc[q] \in 1 .. Len(Program[q])
    BY DEF TypeInv, ProcTypes
  <1>2. /\ pc' = pc /\ rc' = [rc EXCEPT ![p] = o]
        /\ lock' = [k \in DOMAIN lock |-> IF lock[k] = p THEN Absent ELSE lock[k]]
        /\ run' = [run EXCEPT ![p] = EmptyRun] /\ report' = [report EXCEPT ![p] = EmptyReport]
    BY DEF Ends
  <1>3. EmptyRun \in Runs BY DEF EmptyRun, Runs, Summary
  <1>4. EmptyReport \in Reports /\ ~EmptyReport.passed BY DEF EmptyReport, Reports, Summary
  <1>5. lock' \in [{"alpha", "beta"} -> Procs \cup {Absent}] BY <1>1, <1>2
  <1>6. run' \in [Procs -> Runs] /\ \A q \in Procs \ {p} : run'[q] = run[q] BY <1>1, <1>2, <1>3
  <1>7. /\ report' \in [Procs -> Reports] /\ report'[p] = EmptyReport
        /\ \A q \in Procs \ {p} : report'[q] = report[q]
    BY <1>1, <1>2, <1>4
  <1>8. rc' \in [Procs -> Outcomes] /\ rc'[p] = o /\ \A q \in Procs \ {p} : rc'[q] = rc[q]
    BY <1>1, <1>2
  <1>9. \A q \in Procs : Running(q)' => Running(q) BY <1>2, <1>8 DEF Running
  <1>10. ProcTypes' BY <1>1, <1>2, <1>5, <1>6, <1>7, <1>8, <1>9 DEF ProcTypes
  <1>11. \A k \in DOMAIN lock : lock[k] \notin {p, Absent} => lock'[k] = lock[k] BY <1>2
  <1> QED BY <1>2, <1>4, <1>6, <1>7, <1>8, <1>10, <1>11

(* A step that goes on, with the files, the run and the report it leaves, is  *)
(* a move of its run alone.                                                   *)
LEMMA Going ==
  ASSUME NEW p \in Procs, TypeInv, Running(p), Phase(p) # "exit", Advance(p), rc' = rc,
         TreeTypes', leaked' \in [Procs -> BOOLEAN],
         lock' \in [{"alpha", "beta"} -> Procs \cup {Absent}],
         \A k \in DOMAIN lock : lock[k] \notin {p, Absent} => lock'[k] = lock[k],
         run' \in [Procs -> Runs], report' \in [Procs -> Reports],
         \A q \in Procs \ {p} : /\ run'[q] = run[q] /\ report'[q] = report[q]
                                /\ local'[Json(q)] = local[Json(q)]
                                /\ local'[Manifest(q)] = local[Manifest(q)]
  PROVE  TypeInv' /\ Only(p) /\ pc'[p] = pc[p] + 1 /\ rc'[p] = rc[p]
  <1>1. ProcTypes' BY AdvanceFrame DEF ProcTypes
  <1> QED BY <1>1, AdvanceFrame DEF TypeInv, Only, Untouched

(* The actions that change neither tree. *)
LEMMA SameTree == ASSUME TypeInv, local' = local, remote' = remote PROVE TreeTypes'
  BY DEF TypeInv, TreeTypes, Json

Moved(p) == TypeInv' /\ Only(p) /\ (Advanced(p) \/ Ended(p))

(* acquire_gate_lock, found free: the lock is the run's.                      *)
LEMMA AcquireMoves ==
  ASSUME NEW p \in Procs, TypeInv, AcquireLock(p)
  PROVE  Moved(p)
  <1>1. Running(p) /\ Phase(p) = "lock" BY DEF AcquireLock, At, Phase
  <1>2. /\ Advance(p) /\ rc' = rc /\ local' = local /\ remote' = remote /\ leaked' = leaked
        /\ run' = run /\ report' = report
        /\ lock' = [lock EXCEPT ![LockOf(p)] = p] /\ lock[LockOf(p)] = Absent
    BY DEF AcquireLock, treeVars
  <1>3. TreeTypes' BY <1>2, SameTree
  <1>4. lock \in [{"alpha", "beta"} -> Procs \cup {Absent}] /\ LockOf(p) \in {"alpha", "beta"}
    BY DEF TypeInv, ProcTypes, LockOf
  <1>5. /\ lock' \in [{"alpha", "beta"} -> Procs \cup {Absent}] /\ lock'[LockOf(p)] = p
        /\ \A k \in DOMAIN lock : lock[k] \notin {p, Absent} => lock'[k] = lock[k]
    BY <1>2, <1>4
  <1>6. TypeInv' /\ Only(p) /\ pc'[p] = pc[p] + 1 /\ rc'[p] = rc[p]
    BY <1>1, <1>2, <1>3, <1>5, Going DEF TypeInv, ProcTypes
  <1>7. Advanced(p)
    BY <1>1, <1>2, <1>5, <1>6 DEF Advanced, ManifestPhases, WritePhases, ChildPhases
  <1> QED BY <1>6, <1>7 DEF Moved

(* A run that ends without a word: its files stay as they are. *)
LEMMA QuietEnd ==
  ASSUME NEW p \in Procs, TypeInv, Running(p), NEW o \in {"refused", "crash", "killed"}, Ends(p, o),
         local' = local, remote' = remote, leaked' = leaked
  PROVE  Moved(p)
  <1>1. TreeTypes' BY SameTree
  <1>2. o \in Outcomes /\ o # "none" BY DEF Outcomes
  <1>3. TypeInv' BY <1>1, <1>2, EndFrame DEF TypeInv
  <1>4. Only(p) BY <1>2, EndFrame DEF Only, Untouched
  <1>5. Ended(p) BY <1>2, EndFrame DEF Ended
  <1> QED BY <1>3, <1>4, <1>5 DEF Moved

(* acquire_gate_lock, found taken: the run ends, the lock stays its owner's.  *)
LEMMA RefusedMoves ==
  ASSUME NEW p \in Procs, TypeInv, Refused(p)
  PROVE  Moved(p)
  BY QuietEnd DEF Refused, At, treeVars

(* A run that is killed leaves its files; its lock is free.                   *)
LEMMA KillMoves ==
  ASSUME NEW p \in Procs, TypeInv, Kill(p)
  PROVE  Moved(p)
  BY QuietEnd DEF Kill, treeVars

(* A step that changes the memory of a run only. *)
LEMMA QuietMove ==
  ASSUME NEW p \in Procs, TypeInv, Running(p), Advance(p),
         Phase(p) \notin WritePhases \cup ManifestPhases \cup ChildPhases \cup {"lock", "exit"},
         rc' = rc, lock' = lock, leaked' \in [Procs -> BOOLEAN], TreeTypes',
         \A q \in Procs : /\ local'[Json(q)] = local[Json(q)]
                          /\ local'[Manifest(q)] = local[Manifest(q)],
         NEW s \in Runs, run' = [run EXCEPT ![p] = s], run[p].stepFailed => s.stepFailed,
         NEW r \in Reports, report' = [report EXCEPT ![p] = r],
         r.passed = report[p].passed \/ (Phase(p) = "verdict" /\ (r.passed => ~run[p].stepFailed))
  PROVE  Moved(p)
  <1>1. run \in [Procs -> Runs] /\ report \in [Procs -> Reports] BY DEF TypeInv, ProcTypes
  <1>2. /\ run' \in [Procs -> Runs] /\ run'[p] = s
        /\ \A q \in Procs \ {p} : run'[q] = run[q]
    BY <1>1
  <1>3. /\ report' \in [Procs -> Reports] /\ report'[p] = r
        /\ \A q \in Procs \ {p} : report'[q] = report[q]
    BY <1>1
  <1>4. lock' \in [{"alpha", "beta"} -> Procs \cup {Absent}] BY DEF TypeInv, ProcTypes
  <1>5. TypeInv' /\ Only(p) /\ pc'[p] = pc[p] + 1 /\ rc'[p] = rc[p]
    BY <1>2, <1>3, <1>4, Going
  <1>6. report'[p].passed =>
           report[p].passed \/ (Phase(p) \in VerdictPhases /\ ~run[p].stepFailed)
    BY <1>3 DEF VerdictPhases
  <1>7. IsGate(p) /\ (pc[p] = 1 => Phase(p) = "lock") /\ (pc[p] > 1 => lock[LockOf(p)] = p)
          => lock'[LockOf(p)] = p
    <2>1. pc[p] \in Nat /\ pc[p] > 0 BY DEF TypeInv, ProcTypes, Running
    <2> QED BY <2>1
  <1>8. Advanced(p) BY <1>2, <1>3, <1>5, <1>6, <1>7 DEF Advanced
  <1> QED BY <1>5, <1>8 DEF Moved


(* The phases after the first one leave the lock of a gate alone.             *)
LEMMA KeepsLock ==
  ASSUME NEW p \in Procs, TypeInv, Running(p), Phase(p) # "lock", lock' = lock
  PROVE  IsGate(p) /\ (pc[p] = 1 => Phase(p) = "lock") /\ (pc[p] > 1 => lock[LockOf(p)] = p)
           => lock'[LockOf(p)] = p
  <1>1. pc[p] \in Nat /\ pc[p] > 0 BY DEF TypeInv, ProcTypes, Running
  <1> QED BY <1>1

(* A nested tool returns: its outcome is entered as a step.                   *)
LEMMA ChildMove ==
  ASSUME NEW p \in Procs, TypeInv, Running(p), Advance(p), Phase(p) \in ChildPhases,
         rc' = rc, lock' = lock, local' = local, remote' = remote, leaked' = leaked,
         report' = report, NEW s \in Runs, run' = [run EXCEPT ![p] = s],
         run[p].stepFailed => s.stepFailed,
         Kind[p] # "beta_rc" => s.stepFailed \/ rc[Launch[<<p, Phase(p)>>]] = "ok"
  PROVE  Moved(p)
  <1>1. run \in [Procs -> Runs] BY DEF TypeInv, ProcTypes
  <1>2. /\ run' \in [Procs -> Runs] /\ run'[p] = s
        /\ \A q \in Procs \ {p} : run'[q] = run[q]
    BY <1>1
  <1>3. Phase(p) \notin WritePhases \cup ManifestPhases \cup {"lock", "exit", "verdict"}
    BY DEF ChildPhases, WritePhases, ManifestPhases
  <1>4. TreeTypes' BY SameTree
  <1>5. TypeInv' /\ Only(p) /\ pc'[p] = pc[p] + 1 /\ rc'[p] = rc[p]
    BY <1>2, <1>3, <1>4, Going DEF TypeInv, ProcTypes
  <1>6. Advanced(p) BY <1>2, <1>3, <1>5, KeepsLock DEF Advanced
  <1> QED BY <1>5, <1>6 DEF Moved

(* The report in the JSON becomes the one in memory.                          *)
LEMMA ReportMove ==
  ASSUME NEW p \in Procs, TypeInv, Running(p), Advance(p),
         Phase(p) \notin ManifestPhases \cup ChildPhases \cup {"lock", "exit"},
         rc' = rc, lock' = lock, leaked' = leaked, TreeTypes',
         local'[Json(p)] # Absent,
         \A q \in Procs : local'[Manifest(q)] = local[Manifest(q)],
         \A q \in Procs \ {p} : local'[Json(q)] = local[Json(q)],
         NEW s \in Runs, run' = [run EXCEPT ![p] = s], s.stepFailed = run[p].stepFailed,
         NEW r \in Reports, report' = [report EXCEPT ![p] = r], local'[Json(p)].passed = r.passed,
         r.passed => \/ report[p].passed
                     \/ Kind[p] \in {"freeze", "beta_rc"}
                     \/ Phase(p) \in VerdictPhases /\ ~run[p].stepFailed
  PROVE  Moved(p)
  <1>1. run \in [Procs -> Runs] /\ report \in [Procs -> Reports] BY DEF TypeInv, ProcTypes
  <1>2. /\ run' \in [Procs -> Runs] /\ run'[p] = s
        /\ \A q \in Procs \ {p} : run'[q] = run[q]
    BY <1>1
  <1>3. /\ report' \in [Procs -> Reports] /\ report'[p] = r
        /\ \A q \in Procs \ {p} : report'[q] = report[q]
    BY <1>1
  <1>4. TypeInv' /\ Only(p) /\ pc'[p] = pc[p] + 1 /\ rc'[p] = rc[p]
    BY <1>2, <1>3, Going DEF TypeInv, ProcTypes
  <1>5. Advanced(p) BY <1>2, <1>3, <1>4, KeepsLock DEF Advanced
  <1> QED BY <1>4, <1>5 DEF Moved

(* A tool writes its Markdown and its JSON, and knows what it wrote.          *)
LEMMA WriteMove ==
  ASSUME NEW p \in Procs, TypeInv, Running(p), Advance(p),
         Phase(p) \notin ManifestPhases \cup ChildPhases \cup {"lock", "exit"},
         rc' = rc, lock' = lock, leaked' = leaked, remote' = remote,
         NEW s \in Runs, run' = [run EXCEPT ![p] = s], s.stepFailed = run[p].stepFailed,
         NEW r \in Reports, report' = [report EXCEPT ![p] = r], local' = Written(p, r),
         r.passed => \/ report[p].passed
                     \/ Kind[p] \in {"freeze", "beta_rc"}
                     \/ Phase(p) \in VerdictPhases /\ ~run[p].stepFailed
  PROVE  Moved(p)
  <1>1. TreeTypes BY DEF TypeInv
  <1>2. /\ local' = [f \in File |-> local'[f]]
        /\ local'[Json(p)] = r /\ local'[Json(p)] # Absent
        /\ \A q \in Procs : local'[Manifest(q)] = local[Manifest(q)]
        /\ \A q \in Procs \ {p} : local'[Json(q)] = local[Json(q)]
        /\ \A q \in Procs : local'[Json(q)] \in Reports \cup {Absent}
    BY <1>1, WriteReport
  <1>3. TreeTypes' BY <1>1, <1>2 DEF TreeTypes, Json
  <1> QED BY <1>2, <1>3, ReportMove

(* The record and the report of a run, as records.                            *)
LEMMA Typed ==
  ASSUME NEW p \in Procs, TypeInv
  PROVE  /\ run[p] \in Runs /\ report[p] \in Reports
         /\ run = [run EXCEPT ![p] = run[p]] /\ report = [report EXCEPT ![p] = report[p]]
         /\ run[p].stepFailed \in BOOLEAN /\ report[p].passed \in BOOLEAN
  BY DEF TypeInv, ProcTypes, Runs, Reports

-----------------------------------------------------------------------------
(* The actions, one by one                                                    *)

(* The local commands (run_step) change the record of the run.                *)
LEMMA CommandsMove ==
  ASSUME NEW p \in Procs, TypeInv, RunCommands(p)
  PROVE  Moved(p)
  <1>1. Running(p) /\ Phase(p) = "commands" /\ Advance(p) /\ rc' = rc /\ lock' = lock
        /\ local' = local /\ remote' = remote
    BY DEF RunCommands, At, Phase, treeVars
  <1>2. PICK failed \in BOOLEAN, left \in BOOLEAN, tree \in Trees :
          /\ run' = [run EXCEPT ![p].stepFailed = @ \/ failed \/ ~ExportPasses(tree),
                                ![p].residual = left]
          /\ report' = [report EXCEPT ![p].hygiene = IF ExportPasses(tree) THEN "pass" ELSE "fail"]
          /\ leaked' = [leaked EXCEPT ![p] =
                          ExportPasses(tree) /\ copy_tree(tree) \cap Forbidden # {}]
    BY DEF RunCommands
  <1>3. ExportPasses(tree) \in BOOLEAN BY DEF ExportPasses
  <1> DEFINE b == run[p].stepFailed \/ failed \/ ~ExportPasses(tree)
             h == IF ExportPasses(tree) THEN "pass" ELSE "fail"
             s == [run[p] EXCEPT !.stepFailed = b, !.residual = left]
             r == [report[p] EXCEPT !.hygiene = h]
  <1>4. run[p] \in Runs /\ report[p] \in Reports /\ run \in [Procs -> Runs]
        /\ report \in [Procs -> Reports] /\ leaked \in [Procs -> BOOLEAN]
    BY DEF TypeInv, ProcTypes
  <1>5. b \in BOOLEAN BY <1>3, <1>4 DEF Runs
  <1>6. h \in Summary BY DEF Summary
  <1>7. run' = [run EXCEPT ![p] = s] BY <1>2, <1>4
  <1>8. report' = [report EXCEPT ![p] = r] BY <1>2, <1>4
  <1>9. run[p].stepFailed => b OBVIOUS
  <1>10. leaked' \in [Procs -> BOOLEAN] BY <1>2, <1>3, <1>4
  <1> HIDE DEF b, h
  <1>11. s \in Runs /\ s.stepFailed = b BY <1>4, <1>5 DEF Runs
  <1>12. r \in Reports /\ r.passed = report[p].passed BY <1>4, <1>6 DEF Reports
  <1> HIDE DEF s, r
  <1>13. TreeTypes' BY <1>1, SameTree
  <1> QED BY <1>1, <1>7, <1>8, <1>9, <1>10, <1>11, <1>12, <1>13, QuietMove
          DEF WritePhases, ManifestPhases, ChildPhases

(* The nested matrix changes the record of the run.                           *)
LEMMA MatrixMoves ==
  ASSUME NEW p \in Procs, TypeInv, RunMatrix(p)
  PROVE  Moved(p)
  <1>1. Running(p) /\ Phase(p) = "matrix" /\ local' = local /\ remote' = remote /\ leaked' = leaked
    BY DEF RunMatrix, At, Phase, treeVars
  <1>2. PICK v \in Summary :
          IF v = "none" THEN Ends(p, "crash")
          ELSE /\ run' = [run EXCEPT ![p].stepFailed = @ \/ v = "fail", ![p].matrix = v]
               /\ Advance(p) /\ rc' = rc /\ lock' = lock /\ report' = report
    BY DEF RunMatrix
  <1>3. CASE v = "none" BY <1>1, <1>2, <1>3, QuietEnd
  <1>4. CASE v # "none"
    <2> DEFINE b == run[p].stepFailed \/ v = "fail"
               s == [run[p] EXCEPT !.stepFailed = b, !.matrix = v]
    <2>1. run[p] \in Runs /\ run \in [Procs -> Runs] BY DEF TypeInv, ProcTypes
    <2>2. b \in BOOLEAN /\ (run[p].stepFailed => b) BY <2>1 DEF Runs
    <2>3. run' = [run EXCEPT ![p] = s] BY <1>2, <1>4, <2>1
    <2> HIDE DEF b
    <2>4. s \in Runs /\ s.stepFailed = b BY <2>1, <2>2 DEF Runs
    <2> HIDE DEF s
    <2>5. TreeTypes' /\ leaked' \in [Procs -> BOOLEAN]
      BY <1>1, SameTree DEF TypeInv, ProcTypes
    <2> QED BY <1>1, <1>2, <1>4, <2>2, <2>3, <2>4, <2>5, Typed, QuietMove
            DEF WritePhases, ManifestPhases, ChildPhases
  <1> QED BY <1>3, <1>4

(* A smoke of the beta gate changes the record, or raises before any report.  *)
LEMMA SmokeMoves ==
  ASSUME NEW p \in Procs, TypeInv, RunSmoke(p)
  PROVE  Moved(p)
  <1>1. Running(p) /\ Phase(p) = "smoke" /\ local' = local /\ remote' = remote /\ leaked' = leaked
    BY DEF RunSmoke, At, Phase, treeVars
  <1>2. PICK v \in Summary :
          IF v = "none" THEN Ends(p, "crash")
          ELSE /\ run' = [run EXCEPT ![p].smoke = (v = "pass")]
               /\ Advance(p) /\ rc' = rc /\ lock' = lock /\ report' = report
    BY DEF RunSmoke
  <1>3. CASE v = "none" BY <1>1, <1>2, <1>3, QuietEnd
  <1>4. CASE v # "none"
    <2> DEFINE s == [run[p] EXCEPT !.smoke = (v = "pass")]
    <2>1. run[p] \in Runs /\ run \in [Procs -> Runs] BY DEF TypeInv, ProcTypes
    <2>2. run' = [run EXCEPT ![p] = s] BY <1>2, <1>4, <2>1
    <2>3. s \in Runs /\ s.stepFailed = run[p].stepFailed BY <2>1 DEF Runs
    <2> HIDE DEF s
    <2>4. TreeTypes' /\ leaked' \in [Procs -> BOOLEAN]
      BY <1>1, SameTree DEF TypeInv, ProcTypes
    <2> QED BY <1>1, <1>2, <1>4, <2>2, <2>3, <2>4, Typed, QuietMove
            DEF WritePhases, ManifestPhases, ChildPhases
  <1> QED BY <1>3, <1>4

(* The run a phase starts is one of the runs.                                 *)
LEMMA ChildIsRun ==
  ASSUME NEW p \in Procs, TypeInv, AtChild(p)
  PROVE  /\ Running(p) /\ Phase(p) \in ChildPhases /\ Child(p) = Launch[<<p, Phase(p)>>]
         /\ Child(p) \in Procs
         /\ SaysPassed(Child(p)) \in BOOLEAN
  <1>1. Running(p) /\ Phase(p) \in ChildPhases /\ Child(p) = Launch[<<p, Phase(p)>>]
    BY DEF AtChild, Phase, Child
  <1>2. DOMAIN Program[p] = 1 .. Len(Program[p]) BY ProgramShape DEF Shaped, EndsWithExit
  <1>3. pc[p] \in DOMAIN Program[p] BY <1>1, <1>2, AtPhase
  <1>4. Child(p) \in Procs BY <1>1, <1>3, LaunchAssumption DEF Phase
  <1>5. SaysPassed(Child(p)) \in BOOLEAN
    BY <1>4 DEF SaysPassed, Exists, TypeInv, TreeTypes, Reports
  <1> QED BY <1>1, <1>4, <1>5

(* The exit status of a nested tool is a failed step unless it is 0           *)
(* (run_step).                                                                *)
LEMMA ReturnMoves ==
  ASSUME NEW p \in Procs, TypeInv, ChildReturns(p)
  PROVE  Moved(p)
  <1> DEFINE n == NestedPassed(Child(p))
             b == run[p].stepFailed \/ rc[Child(p)] # "ok"
             s == [run[p] EXCEPT !.stepFailed = b, !.nested = n]
  <1>1. AtChild(p) /\ Advance(p) /\ rc' = rc /\ lock' = lock /\ local' = local /\ remote' = remote
        /\ report' = report /\ leaked' = leaked
        /\ run' = [run EXCEPT ![p].stepFailed = @ \/ rc[Child(p)] # "ok", ![p].nested = n]
    BY DEF ChildReturns, treeVars
  <1>2. run[p] \in Runs /\ run \in [Procs -> Runs] BY DEF TypeInv, ProcTypes
  <1>3. n \in BOOLEAN BY <1>1, ChildIsRun DEF NestedPassed, Printed
  <1>4. b \in BOOLEAN /\ (run[p].stepFailed => b) /\ (b \/ rc[Child(p)] = "ok") BY <1>2 DEF Runs
  <1>5. run' = [run EXCEPT ![p] = s] BY <1>1, <1>2
  <1> HIDE DEF n, b
  <1>6. s \in Runs /\ s.stepFailed = b BY <1>2, <1>3, <1>4 DEF Runs
  <1> HIDE DEF s
  <1> QED BY <1>1, <1>4, <1>5, <1>6, ChildIsRun, ChildMove

(* The beta candidate that packages a gate that was run before reads its      *)
(* report.                                                                    *)
LEMMA ReuseMoves ==
  ASSUME NEW p \in Procs, TypeInv, ReuseGate(p)
  PROVE  Moved(p)
  <1> DEFINE n == SaysPassed(Child(p))
             s == [run[p] EXCEPT !.nested = n]
  <1>1. AtChild(p) /\ Advance(p) /\ rc' = rc /\ lock' = lock /\ local' = local /\ remote' = remote
        /\ report' = report /\ leaked' = leaked
        /\ run' = [run EXCEPT ![p].nested = n] /\ Kind[p] = "beta_rc"
    BY ToolsAssumption DEF ReuseGate, At, AtChild, ChildPhases, treeVars
  <1>2. run[p] \in Runs /\ run \in [Procs -> Runs] BY DEF TypeInv, ProcTypes
  <1>3. n \in BOOLEAN BY <1>1, ChildIsRun
  <1>4. run' = [run EXCEPT ![p] = s] BY <1>1, <1>2
  <1> HIDE DEF n
  <1>5. s \in Runs /\ s.stepFailed = run[p].stepFailed BY <1>2, <1>3 DEF Runs
  <1> HIDE DEF s
  <1> QED BY <1>1, <1>4, <1>5, ChildIsRun, ChildMove

(* What a tool collects are files that are there, finitely many.              *)
LEMMA CollectedFiles ==
  ASSUME NEW p \in Procs, Kind[p] # "freeze"
  PROVE  Collected(p) \in SUBSET File /\ Cardinality(Collected(p)) \in Nat
  <1>1. Kind[p] \in Kinds BY ProcsAssumption
  <1>2. Json(p) \in File /\ Markdown(p) \in File BY Names
  <1>3. SharedArtifacts \subseteq File BY DEF SharedArtifacts
  <1>4. collect_alpha_artifact_paths(Json(p)) \subseteq File
    BY <1>2, <1>3 DEF collect_alpha_artifact_paths
  <1>5. candidate_artifact_paths(p) \subseteq File
    BY <1>2, <1>4 DEF candidate_artifact_paths, File
  <1>6. collect_beta_artifact_paths(p) \subseteq File
    <2>1. \A q \in Procs : Json(q) \in File BY DEF Json, File
    <2> QED BY <1>2, <1>4, <2>1 DEF collect_beta_artifact_paths
  <1>7. Kind[p] = "beta_rc" =>
          beta_candidate_artifact_paths(p, Json(Launch[<<p, "beta_gate">>])) \subseteq File
    <2> SUFFICES ASSUME Kind[p] = "beta_rc"
                 PROVE  beta_candidate_artifact_paths(p, Json(Launch[<<p, "beta_gate">>]))
                          \subseteq File
      OBVIOUS
    <2>1. Program[p] = BetaRcPhases BY BetaRcSpelled DEF Program, ProgramOf
    <2>2. 1 \in DOMAIN BetaRcPhases /\ BetaRcPhases[1] = "beta_gate" BY DEF BetaRcPhases
    <2>3. "beta_gate" \in ChildPhases BY DEF ChildPhases
    <2>4. Launch[<<p, "beta_gate">>] \in Procs BY <2>1, <2>2, <2>3, LaunchAssumption
    <2>5. Json(Launch[<<p, "beta_gate">>]) \in File BY <2>4, Names
    <2> QED BY <1>6, <2>5 DEF beta_candidate_artifact_paths
  <1>8. Collected(p) \subseteq File BY <1>1, <1>4, <1>5, <1>6, <1>7 DEF Collected, Kinds
  <1>9. IsFiniteSet(Collected(p)) BY <1>8, FileIsFinite, FS_Subset
  <1> QED BY <1>8, <1>9, FS_CardinalityType

(* The first report has no verdict that passes, in the JSON and in memory.    *)
LEMMA BlankMoves ==
  ASSUME NEW p \in Procs, TypeInv, WriteBlankReport(p)
  PROVE  Moved(p)
  <1>1. Running(p) /\ Phase(p) = "blank_report" /\ Advance(p) /\ rc' = rc /\ lock' = lock
        /\ remote' = remote /\ leaked' = leaked
    BY DEF WriteBlankReport, At, Phase
  <1>2. Kind[p] # "freeze" BY <1>1, NotFreeze
  <1> DEFINE fs == IF Kind[p] = "alpha_rc" THEN FailuresOf(p, report[p]) ELSE {}
             r == [report[p] EXCEPT !.failures = fs, !.passed = FALSE]
             s == IF Kind[p] = "alpha_gate" /\ Mode[p] = "full"
                  THEN [run[p] EXCEPT !.paths = Collected(p)] ELSE run[p]
  <1>3. run[p] \in Runs /\ run \in [Procs -> Runs] /\ report[p] \in Reports
        /\ report \in [Procs -> Reports]
    BY DEF TypeInv, ProcTypes
  <1>4. fs \in SUBSET FailureKinds BY <1>2, <1>3, FailuresTyped
  <1>5. report' = [report EXCEPT ![p] = r] /\ local' = Written(p, r) BY DEF WriteBlankReport
  <1>6. run' = [run EXCEPT ![p] = s] BY <1>3 DEF WriteBlankReport
  <1>7. s \in Runs /\ s.stepFailed = run[p].stepFailed BY <1>2, <1>3, CollectedFiles DEF Runs
  <1> HIDE DEF fs, s
  <1>8. r \in Reports /\ ~r.passed BY <1>3, <1>4 DEF Reports
  <1> HIDE DEF r
  <1> QED BY <1>1, <1>5, <1>6, <1>7, <1>8, WriteMove DEF ManifestPhases, ChildPhases

(* A conclusion writes the verdict it draws, and it has counted the steps.    *)
LEMMA ConcludeMoves ==
  ASSUME NEW p \in Procs, TypeInv, Conclude(p)
  PROVE  Moved(p)
  <1>1. Running(p) /\ Phase(p) \in {"conclude", "final_conclude"} /\ Advance(p) /\ rc' = rc
        /\ lock' = lock /\ remote' = remote /\ leaked' = leaked /\ run' = run
    BY DEF Conclude, At, Phase
  <1>2. Kind[p] # "freeze" BY <1>1, NotFreeze
  <1> DEFINE r == Concluded(p, report[p])
  <1>3. report' = [report EXCEPT ![p] = r] /\ local' = Written(p, r) BY DEF Conclude
  <1>4. r \in Reports /\ (r.passed => ~run[p].stepFailed) BY <1>2, Typed, ConcludedTyped
  <1> HIDE DEF r
  <1>5. Phase(p) \in VerdictPhases /\ Phase(p) \notin ManifestPhases \cup ChildPhases \cup {"lock", "exit"}
    BY <1>1 DEF VerdictPhases, ManifestPhases, ChildPhases
  <1> QED BY <1>1, <1>3, <1>4, <1>5, Typed, WriteMove

(* The candidate draws its verdict in memory, to be written next.             *)
LEMMA DecideMoves ==
  ASSUME NEW p \in Procs, TypeInv, Decide(p)
  PROVE  Moved(p)
  <1>1. Running(p) /\ Phase(p) = "verdict" /\ Advance(p) /\ rc' = rc
        /\ lock' = lock /\ local' = local /\ remote' = remote /\ leaked' = leaked /\ run' = run
    BY DEF Decide, At, Phase, treeVars
  <1>2. Kind[p] # "freeze" BY <1>1, NotFreeze
  <1> DEFINE r == Concluded(p, report[p])
  <1>3. report' = [report EXCEPT ![p] = r] BY DEF Decide
  <1>4. r \in Reports /\ (r.passed => ~run[p].stepFailed) BY <1>2, Typed, ConcludedTyped
  <1> HIDE DEF r
  <1>5. TreeTypes' /\ leaked' \in [Procs -> BOOLEAN]
    BY <1>1, SameTree DEF TypeInv, ProcTypes
  <1> QED BY <1>1, <1>3, <1>4, <1>5, Typed, QuietMove
          DEF WritePhases, ManifestPhases, ChildPhases

(* The candidate writes the verdict it has in memory.                         *)
LEMMA PresetMoves ==
  ASSUME NEW p \in Procs, TypeInv, PresetWrite(p)
  PROVE  Moved(p)
  <1>1. Running(p) /\ Phase(p) = "preset_write" /\ Advance(p) /\ rc' = rc /\ lock' = lock
        /\ remote' = remote /\ leaked' = leaked
    BY DEF PresetWrite, At, Phase
  <1>2. Kind[p] # "freeze" BY <1>1, NotFreeze
  <1> DEFINE paths == Collected(p)
             n == Cardinality(paths)
             r == [report[p] EXCEPT !.count = n, !.fresh = "pass"]
             s == [run[p] EXCEPT !.paths = paths]
  <1>3. run[p] \in Runs /\ run \in [Procs -> Runs] /\ report[p] \in Reports
        /\ report \in [Procs -> Reports]
    BY DEF TypeInv, ProcTypes
  <1>4. paths \in SUBSET File /\ n \in Nat BY <1>2, CollectedFiles
  <1>5. /\ report' = [report EXCEPT ![p] = r] /\ local' = Written(p, r)
        /\ run' = [run EXCEPT ![p] = s]
    BY <1>3 DEF PresetWrite
  <1> HIDE DEF paths, n
  <1>6. s \in Runs /\ s.stepFailed = run[p].stepFailed BY <1>3, <1>4 DEF Runs
  <1>7. r \in Reports /\ r.passed = report[p].passed BY <1>3, <1>4 DEF Reports, Summary
  <1> HIDE DEF r, s
  <1> QED BY <1>1, <1>5, <1>6, <1>7, WriteMove DEF ManifestPhases, ChildPhases

(* The refresh writes the JSON only, with the verdict in memory.              *)
LEMMA JsonMoves ==
  ASSUME NEW p \in Procs, TypeInv, WriteJson(p)
  PROVE  Moved(p)
  <1>1. Running(p) /\ Phase(p) = "json" /\ Advance(p) /\ rc' = rc /\ lock' = lock
        /\ remote' = remote /\ leaked' = leaked /\ run' = run /\ report' = report
        /\ local' = [local EXCEPT ![Json(p)] = report[p]]
    BY DEF WriteJson, At, Phase
  <1>2. local = [f \in File |-> local[f]] BY DEF TypeInv, TreeTypes
  <1>3. local' = [f \in File |-> IF f = Json(p) THEN report[p] ELSE local[f]] BY <1>1, <1>2
  <1>4. /\ local'[Json(p)] = report[p]
        /\ \A q \in Procs : local'[Manifest(q)] = local[Manifest(q)]
        /\ \A q \in Procs \ {p} : local'[Json(q)] = local[Json(q)]
    BY <1>3, Names
  <1>5. local' = [f \in File |-> local'[f]] BY <1>3
  <1>6. \A q \in Procs : local'[Json(q)] \in Reports \cup {Absent}
    BY <1>4, Typed DEF TypeInv, TreeTypes
  <1>7. TreeTypes' BY <1>1, <1>5, <1>6 DEF TypeInv, TreeTypes, Json
  <1>8. local'[Json(p)] # Absent BY <1>4, Typed, AbsentAssumption
  <1> QED BY <1>1, <1>4, <1>7, <1>8, Typed, ReportMove DEF ManifestPhases, ChildPhases

(* A failed check of the published report rewrites it as failed, a passed one *)
(* leaves it alone.                                                           *)
LEMMA PostCheckMoves ==
  ASSUME NEW p \in Procs, TypeInv, PostCheck(p)
  PROVE  Moved(p)
  <1>1. Running(p) /\ Phase(p) = "post_check" /\ Advance(p) /\ rc' = rc /\ lock' = lock
        /\ remote' = remote /\ leaked' = leaked /\ run' = run
    BY DEF PostCheck, At, Phase
  <1>2. CASE PostBad(p)
    <2> DEFINE r == [report[p] EXCEPT !.failures = {"step"}, !.passed = FALSE]
    <2>1. report' = [report EXCEPT ![p] = r] /\ local' = Written(p, r) BY <1>2 DEF PostCheck
    <2>2. r \in Reports /\ ~r.passed
      <3>1. report[p] \in Reports BY Typed
      <3>2. {"step"} \in SUBSET FailureKinds BY DEF FailureKinds
      <3> QED BY <3>1, <3>2 DEF Reports
    <2> HIDE DEF r
    <2> QED BY <1>1, <2>1, <2>2, Typed, WriteMove DEF ManifestPhases, ChildPhases
  <1>3. CASE ~PostBad(p)
    <2>1. local' = local /\ report' = report BY <1>3 DEF PostCheck
    <2>2. TreeTypes' /\ leaked' \in [Procs -> BOOLEAN]
      BY <1>1, <2>1, SameTree DEF TypeInv, ProcTypes
    <2> QED BY <1>1, <2>1, <2>2, Typed, QuietMove DEF WritePhases, ManifestPhases, ChildPhases
  <1> QED BY <1>2, <1>3

(* The beta tools rewrite their report after the check of the published one.  *)
LEMMA PostConcludeMoves ==
  ASSUME NEW p \in Procs, TypeInv, PostConclude(p)
  PROVE  Moved(p)
  <1>1. Running(p) /\ Phase(p) = "post_conclude" /\ Advance(p) /\ rc' = rc /\ lock' = lock
        /\ remote' = remote /\ leaked' = leaked /\ run' = run
    BY DEF PostConclude, At, Phase
  <1>2. Kind[p] # "freeze" BY <1>1, NotFreeze
  <1> DEFINE r0 == IF PostBad(p) THEN [report[p] EXCEPT !.sync = run[p].postSync,
                                                       !.verify = run[p].postVerify]
                                 ELSE report[p]
             fs == FailuresOf(p, r0) \cup Failed("step", PostBad(p))
             r  == [r0 EXCEPT !.failures = fs, !.passed = (fs = {})]
  <1>3. report' = [report EXCEPT ![p] = r] /\ local' = Written(p, r) BY DEF PostConclude
  <1>4. r0 \in Reports BY Typed, ZenonT(60) DEF Reports, Runs
  <1> HIDE DEF r0
  <1>5. Failed("step", PostBad(p)) \in SUBSET FailureKinds BY DEF Failed, FailureKinds
  <1>6. fs \in SUBSET FailureKinds /\ (fs = {} => ~run[p].stepFailed)
    BY <1>2, <1>4, <1>5, FailuresTyped
  <1> HIDE DEF fs
  <1>7. r \in Reports /\ r.passed = (fs = {}) BY <1>4, <1>6 DEF Reports
  <1> HIDE DEF r
  <1> QED BY <1>1, <1>3, <1>6, <1>7, Typed, WriteMove
          DEF VerdictPhases, ManifestPhases, ChildPhases

(* The freeze check alone writes a freeze report.                             *)
LEMMA OnlyFreezeFreezes ==
  ASSUME NEW p \in Procs, TypeInv, Running(p), Phase(p) = "freeze_write"
  PROVE  Kind[p] = "freeze"
  <1> SUFFICES ASSUME Kind[p] # "freeze" PROVE FALSE
    OBVIOUS
  <1>1. Program[p] = ProgramOf(Kind[p], Mode[p]) BY DEF Program
  <1>2. Kind[p] \in {"alpha_gate", "alpha_rc", "beta_gate", "beta_rc"}
    BY ProcsAssumption DEF Kinds
  <1>3. Program[p] \in {QuickGatePhases, FullGatePhases, LocalRcPhases, FullRcPhases,
                        BetaGatePhases, BetaRcPhases}
    BY <1>1, <1>2, QuickGateSpelled, FullGateSpelled, LocalRcSpelled, FullRcSpelled,
       BetaGateSpelled, BetaRcSpelled DEF ProgramOf
  <1> DEFINE Spared(s) == \A n \in DOMAIN s : s[n] # "freeze_write"
  <1>4. Spared(QuickGatePhases) BY DEF QuickGatePhases
  <1>5. Spared(FullGatePhases) BY DEF FullGatePhases
  <1>6. Spared(LocalRcPhases) BY DEF LocalRcPhases
  <1>7. Spared(FullRcPhases) BY DEF FullRcPhases
  <1>8. Spared(BetaGatePhases) BY DEF BetaGatePhases
  <1>9. Spared(BetaRcPhases) BY DEF BetaRcPhases
  <1>10. Spared(Program[p]) BY <1>3, <1>4, <1>5, <1>6, <1>7, <1>8, <1>9
  <1>11. pc[p] \in DOMAIN Program[p] BY AtPhase, ProgramShape DEF Shaped, EndsWithExit
  <1> QED BY <1>10, <1>11 DEF Phase

(* A manifest lists valid paths only, or the run dies.                        *)
LEMMA ManifestMoves ==
  ASSUME NEW p \in Procs, TypeInv, WriteManifest(p)
  PROVE  Moved(p)
  <1> DEFINE paths == PathsToList(p)
  <1>1. Running(p) /\ Phase(p) \in ManifestPhases /\ remote' = remote /\ leaked' = leaked
    BY DEF WriteManifest, At, Phase, ManifestPhases
  <1>2. IF ManifestRaises(paths)
        THEN Ends(p, "crash") /\ local' = local
        ELSE /\ local' = [local EXCEPT ![Manifest(p)] = ManifestOf(paths)]
             /\ report' = IF Phase(p) \in {"manifest", "preset_manifest"}
                          THEN [report EXCEPT ![p].count = Cardinality(paths)]
                          ELSE report
             /\ run' = [run EXCEPT ![p].paths = {}]
             /\ Advance(p) /\ rc' = rc /\ lock' = lock
    BY <1>1 DEF WriteManifest, At, Phase
  <1>3. CASE ManifestRaises(paths) BY <1>1, <1>2, <1>3, QuietEnd
  <1>4. CASE ~ManifestRaises(paths)
    <2> DEFINE n == Cardinality(paths)
               r == IF Phase(p) \in {"manifest", "preset_manifest"}
                    THEN [report[p] EXCEPT !.count = n] ELSE report[p]
               s == [run[p] EXCEPT !.paths = {}]
    <2>1. run[p] \in Runs /\ run \in [Procs -> Runs] /\ report[p] \in Reports
          /\ report \in [Procs -> Reports] /\ leaked \in [Procs -> BOOLEAN]
          /\ lock \in [{"alpha", "beta"} -> Procs \cup {Absent}]
      BY DEF TypeInv, ProcTypes
    <2>2. Phase(p) \in {"manifest", "preset_manifest"} => n \in Nat
      <3>1. Kind[p] # "freeze" BY <1>1, NotFreeze DEF ManifestPhases
      <3>2. CASE Phase(p) = "manifest"
        <4>1. paths = Collected(p) BY <1>1, <3>2 DEF PathsToList, At, Phase
        <4> QED BY <3>1, <4>1, CollectedFiles
      <3>3. CASE Phase(p) = "preset_manifest"
        <4>1. paths = run[p].paths BY <1>1, <3>3 DEF PathsToList, At, Phase
        <4>2. paths \in SUBSET File BY <2>1, <4>1 DEF Runs
        <4>3. IsFiniteSet(paths) BY <4>2, FileIsFinite, FS_Subset
        <4> QED BY <4>3, FS_CardinalityType
      <3> QED BY <3>2, <3>3
    <2>3. report' = [report EXCEPT ![p] = r] /\ run' = [run EXCEPT ![p] = s]
      BY <1>2, <1>4, <2>1
    <2> HIDE DEF n
    <2>4. r \in Reports /\ r.passed = report[p].passed BY <2>1, <2>2 DEF Reports
    <2>5. s \in Runs /\ s.stepFailed = run[p].stepFailed BY <2>1 DEF Runs
    <2> HIDE DEF r, s
    <2>6. local = [f \in File |-> local[f]] BY DEF TypeInv, TreeTypes
    <2>7. local' = [f \in File |-> IF f = Manifest(p) THEN ManifestOf(paths) ELSE local[f]]
      BY <1>2, <1>4, <2>6
    <2>8. /\ local'[Manifest(p)] = ManifestOf(paths)
          /\ \A q \in Procs : local'[Json(q)] = local[Json(q)]
          /\ \A q \in Procs \ {p} : local'[Manifest(q)] = local[Manifest(q)]
      BY <2>7, Names
    <2>9. \A f \in DOMAIN local'[Manifest(p)] : ValidArtifact(f)
      BY <1>4, <2>8 DEF ManifestOf, ManifestRaises
    <2>10. local' = [f \in File |-> local'[f]] BY <2>7
    <2>11. TreeTypes' BY <1>1, <2>8, <2>10 DEF TypeInv, TreeTypes, Json
    <2>12. run' \in [Procs -> Runs] /\ run'[p] = s /\ \A q \in Procs \ {p} : run'[q] = run[q]
      BY <2>1, <2>3, <2>5
    <2>13. report' \in [Procs -> Reports] /\ report'[p] = r
           /\ \A q \in Procs \ {p} : report'[q] = report[q]
      BY <2>1, <2>3, <2>4
    <2>14. Phase(p) \notin WritePhases \cup ChildPhases \cup {"lock", "exit"}
      BY <1>1 DEF ManifestPhases, WritePhases, ChildPhases
    <2>15. TypeInv' /\ Only(p) /\ pc'[p] = pc[p] + 1 /\ rc'[p] = rc[p]
      BY <1>1, <1>2, <1>4, <2>1, <2>8, <2>11, <2>12, <2>13, <2>14, Going
    <2>16. Advanced(p)
      BY <1>1, <1>2, <1>4, <2>4, <2>5, <2>8, <2>9, <2>12, <2>13, <2>14, <2>15, KeepsLock DEF
          Advanced
    <2> QED BY <2>15, <2>16 DEF Moved
  <1> QED BY <1>3, <1>4

(* A freshness check changes what the run knows, not its verdict.             *)
LEMMA FreshMoves ==
  ASSUME NEW p \in Procs, TypeInv, CheckFreshness(p)
  PROVE  Moved(p)
  <1>1. Running(p) /\ Phase(p) = "fresh" /\ Advance(p) /\ rc' = rc /\ lock' = lock
        /\ local' = local /\ remote' = remote /\ leaked' = leaked /\ run' = run
        /\ report' = [report EXCEPT ![p].fresh = Freshness(p)]
    BY DEF CheckFreshness, At, Phase, treeVars
  <1> DEFINE r == [report[p] EXCEPT !.fresh = Freshness(p)]
  <1>2. report[p] \in Reports /\ report \in [Procs -> Reports] BY DEF TypeInv, ProcTypes
  <1>3. Freshness(p) \in Summary BY DEF Freshness, Summary
  <1>4. report' = [report EXCEPT ![p] = r] BY <1>1, <1>2
  <1>5. r \in Reports /\ r.passed = report[p].passed BY <1>2, <1>3 DEF Reports
  <1> HIDE DEF r
  <1>6. TreeTypes' /\ leaked' \in [Procs -> BOOLEAN]
    BY <1>1, SameTree DEF TypeInv, ProcTypes
  <1> QED BY <1>1, <1>4, <1>5, <1>6, Typed, QuietMove DEF WritePhases, ManifestPhases, ChildPhases

(* The freshness gate goes on, or ends the run with a failed report.          *)
LEMMA GateMoves ==
  ASSUME NEW p \in Procs, TypeInv, FreshnessGate(p)
  PROVE  Moved(p)
  <1>1. Running(p) /\ Phase(p) = "fresh_gate" /\ remote' = remote /\ leaked' = leaked
    BY DEF FreshnessGate, At, Phase
  <1>2. report[p] \in Reports /\ report \in [Procs -> Reports] BY DEF TypeInv, ProcTypes
  <1>3. CASE Freshness(p) = "pass"
    <2> DEFINE r == [report[p] EXCEPT !.fresh = "pass"]
    <2>1. report' = [report EXCEPT ![p] = r] /\ Advance(p) /\ rc' = rc /\ lock' = lock /\ run' = run
          /\ local' = local
      BY <1>2, <1>3 DEF FreshnessGate
    <2>2. r \in Reports /\ r.passed = report[p].passed BY <1>2 DEF Reports, Summary
    <2> HIDE DEF r
    <2>3. TreeTypes' /\ leaked' \in [Procs -> BOOLEAN]
      BY <1>1, <2>1, SameTree DEF TypeInv, ProcTypes
    <2> QED BY <1>1, <2>1, <2>2, <2>3, Typed, QuietMove DEF WritePhases, ManifestPhases, ChildPhases
  <1>4. CASE Freshness(p) # "pass"
    <2> DEFINE fs == StaleFailures(p)
               r == [report[p] EXCEPT !.failures = fs, !.fresh = "fail", !.passed = FALSE]
    <2>1. local' = Written(p, r) /\ Ends(p, "fail") BY <1>4 DEF FreshnessGate
    <2>2. fs \in SUBSET FailureKinds
      <3>1. Kind[p] # "freeze" /\ Kind[p] \in Kinds BY <1>1, NotFreeze, ProcsAssumption
      <3> DEFINE r1 == [report[p] EXCEPT !.fresh = "fail"]
      <3>2. r1 \in Reports BY <1>2 DEF Reports, Summary
      <3>3. FailuresOf(p, r1) \in SUBSET FailureKinds BY <3>1, <3>2, FailuresTyped
      <3>4. report[p].failures \in SUBSET FailureKinds BY <1>2 DEF Reports
      <3>5. Failed("step", run[p].stepFailed) \in SUBSET FailureKinds /\ "freshness" \in FailureKinds
        BY DEF Failed, FailureKinds
      <3> QED BY <3>3, <3>4, <3>5 DEF StaleFailures
    <2> HIDE DEF fs
    <2>3. r \in Reports /\ ~r.passed BY <1>2, <2>2 DEF Reports, Summary
    <2> HIDE DEF r
    <2>4. TreeTypes BY DEF TypeInv
    <2>5. /\ local' = [f \in File |-> local'[f]]
          /\ local'[Json(p)] = r /\ local'[Json(p)] # Absent
          /\ \A q \in Procs : local'[Manifest(q)] = local[Manifest(q)]
          /\ \A q \in Procs \ {p} : local'[Json(q)] = local[Json(q)]
          /\ \A q \in Procs : local'[Json(q)] \in Reports \cup {Absent}
      BY <2>1, <2>3, <2>4, WriteReport
    <2>6. TreeTypes' BY <1>1, <2>4, <2>5 DEF TreeTypes, Json
    <2>7. "fail" \in Outcomes /\ "fail" # "none" BY DEF Outcomes
    <2>8. TypeInv' BY <1>1, <2>1, <2>6, <2>7, EndFrame DEF TypeInv
    <2>9. Only(p) BY <1>1, <2>1, <2>5, <2>7, EndFrame DEF Only, Untouched
    <2>10. Ended(p) BY <1>1, <2>1, <2>3, <2>5, <2>7, EndFrame DEF Ended
    <2> QED BY <2>8, <2>9, <2>10 DEF Moved
  <1> QED BY <1>3, <1>4

(* A copy changes the remote tree only, file by file.                         *)
LEMMA Outcome ==
  ASSUME NEW p, NEW s \in Summary, SyncOutcome(p, s)
  PROVE  \E part \in SUBSET ToSync(p) : remote' = Copied(part)
  <1>1. \A part \in PartialCopies(ToSync(p)) : part \in SUBSET ToSync(p) BY DEF PartialCopies
  <1> QED BY <1>1 DEF SyncOutcome

(* A copy of some files to the remote tree leaves the local tree alone.       *)
LEMMA CopyTypes ==
  ASSUME TypeInv, local' = local, NEW part, remote' = Copied(part)
  PROVE  TreeTypes'
  BY DEF TypeInv, TreeTypes, Copied, Json

(* sync copies listed files only, all of them or as many as it got to.        *)
LEMMA SyncMoves ==
  ASSUME NEW p \in Procs, TypeInv, Sync(p)
  PROVE  Moved(p) /\ leaked' = leaked /\ \E part \in SUBSET ToSync(p) : remote' = Copied(part)
  <1>1. Running(p) /\ Phase(p) = "sync" /\ Advance(p) /\ rc' = rc /\ lock' = lock
        /\ local' = local /\ leaked' = leaked
    BY DEF Sync, At, Phase
  <1>2. PICK v \in Summary : /\ SyncOutcome(p, v)
                             /\ report' = [report EXCEPT ![p].sync = v]
                             /\ run' = [run EXCEPT ![p].stepFailed = @ \/ v # "pass"]
    BY DEF Sync
  <1>3. PICK part \in SUBSET ToSync(p) : remote' = Copied(part) BY <1>2, Outcome
  <1> DEFINE b == run[p].stepFailed \/ v # "pass"
             r == [report[p] EXCEPT !.sync = v]
             s == [run[p] EXCEPT !.stepFailed = b]
  <1>4. run[p] \in Runs /\ run \in [Procs -> Runs] /\ report[p] \in Reports
        /\ report \in [Procs -> Reports]
    BY DEF TypeInv, ProcTypes
  <1>5. report' = [report EXCEPT ![p] = r] /\ run' = [run EXCEPT ![p] = s] BY <1>2, <1>4
  <1>6. b \in BOOLEAN /\ (run[p].stepFailed => b) BY <1>4 DEF Runs
  <1> HIDE DEF b
  <1>7. r \in Reports /\ r.passed = report[p].passed BY <1>4 DEF Reports
  <1>8. s \in Runs /\ s.stepFailed = b BY <1>4, <1>6 DEF Runs
  <1> HIDE DEF r, s
  <1>9. TreeTypes' /\ leaked' \in [Procs -> BOOLEAN]
    BY <1>1, <1>3, CopyTypes DEF TypeInv, ProcTypes
  <1>10. Moved(p)
    BY <1>1, <1>5, <1>6, <1>7, <1>8, <1>9, QuietMove DEF WritePhases, ManifestPhases, ChildPhases
  <1> QED BY <1>1, <1>3, <1>10

(* verify reads both trees and writes none.                                   *)
LEMMA VerifyMoves ==
  ASSUME NEW p \in Procs, TypeInv, Verify(p)
  PROVE  Moved(p)
  <1>1. Running(p) /\ Phase(p) = "verify" /\ Advance(p) /\ rc' = rc /\ lock' = lock
        /\ local' = local /\ remote' = remote /\ leaked' = leaked
    BY DEF Verify, At, Phase, treeVars
  <1>2. PICK v \in Summary : /\ report' = [report EXCEPT ![p].verify = v]
                             /\ run' = [run EXCEPT ![p].stepFailed = @ \/ v # "pass"]
    BY DEF Verify
  <1> DEFINE b == run[p].stepFailed \/ v # "pass"
             r == [report[p] EXCEPT !.verify = v]
             s == [run[p] EXCEPT !.stepFailed = b]
  <1>3. run[p] \in Runs /\ run \in [Procs -> Runs] /\ report[p] \in Reports
        /\ report \in [Procs -> Reports]
    BY DEF TypeInv, ProcTypes
  <1>4. report' = [report EXCEPT ![p] = r] /\ run' = [run EXCEPT ![p] = s] BY <1>2, <1>3
  <1>5. b \in BOOLEAN /\ (run[p].stepFailed => b) BY <1>3 DEF Runs
  <1> HIDE DEF b
  <1>6. r \in Reports /\ r.passed = report[p].passed BY <1>3 DEF Reports
  <1>7. s \in Runs /\ s.stepFailed = b BY <1>3, <1>5 DEF Runs
  <1> HIDE DEF r, s
  <1>8. TreeTypes' /\ leaked' \in [Procs -> BOOLEAN]
    BY <1>1, SameTree DEF TypeInv, ProcTypes
  <1> QED BY <1>1, <1>4, <1>5, <1>6, <1>7, <1>8, QuietMove
          DEF WritePhases, ManifestPhases, ChildPhases

(* The second sync copies listed files only.                                  *)
LEMMA PostSyncMoves ==
  ASSUME NEW p \in Procs, TypeInv, PostSync(p)
  PROVE  Moved(p) /\ leaked' = leaked /\ \E part \in SUBSET ToSync(p) : remote' = Copied(part)
  <1>1. Running(p) /\ Phase(p) = "post_sync" /\ Advance(p) /\ rc' = rc /\ lock' = lock
        /\ local' = local /\ leaked' = leaked /\ report' = report
    BY DEF PostSync, At, Phase
  <1>2. PICK v \in Summary : SyncOutcome(p, v) /\ run' = [run EXCEPT ![p].postSync = v]
    BY DEF PostSync
  <1>3. PICK part \in SUBSET ToSync(p) : remote' = Copied(part) BY <1>2, Outcome
  <1> DEFINE s == [run[p] EXCEPT !.postSync = v]
  <1>4. run[p] \in Runs /\ run \in [Procs -> Runs] BY DEF TypeInv, ProcTypes
  <1>5. run' = [run EXCEPT ![p] = s] BY <1>2, <1>4
  <1>6. s \in Runs /\ s.stepFailed = run[p].stepFailed BY <1>4 DEF Runs
  <1> HIDE DEF s
  <1>7. TreeTypes' /\ leaked' \in [Procs -> BOOLEAN]
    BY <1>1, <1>3, CopyTypes DEF TypeInv, ProcTypes
  <1>8. Moved(p)
    BY <1>1, <1>5, <1>6, <1>7, Typed, QuietMove DEF WritePhases, ManifestPhases, ChildPhases
  <1> QED BY <1>1, <1>3, <1>8

(* The second verify reads both trees and writes none.                        *)
LEMMA PostVerifyMoves ==
  ASSUME NEW p \in Procs, TypeInv, PostVerify(p)
  PROVE  Moved(p)
  <1>1. Running(p) /\ Phase(p) = "post_verify" /\ Advance(p) /\ rc' = rc /\ lock' = lock
        /\ local' = local /\ remote' = remote /\ leaked' = leaked /\ report' = report
    BY DEF PostVerify, At, Phase, treeVars
  <1>2. PICK v \in Summary : run' = [run EXCEPT ![p].postVerify = v]
    BY DEF PostVerify
  <1> DEFINE s == [run[p] EXCEPT !.postVerify = v]
  <1>3. run[p] \in Runs /\ run \in [Procs -> Runs] BY DEF TypeInv, ProcTypes
  <1>4. run' = [run EXCEPT ![p] = s] BY <1>2, <1>3
  <1>5. s \in Runs /\ s.stepFailed = run[p].stepFailed BY <1>3 DEF Runs
  <1> HIDE DEF s
  <1>6. TreeTypes' /\ leaked' \in [Procs -> BOOLEAN]
    BY <1>1, SameTree DEF TypeInv, ProcTypes
  <1> QED BY <1>1, <1>4, <1>5, <1>6, Typed, QuietMove DEF WritePhases, ManifestPhases, ChildPhases

(* The report of a freeze check is a report.                                  *)
LEMMA FreezeReportTyped ==
  ASSUME NEW p \in Procs, TypeInv, NEW left, NEW verify
  PROVE  FreezeReport(p, left, verify) \in Reports
  <1>1. \A k \in FailureKinds : \A b : Failed(k, b) \in SUBSET FailureKinds BY DEF Failed
  <1>2. {"nested", "verify", "hygiene", "docs", "residual"} \subseteq FailureKinds
    BY DEF FailureKinds
  <1>3. report[p] \in Reports BY Typed
  <1>4. PICK fs \in SUBSET FailureKinds :
          FreezeReport(p, left, verify) = [report[p] EXCEPT !.failures = fs, !.passed = (fs = {})]
    <2> DEFINE gate == Payload("beta_gate")
               cand == Payload("beta_rc")
               fs == Failed("nested", ~gate.passed \/ ~cand.passed)
                       \cup Failed("verify", verify # "pass")
                       \cup Failed("hygiene", gate.hygiene # "pass")
                       \cup Failed("docs", \E k \in {"beta_gate", "beta_rc"} : ~Exists(<<"md", k>>))
                       \cup Failed("residual", left)
    <2>1. FreezeReport(p, left, verify) = [report[p] EXCEPT !.failures = fs, !.passed = (fs = {})]
      BY DEF FreezeReport
    <2>2. fs \in SUBSET FailureKinds
      <3>1. /\ Failed("nested", ~gate.passed \/ ~cand.passed) \in SUBSET FailureKinds
            /\ Failed("verify", verify # "pass") \in SUBSET FailureKinds
        BY <1>1, <1>2
      <3>2. /\ Failed("hygiene", gate.hygiene # "pass") \in SUBSET FailureKinds
            /\ Failed("docs", \E k \in {"beta_gate", "beta_rc"} : ~Exists(<<"md", k>>))
                 \in SUBSET FailureKinds
        BY <1>1, <1>2
      <3>3. Failed("residual", left) \in SUBSET FailureKinds BY <1>1, <1>2
      <3> HIDE DEF gate, cand
      <3> QED BY <3>1, <3>2, <3>3, Zenon
    <2> HIDE DEF fs
    <2> QED BY <2>1, <2>2, Zenon
  <1>5. (fs = {}) \in BOOLEAN OBVIOUS
  <1> DEFINE passed == (fs = {})
  <1>6. FreezeReport(p, left, verify) = [report[p] EXCEPT !.failures = fs, !.passed = passed] BY <1>4
  <1>7. passed \in BOOLEAN BY <1>5
  <1> HIDE DEF passed
  <1> QED BY <1>3, <1>6, <1>7 DEF Reports

(* The freeze check writes its page, not its JSON.                            *)
LEMMA FreezeCheckMoves ==
  ASSUME NEW p \in Procs, TypeInv, FreezeCheck(p)
  PROVE  Moved(p)
  <1>1. Running(p) /\ Phase(p) = "freeze_check" /\ Advance(p) /\ rc' = rc /\ lock' = lock
        /\ remote' = remote /\ leaked' = leaked /\ run' = run /\ report' = report
    BY DEF FreezeCheck, At, Phase
  <1>2. PICK left \in BOOLEAN, verify \in FinalVerify :
          local' = [local EXCEPT ![Markdown(p)] = FreezeReport(p, left, verify)]
    BY DEF FreezeCheck
  <1>3. local = [f \in File |-> local[f]] BY DEF TypeInv, TreeTypes
  <1>4. local' = [f \in File |-> IF f = Markdown(p) THEN FreezeReport(p, left, verify) ELSE local[f]]
    BY <1>2, <1>3
  <1>5. \A q \in Procs : local'[Json(q)] = local[Json(q)] /\ local'[Manifest(q)] = local[Manifest(q)]
    BY <1>4, Names
  <1>6. local' = [f \in File |-> local'[f]] BY <1>4
  <1>7. TreeTypes' BY <1>1, <1>5, <1>6 DEF TypeInv, TreeTypes, Json
  <1>8. leaked' \in [Procs -> BOOLEAN] BY <1>1 DEF TypeInv, ProcTypes
  <1> QED BY <1>1, <1>5, <1>7, <1>8, Typed, QuietMove DEF WritePhases, ManifestPhases, ChildPhases

(* The freeze check writes the verdict it draws.                              *)
LEMMA FreezeWriteMoves ==
  ASSUME NEW p \in Procs, TypeInv, FreezeWrite(p)
  PROVE  Moved(p)
  <1>1. Running(p) /\ Phase(p) = "freeze_write" /\ Advance(p) /\ rc' = rc /\ lock' = lock
        /\ remote' = remote /\ leaked' = leaked /\ run' = run
    BY DEF FreezeWrite, At, Phase
  <1>2. PICK left \in BOOLEAN, verify \in FinalVerify :
          /\ report' = [report EXCEPT ![p] = FreezeReport(p, left, verify)]
          /\ local' = Written(p, FreezeReport(p, left, verify))
    BY DEF FreezeWrite
  <1>3. Kind[p] = "freeze" BY <1>1, OnlyFreezeFreezes
  <1> QED BY <1>1, <1>2, <1>3, FreezeReportTyped, Typed, WriteMove DEF ManifestPhases, ChildPhases

(* main() returns 0 exactly when the report in memory passed.                 *)
LEMMA ExitMoves ==
  ASSUME NEW p \in Procs, TypeInv, Exit(p)
  PROVE  Moved(p)
  <1> DEFINE o == IF report[p].passed THEN "ok" ELSE "fail"
  <1>1. Running(p) /\ Phase(p) = "exit" /\ Ends(p, o)
        /\ local' = local /\ remote' = remote /\ leaked' = leaked
    BY DEF Exit, At, Phase, treeVars
  <1>2. o \in Outcomes /\ o # "none" BY DEF Outcomes
  <1>3. TypeInv' BY <1>1, <1>2, SameTree, EndFrame DEF TypeInv
  <1>4. Only(p) BY <1>1, <1>2, EndFrame DEF Only, Untouched
  <1>5. rc'[p] = o /\ pc' = pc /\ ~report'[p].passed BY <1>1, <1>2, EndFrame
  <1>6. Ended(p) BY <1>1, <1>2, <1>5 DEF Ended
  <1> QED BY <1>3, <1>4, <1>6 DEF Moved

-----------------------------------------------------------------------------
(* Starts, foreign changes, and what stays local                              *)

(* A start moves a program counter to the first phase and nothing else.       *)
LEMMA StartOf ==
  ASSUME NEW p \in Procs, TypeInv, ControlInv, pc[p] = 0, pc' = [pc EXCEPT ![p] = 1],
         UNCHANGED <<treeVars, rc, lock, run, report, latest, events, leaked>>
  PROVE  TypeInv' /\ ControlInv'
  <1>1. /\ local' = local /\ remote' = remote /\ rc' = rc /\ lock' = lock /\ run' = run
        /\ report' = report /\ leaked' = leaked
    BY DEF treeVars
  <1>2. pc \in [Procs -> Nat] BY DEF TypeInv, ProcTypes
  <1>3. pc' \in [Procs -> Nat] /\ pc'[p] = 1 /\ \A q \in Procs \ {p} : pc'[q] = pc[q] BY <1>2
  <1>4. 1 \in 1 .. Len(Program[p]) BY ProgramShape DEF Shaped, EndsWithExit
  <1>5. \A q \in Procs : Running(q)' => pc'[q] \in 1 .. Len(Program[q])
    BY <1>1, <1>3, <1>4 DEF TypeInv, ProcTypes, Running
  <1>6. TypeInv' BY <1>1, <1>3, <1>5, SameTree DEF TypeInv, ProcTypes
  <1>7. Only(p) BY <1>1, <1>3 DEF Only, Untouched
  <1>8. Started(p) BY <1>1, <1>3 DEF Started
  <1> QED BY <1>1, <1>6, <1>7, <1>8, StartKeeps

(* A start, by hand or by an enclosing tool, keeps the invariants.            *)
LEMMA StartsKeep ==
  ASSUME NEW p \in Procs, TypeInv, ControlInv, Start(p) \/ StartChild(p)
  PROVE  TypeInv' /\ ControlInv' /\ remote' = remote /\ leaked' = leaked
  <1>1. CASE Start(p) BY <1>1, StartOf DEF Start, treeVars
  <1>2. CASE StartChild(p)
    <2>1. Child(p) \in Procs BY <1>2, ChildIsRun DEF StartChild
    <2> QED BY <1>2, <2>1, StartOf DEF StartChild, treeVars
  <1> QED BY <1>1, <1>2

(* The invariant reads the memory of the runs, their reports and manifests.   *)
LEMMA SameKeeps ==
  ASSUME TypeInv, ControlInv, TreeTypes',
         pc' = pc, rc' = rc, lock' = lock, run' = run, report' = report, leaked' = leaked,
         \A q \in Procs : /\ local'[Json(q)] = local[Json(q)]
                          /\ local'[Manifest(q)] = local[Manifest(q)]
  PROVE  TypeInv' /\ ControlInv'
  <1>1. TypeInv' BY DEF TypeInv, ProcTypes, Running
  <1>2. LockInv' BY DEF ControlInv, LockInv, Working, Running, IsGate, LockOf
  <1>3. ManifestInv' BY DEF ControlInv, ManifestInv, HasManifest, Past, Manifest, ValidArtifact
  <1>4. ReportInv'
    BY DEF ControlInv, ReportInv, Running, HasReport, Past, SameVerdict, Exists, Json
  <1>5. ChildInv' BY DEF ControlInv, ChildInv, Running, Past
  <1>6. VerdictInv' BY DEF ControlInv, VerdictInv, Nested
  <1>7. StatusAgreesWithReport' BY DEF ControlInv, StatusAgreesWithReport, Exists, Json
  <1>8. SuccessNeedsNested' BY DEF ControlInv, SuccessNeedsNested, Nested
  <1> QED BY <1>1, <1>2, <1>3, <1>4, <1>5, <1>6, <1>7, <1>8 DEF ControlInv

(* A document changed by hand is no file of a run.                            *)
LEMMA ForeignKeeps ==
  ASSUME TypeInv, ControlInv, NEW d \in Docs, ForeignChange(d)
  PROVE  TypeInv' /\ ControlInv' /\ remote' = remote /\ leaked' = leaked
  <1>1. /\ local' = [local EXCEPT ![<<"doc", d>>] = events + 1]
        /\ remote' = remote /\ pc' = pc /\ rc' = rc /\ lock' = lock /\ run' = run
        /\ report' = report /\ leaked' = leaked
    BY DEF ForeignChange, procVars
  <1>2. local = [f \in File |-> local[f]] BY DEF TypeInv, TreeTypes
  <1>3. local' = [f \in File |-> IF f = <<"doc", d>> THEN events + 1 ELSE local[f]] BY <1>1, <1>2
  <1>4. \A q \in Procs : Json(q) # <<"doc", d>> /\ Manifest(q) # <<"doc", d>> BY DEF Json, Manifest
  <1>5. \A q \in Procs : local'[Json(q)] = local[Json(q)] /\ local'[Manifest(q)] = local[Manifest(q)]
    BY <1>3, <1>4, Names
  <1>6. local' = [f \in File |-> local'[f]] BY <1>3
  <1>7. TreeTypes' BY <1>1, <1>5, <1>6 DEF TypeInv, TreeTypes, Json
  <1> QED BY <1>1, <1>5, <1>7, SameKeeps

(* What a copy takes is listed by a manifest that was written, so it is valid. *)
LEMMA CopyKeepsPrivate ==
  ASSUME NEW p \in Procs, TypeInv, ControlInv, PrivateStaysLocal, Running(p),
         Phase(p) \in {"sync", "post_sync"}, NEW part \in SUBSET ToSync(p),
         remote' = Copied(part), leaked' = leaked
  PROVE  PrivateStaysLocal'
  <1>1. pc[p] \in 1 .. Len(Program[p]) BY AtPhase
  <1>2. HasManifest(p)
    BY <1>1, ProgramShape DEF Shaped, ManifestFirst, HasManifest, Past, Phase
  <1>3. \A f \in DOMAIN local[Manifest(p)] : ValidArtifact(f) BY <1>2 DEF ControlInv, ManifestInv
  <1>4. \A f \in Listed(p) : ValidArtifact(f) BY <1>3, Names DEF Listed
  <1>5. \A f \in part : ValidArtifact(f) BY <1>4 DEF ToSync
  <1>6. \A f \in File : ~ValidArtifact(f) => remote'[f] = remote[f] BY <1>5 DEF Copied
  <1> QED BY <1>6 DEF PrivateStaysLocal, ValidArtifact

(* copy_tree and scan_file between them stop everything that is forbidden.    *)
LEMMA ExportIsClean ==
  ASSUME NEW tree \in Trees, ExportPasses(tree)
  PROVE  copy_tree(tree) \cap Forbidden = {}
  <1>1. \A x : ~should_exclude(x) /\ sanitize_text(x) \in Forbidden => scan_file(sanitize_text(x))
    BY DEF should_exclude, sanitize_text, scan_file, Forbidden
  <1>2. \A s \in copy_tree(tree) : \E x \in tree : ~should_exclude(x) /\ s = sanitize_text(x)
    BY DEF copy_tree
  <1> QED BY <1>1, <1>2 DEF ExportPasses

(* The export of the local commands leaks only what its scan lets pass.       *)
LEMMA CommandsKeepPrivate ==
  ASSUME NEW p \in Procs, TypeInv, PrivateStaysLocal, RunCommands(p)
  PROVE  PrivateStaysLocal'
  <1>1. remote' = remote BY DEF RunCommands, treeVars
  <1>2. PICK tree \in Trees :
          leaked' = [leaked EXCEPT ![p] = ExportPasses(tree) /\ copy_tree(tree) \cap Forbidden # {}]
    BY DEF RunCommands
  <1>3. leaked \in [Procs -> BOOLEAN] BY DEF TypeInv, ProcTypes
  <1>4. \A q \in Procs : ~leaked'[q] BY <1>2, <1>3, ExportIsClean DEF PrivateStaysLocal
  <1> QED BY <1>1, <1>4 DEF PrivateStaysLocal, ValidArtifact

-----------------------------------------------------------------------------
(* The theorems                                                               *)

(* A move of one run keeps the invariants, whichever move it is.              *)
LEMMA MovedKeeps ==
  ASSUME NEW p \in Procs, TypeInv, ControlInv, Moved(p)
  PROVE  TypeInv' /\ ControlInv'
  BY AdvanceKeeps, EndKeeps DEF Moved

(* What is private stays so while nothing is copied or exported.              *)
LEMMA SamePrivate ==
  ASSUME PrivateStaysLocal, remote' = remote, leaked' = leaked
  PROVE  PrivateStaysLocal'
  BY DEF PrivateStaysLocal, ValidArtifact

(* A step of a run keeps the invariant.                                       *)
LEMMA StepKeeps ==
  ASSUME NEW p \in Procs, ToolsInv, Step(p)
  PROVE  ToolsInv'
  <1>1. TypeInv /\ ControlInv /\ PrivateStaysLocal BY DEF ToolsInv
  <1>2. CASE AcquireLock(p)
    BY <1>1, <1>2, AcquireMoves, MovedKeeps, SamePrivate DEF AcquireLock, treeVars, ToolsInv
  <1>3. CASE Refused(p)
    BY <1>1, <1>3, RefusedMoves, MovedKeeps, SamePrivate DEF Refused, treeVars, ToolsInv
  <1>4. CASE RunCommands(p)
    BY <1>1, <1>4, CommandsMove, MovedKeeps, CommandsKeepPrivate DEF ToolsInv
  <1>5. CASE RunMatrix(p)
    BY <1>1, <1>5, MatrixMoves, MovedKeeps, SamePrivate DEF RunMatrix, treeVars, ToolsInv
  <1>6. CASE RunSmoke(p)
    BY <1>1, <1>6, SmokeMoves, MovedKeeps, SamePrivate DEF RunSmoke, treeVars, ToolsInv
  <1>7. CASE StartChild(p)
    BY <1>1, <1>7, StartsKeep, SamePrivate DEF ToolsInv
  <1>8. CASE ChildReturns(p)
    BY <1>1, <1>8, ReturnMoves, MovedKeeps, SamePrivate DEF ChildReturns, treeVars, ToolsInv
  <1>9. CASE ReuseGate(p)
    BY <1>1, <1>9, ReuseMoves, MovedKeeps, SamePrivate DEF ReuseGate, treeVars, ToolsInv
  <1>10. CASE WriteBlankReport(p)
    BY <1>1, <1>10, BlankMoves, MovedKeeps, SamePrivate DEF WriteBlankReport, ToolsInv
  <1>11. CASE Conclude(p)
    BY <1>1, <1>11, ConcludeMoves, MovedKeeps, SamePrivate DEF Conclude, ToolsInv
  <1>12. CASE Decide(p)
    BY <1>1, <1>12, DecideMoves, MovedKeeps, SamePrivate DEF Decide, treeVars, ToolsInv
  <1>13. CASE PresetWrite(p)
    BY <1>1, <1>13, PresetMoves, MovedKeeps, SamePrivate DEF PresetWrite, ToolsInv
  <1>14. CASE WriteJson(p)
    BY <1>1, <1>14, JsonMoves, MovedKeeps, SamePrivate DEF WriteJson, ToolsInv
  <1>15. CASE WriteManifest(p)
    BY <1>1, <1>15, ManifestMoves, MovedKeeps, SamePrivate DEF WriteManifest, ToolsInv
  <1>16. CASE CheckFreshness(p)
    BY <1>1, <1>16, FreshMoves, MovedKeeps, SamePrivate DEF CheckFreshness, treeVars, ToolsInv
  <1>17. CASE FreshnessGate(p)
    BY <1>1, <1>17, GateMoves, MovedKeeps, SamePrivate DEF FreshnessGate, ToolsInv
  <1>18. CASE Sync(p)
    <2>1. Running(p) /\ Phase(p) = "sync" BY <1>18 DEF Sync, At, Phase
    <2> QED BY <1>1, <1>18, <2>1, SyncMoves, MovedKeeps, CopyKeepsPrivate DEF ToolsInv
  <1>19. CASE Verify(p)
    BY <1>1, <1>19, VerifyMoves, MovedKeeps, SamePrivate DEF Verify, treeVars, ToolsInv
  <1>20. CASE PostSync(p)
    <2>1. Running(p) /\ Phase(p) = "post_sync" BY <1>20 DEF PostSync, At, Phase
    <2> QED BY <1>1, <1>20, <2>1, PostSyncMoves, MovedKeeps, CopyKeepsPrivate DEF ToolsInv
  <1>21. CASE PostVerify(p)
    BY <1>1, <1>21, PostVerifyMoves, MovedKeeps, SamePrivate DEF PostVerify, treeVars, ToolsInv
  <1>22. CASE PostCheck(p)
    BY <1>1, <1>22, PostCheckMoves, MovedKeeps, SamePrivate DEF PostCheck, ToolsInv
  <1>23. CASE PostConclude(p)
    BY <1>1, <1>23, PostConcludeMoves, MovedKeeps, SamePrivate DEF PostConclude, ToolsInv
  <1>24. CASE FreezeCheck(p)
    BY <1>1, <1>24, FreezeCheckMoves, MovedKeeps, SamePrivate DEF FreezeCheck, ToolsInv
  <1>25. CASE FreezeWrite(p)
    BY <1>1, <1>25, FreezeWriteMoves, MovedKeeps, SamePrivate DEF FreezeWrite, ToolsInv
  <1>26. CASE Exit(p)
    BY <1>1, <1>26, ExitMoves, MovedKeeps, SamePrivate DEF Exit, treeVars, ToolsInv
  <1> QED BY <1>2, <1>3, <1>4, <1>5, <1>6, <1>7, <1>8, <1>9, <1>10, <1>11, <1>12, <1>13, <1>14,
             <1>15, <1>16, <1>17, <1>18, <1>19, <1>20, <1>21, <1>22, <1>23, <1>24, <1>25, <1>26
          DEF Step

(* Nothing has been started and nothing written.                              *)
LEMMA InitTools == Init => ToolsInv
  <1> SUFFICES ASSUME Init PROVE ToolsInv
    OBVIOUS
  <1>1. PICK present \in SUBSET (Docs \ PrivateDocs) :
          local = [f \in File |-> IF f \in {"doc"} \X present THEN 0 ELSE Absent]
    BY DEF Init
  <1>2. remote = [f \in File |-> Absent]
        /\ pc = [p \in Procs |-> 0] /\ rc = [p \in Procs |-> "none"]
        /\ lock = [k \in {"alpha", "beta"} |-> Absent]
        /\ run = [p \in Procs |-> EmptyRun] /\ report = [p \in Procs |-> EmptyReport]
        /\ leaked = [p \in Procs |-> FALSE]
    BY DEF Init
  <1>3. EmptyRun \in Runs BY DEF EmptyRun, Runs, Summary
  <1>4. EmptyReport \in Reports /\ ~EmptyReport.passed BY DEF EmptyReport, Reports, Summary
  <1>5. \A p \in Procs : ~Running(p) /\ Past(p) = {} BY <1>2 DEF Running, Past
  <1>6. \A p \in Procs : local[Json(p)] = Absent
    <2> TAKE p \in Procs
    <2>1. Json(p) \in File BY Names
    <2>2. Json(p) \notin {"doc"} \X present BY DEF Json
    <2> QED BY <1>1, <2>1, <2>2
  <1>7. local = [f \in File |-> local[f]] BY <1>1
  <1>8. remote = [f \in File |-> remote[f]] BY <1>2
  <1>9. TreeTypes BY <1>6, <1>7, <1>8 DEF TreeTypes
  <1>10. ProcTypes BY <1>2, <1>3, <1>4, <1>5 DEF ProcTypes, Outcomes
  <1>11. ControlInv
    <2>1. LockInv /\ ReportInv /\ ChildInv BY <1>5 DEF LockInv, ReportInv, ChildInv, Working
    <2>2. ManifestInv BY <1>5 DEF ManifestInv, HasManifest
    <2>3. VerdictInv BY <1>2, <1>4 DEF VerdictInv
    <2>4. StatusAgreesWithReport /\ SuccessNeedsNested
      BY <1>2 DEF StatusAgreesWithReport, SuccessNeedsNested
    <2> QED BY <2>1, <2>2, <2>3, <2>4 DEF ControlInv
  <1>12. PrivateStaysLocal BY <1>2 DEF PrivateStaysLocal
  <1> QED BY <1>9, <1>10, <1>11, <1>12 DEF ToolsInv, TypeInv

(* The invariant is inductive.                                                *)
LEMMA NextKeepsTools == ToolsInv /\ [Next]_vars => ToolsInv'
  <1> SUFFICES ASSUME ToolsInv, [Next]_vars PROVE ToolsInv'
    OBVIOUS
  <1>1. TypeInv /\ ControlInv /\ PrivateStaysLocal BY DEF ToolsInv
  <1>2. ASSUME NEW p \in Procs, Start(p) PROVE ToolsInv'
    BY <1>1, <1>2, StartsKeep, SamePrivate DEF ToolsInv
  <1>3. ASSUME NEW p \in Procs, Step(p) PROVE ToolsInv' BY <1>3, StepKeeps
  <1>4. ASSUME NEW p \in Procs, Kill(p) PROVE ToolsInv'
    BY <1>1, <1>4, KillMoves, MovedKeeps, SamePrivate DEF Kill, treeVars, ToolsInv
  <1>5. ASSUME NEW d \in Docs, ForeignChange(d) PROVE ToolsInv'
    BY <1>1, <1>5, ForeignKeeps, SamePrivate DEF ToolsInv
  <1>6. CASE UNCHANGED vars
    <2>1. local' = local /\ remote' = remote /\ pc' = pc /\ rc' = rc /\ lock' = lock
          /\ run' = run /\ report' = report /\ leaked' = leaked
      BY <1>6 DEF vars
    <2> QED BY <1>1, <2>1, SameTree, SameKeeps, SamePrivate DEF ToolsInv
  <1> QED BY <1>2, <1>3, <1>4, <1>5, <1>6 DEF Next

(* The invariant of the release tools: the locks, manifests, reports and      *)
(* verdicts of all runs are in order in every reachable state, whatever the   *)
(* runs, the modes and the nesting, and wherever a run is killed (main,       *)
(* acquire_gate_lock and the report writers of the five tools).               *)
THEOREM ToolsStayCorrect == Spec => []ToolsInv
  BY InitTools, NextKeepsTools, PTL DEF Spec

(* Two gates of one tool that both work would both own its one lock.          *)
LEMMA LocksExclude == ToolsInv => GatesExclusive
  <1> SUFFICES ASSUME ToolsInv, NEW p \in Procs, NEW q \in Procs, p # q, Kind[p] = Kind[q],
                      IsGate(p), Working(p), Working(q)
               PROVE  FALSE
    BY DEF GatesExclusive, IsGate
  <1>1. lock[LockOf(p)] = p /\ lock[LockOf(q)] = q
    BY DEF ToolsInv, ControlInv, LockInv, IsGate
  <1> QED BY <1>1 DEF LockOf

(* Two alpha gates, or two beta gates, never work at the same time on one     *)
(* checkout: the lock file of acquire_gate_lock admits one of them.           *)
THEOREM OnlyOneGate == Spec => []GatesExclusive
  BY ToolsStayCorrect, LocksExclude, PTL

(* What validate_artifact_path refuses never reaches the remote tree, and an  *)
(* export that passed its hygiene scan holds nothing that must not be         *)
(* published (sync, copy_tree).                                               *)
THEOREM PrivateNeverLeaves == Spec => []PrivateStaysLocal
  <1>1. ToolsInv => PrivateStaysLocal BY DEF ToolsInv
  <1> QED BY <1>1, ToolsStayCorrect, PTL

(* The exit status of a tool and the verdict in its JSON never disagree: a    *)
(* run that returned 0 has left a report that passed, one that returned 1 a   *)
(* report that did not (main).                                                *)
THEOREM StatusIsReported == Spec => []StatusAgreesWithReport
  <1>1. ToolsInv => StatusAgreesWithReport BY DEF ToolsInv, ControlInv
  <1> QED BY <1>1, ToolsStayCorrect, PTL

(* A tool that succeeds has had every tool it runs succeed: no crash,         *)
(* refusal, kill or failure of a nested run is lost on the way up (run_step). *)
(* The beta candidate, which may package an older gate, is not meant.         *)
THEOREM NestedSucceeded == Spec => []SuccessNeedsNested
  <1>1. ToolsInv => SuccessNeedsNested BY DEF ToolsInv, ControlInv
  <1> QED BY <1>1, ToolsStayCorrect, PTL

-----------------------------------------------------------------------------
(* What an alpha tool has published when it succeeds                          *)

AlphaTool(p) == Kind[p] \in {"alpha_gate", "alpha_rc"}
Lists(p, files) == Json(p) \in files /\ (Kind[p] = "alpha_gate" => Markdown(p) \in files)

(* The first report of an alpha tool is there from the moment it is written.  *)
WrittenInv == \A p \in Procs : (\E i \in Past(p) : Program[p][i] = "blank_report") =>
    Exists(Json(p)) /\ Exists(Markdown(p))

(* The last collection finds the reports, and the manifest written from it    *)
(* lists them until the end.                                                  *)
CountedInv == \A p \in Procs :
    Running(p) /\ Kind[p] = "alpha_rc" /\ Phase(p) = "preset_manifest" => Lists(p, run[p].paths)
ListedInv == \A p \in Procs :
    Running(p) /\ Remote(p) /\ Phase(p) \in {"fresh_gate", "post_sync", "post_verify"} =>
        Lists(p, DOMAIN local[Manifest(p)])

(* Reports, manifest and the copies of both agree once the last check passed, *)
(* and still do at the exit of a run that will succeed.                       *)
Published(p) == /\ remote[Manifest(p)] = local[Manifest(p)]
                /\ Agree(p, Json(p))
                /\ Kind[p] = "alpha_gate" => Agree(p, Markdown(p))
PublishedInv == \A p \in Procs : Running(p) /\ Remote(p) =>
    /\ Phase(p) = "post_check" /\ run[p].postVerify = "pass" => Published(p)
    /\ Phase(p) = "exit" /\ report[p].passed => Published(p)

PublishInv == WrittenInv /\ CountedInv /\ ListedInv /\ PublishedInv

(* What a step of p does to the reports and to the remote tree, and what the  *)
(* phases that matter to the publication leave behind.                        *)
Paged(p) ==
    /\ \/ remote' = remote
       \/ local' = local /\ \E part : remote' = Copied(part)
    /\ \A q \in Procs : Exists(Json(q)) => local'[Json(q)] # Absent
    /\ \A q \in Procs : \/ local'[Markdown(q)] = local[Markdown(q)]
                        \/ /\ Kind[q] = Kind[p] /\ Running(p) /\ Phase(p) # "lock"
                           /\ local'[Markdown(q)] # Absent
Passed(p) ==
    /\ Phase(p) = "blank_report" => local'[Markdown(p)] # Absent
    /\ Phase(p) = "preset_write" => run'[p].paths = Collected(p)
    /\ Phase(p) = "preset_manifest" => DOMAIN local'[Manifest(p)] = run[p].paths
    /\ Phase(p) = "final_manifest" => DOMAIN local'[Manifest(p)] = Collected(p)
    /\ Phase(p) = "post_verify" /\ run'[p].postVerify = "pass" =>
         Verified(p) /\ local' = local /\ remote' = remote
    /\ Phase(p) = "post_check" /\ report'[p].passed =>
         local' = local /\ remote' = remote /\ run[p].postVerify = "pass"
Printing(p) == Paged(p) /\ (rc'[p] = "none" => Passed(p))

TellingPhases == {"blank_report", "preset_write", "preset_manifest", "final_manifest",
                  "post_verify", "post_check"}

(* A step that writes no file, in a phase that matters to no publication.     *)
LEMMA QuietPrints ==
  ASSUME NEW p \in Procs, local' = local, remote' = remote, Phase(p) \notin TellingPhases
  PROVE  Printing(p)
  BY DEF Printing, Paged, Passed, TellingPhases, Exists

(* A run that ends without writing.                                           *)
LEMMA EndPrints ==
  ASSUME NEW p \in Procs, local' = local, remote' = remote, rc'[p] # "none"
  PROVE  Printing(p)
  BY DEF Printing, Paged, Exists

(* Writing a report leaves the page of its own tool, and no report disappears. *)
LEMMA WritePages ==
  ASSUME NEW p \in Procs, TypeInv, Running(p), Phase(p) # "lock", remote' = remote,
         NEW r, r # Absent, local' = Written(p, r)
  PROVE  Paged(p) /\ local'[Markdown(p)] # Absent
  <1>1. local = [f \in File |-> local[f]] BY DEF TypeInv, TreeTypes
  <1>2. local' = [f \in File |-> IF f \in {Json(p), Markdown(p)} THEN r ELSE local[f]]
    BY <1>1 DEF Written
  <1>3. \A q \in Procs : Exists(Json(q)) => local'[Json(q)] # Absent BY <1>2, Names DEF Exists
  <1>4. \A q \in Procs : Markdown(q) = Markdown(p) => Kind[q] = Kind[p] BY DEF Markdown
  <1>5. \A q \in Procs : Markdown(q) # Markdown(p) => local'[Markdown(q)] = local[Markdown(q)]
    BY <1>2, Names
  <1>6. local'[Markdown(p)] = r BY <1>2, Names
  <1> QED BY <1>3, <1>4, <1>5, <1>6 DEF Paged

(* The report that was written is the one in memory, or the run failed.       *)
LEMMA ReportIsThere ==
  ASSUME NEW p \in Procs, TypeInv, TypeInv', NEW r, report' = [report EXCEPT ![p] = r]
  PROVE  r # Absent
  <1>1. report'[p] = r BY DEF TypeInv, ProcTypes
  <1>2. report'[p] \in Reports BY DEF TypeInv, ProcTypes
  <1> QED BY <1>1, <1>2, AbsentAssumption

(* The first report leaves a page.                                            *)
LEMMA BlankPrints ==
  ASSUME NEW p \in Procs, TypeInv, TypeInv', WriteBlankReport(p)
  PROVE  Printing(p)
  <1>1. Running(p) /\ Phase(p) = "blank_report" /\ remote' = remote
    BY DEF WriteBlankReport, At, Phase
  <1>2. PICK r : report' = [report EXCEPT ![p] = r] /\ local' = Written(p, r)
    BY DEF WriteBlankReport
  <1>3. r # Absent BY <1>2, ReportIsThere
  <1> QED BY <1>1, <1>2, <1>3, WritePages DEF Printing, Passed

(* A conclusion leaves a page.                                                *)
LEMMA ConcludePrints ==
  ASSUME NEW p \in Procs, TypeInv, TypeInv', Conclude(p)
  PROVE  Printing(p)
  <1>1. Running(p) /\ Phase(p) \in {"conclude", "final_conclude"} /\ remote' = remote
    BY DEF Conclude, At, Phase
  <1>2. PICK r : report' = [report EXCEPT ![p] = r] /\ local' = Written(p, r)
    BY DEF Conclude
  <1>3. r # Absent BY <1>2, ReportIsThere
  <1> QED BY <1>1, <1>2, <1>3, WritePages DEF Printing, Passed

(* The candidate collects its paths after the reports were written.           *)
LEMMA PresetPrints ==
  ASSUME NEW p \in Procs, TypeInv, TypeInv', PresetWrite(p)
  PROVE  Printing(p)
  <1>1. Running(p) /\ Phase(p) = "preset_write" /\ remote' = remote
        /\ run' = [run EXCEPT ![p].paths = Collected(p)]
    BY DEF PresetWrite, At, Phase
  <1>2. PICK r : report' = [report EXCEPT ![p] = r] /\ local' = Written(p, r)
    BY DEF PresetWrite
  <1>3. r # Absent BY <1>2, ReportIsThere
  <1>4. run'[p].paths = Collected(p) BY <1>1 DEF TypeInv, ProcTypes, Runs
  <1> QED BY <1>1, <1>2, <1>3, <1>4, WritePages DEF Printing, Passed

(* The beta tools rewrite their page.                                         *)
LEMMA PostConcludePrints ==
  ASSUME NEW p \in Procs, TypeInv, TypeInv', PostConclude(p)
  PROVE  Printing(p)
  <1>1. Running(p) /\ Phase(p) = "post_conclude" /\ remote' = remote
    BY DEF PostConclude, At, Phase
  <1>2. PICK r : report' = [report EXCEPT ![p] = r] /\ local' = Written(p, r)
    BY DEF PostConclude
  <1>3. r # Absent BY <1>2, ReportIsThere
  <1> QED BY <1>1, <1>2, <1>3, WritePages DEF Printing, Passed

(* The freeze check rewrites its page.                                        *)
LEMMA FreezeWritePrints ==
  ASSUME NEW p \in Procs, TypeInv, TypeInv', FreezeWrite(p)
  PROVE  Printing(p)
  <1>1. Running(p) /\ Phase(p) = "freeze_write" /\ remote' = remote
    BY DEF FreezeWrite, At, Phase
  <1>2. PICK r : report' = [report EXCEPT ![p] = r] /\ local' = Written(p, r)
    BY DEF FreezeWrite
  <1>3. r # Absent BY <1>2, ReportIsThere
  <1> QED BY <1>1, <1>2, <1>3, WritePages DEF Printing, Passed

(* The refresh leaves the page alone.                                         *)
LEMMA JsonPrints ==
  ASSUME NEW p \in Procs, TypeInv, WriteJson(p)
  PROVE  Printing(p)
  <1>1. Phase(p) = "json" /\ remote' = remote /\ local' = [local EXCEPT ![Json(p)] = report[p]]
    BY DEF WriteJson, At, Phase
  <1>2. local = [f \in File |-> local[f]] BY DEF TypeInv, TreeTypes
  <1>3. local' = [f \in File |-> IF f = Json(p) THEN report[p] ELSE local[f]] BY <1>1, <1>2
  <1>4. report[p] # Absent BY Typed, AbsentAssumption
  <1>5. \A q \in Procs : Exists(Json(q)) => local'[Json(q)] # Absent
    BY <1>3, <1>4, Names DEF Exists
  <1>6. \A q \in Procs : local'[Markdown(q)] = local[Markdown(q)] BY <1>3, Names
  <1> QED BY <1>1, <1>5, <1>6 DEF Printing, Paged, Passed

(* A manifest lists what was collected for it.                                *)
LEMMA ManifestPrints ==
  ASSUME NEW p \in Procs, TypeInv, WriteManifest(p)
  PROVE  Printing(p)
  <1> DEFINE paths == PathsToList(p)
  <1>1. Running(p) /\ Phase(p) \in ManifestPhases /\ remote' = remote
    BY DEF WriteManifest, At, Phase, ManifestPhases
  <1>2. IF ManifestRaises(paths)
        THEN Ends(p, "crash") /\ local' = local
        ELSE local' = [local EXCEPT ![Manifest(p)] = ManifestOf(paths)]
    BY DEF WriteManifest
  <1>3. CASE ManifestRaises(paths)
    <2>1. rc'[p] = "crash" BY <1>2, <1>3 DEF Ends, TypeInv, ProcTypes
    <2> QED BY <1>1, <1>2, <1>3, <2>1, EndPrints
  <1>4. CASE ~ManifestRaises(paths)
    <2>1. local = [f \in File |-> local[f]] BY DEF TypeInv, TreeTypes
    <2>2. local' = [f \in File |-> IF f = Manifest(p) THEN ManifestOf(paths) ELSE local[f]]
      BY <1>2, <1>4, <2>1
    <2>3. \A q \in Procs : /\ local'[Json(q)] = local[Json(q)]
                           /\ local'[Markdown(q)] = local[Markdown(q)]
      BY <2>2, Names
    <2>4. DOMAIN local'[Manifest(p)] = paths BY <2>2, Names DEF ManifestOf
    <2>5. Paged(p) BY <1>1, <2>3 DEF Paged, Exists
    <2>6. Phase(p) = "preset_manifest" => paths = run[p].paths
      BY <1>1 DEF PathsToList, At, Phase
    <2>7. Phase(p) = "final_manifest" => paths = Collected(p)
      BY <1>1 DEF PathsToList, At, Phase
    <2>8. Passed(p) BY <1>1, <2>4, <2>6, <2>7 DEF Passed, ManifestPhases
    <2> QED BY <2>5, <2>8 DEF Printing
  <1> QED BY <1>3, <1>4

(* The freshness gate writes no page, or ends the run.                        *)
LEMMA GatePrints ==
  ASSUME NEW p \in Procs, TypeInv, FreshnessGate(p)
  PROVE  Printing(p)
  <1>1. Running(p) /\ Phase(p) = "fresh_gate" /\ remote' = remote
    BY DEF FreshnessGate, At, Phase
  <1>2. CASE Freshness(p) = "pass"
    BY <1>1, <1>2, QuietPrints DEF FreshnessGate, TellingPhases
  <1>3. CASE Freshness(p) # "pass"
    <2>1. PICK r : local' = Written(p, r) BY <1>3 DEF FreshnessGate
    <2>2. Ends(p, "fail") BY <1>3 DEF FreshnessGate
    <2>3. rc'[p] = "fail" BY <2>2 DEF Ends, TypeInv, ProcTypes
    <2>4. local'[Json(p)] # Absent BY <1>1, <2>3, GateMoves DEF Moved, Advanced, Ended, Running
    <2>5. local = [f \in File |-> local[f]] BY DEF TypeInv, TreeTypes
    <2>6. local'[Json(p)] = r BY <2>1, <2>5, Names DEF Written
    <2>7. r # Absent BY <2>4, <2>6
    <2> QED BY <1>1, <2>1, <2>3, <2>7, WritePages DEF Printing
  <1> QED BY <1>2, <1>3

(* A sync copies, and writes nothing on this machine.                         *)
LEMMA CopyPrints ==
  ASSUME NEW p \in Procs, local' = local, NEW part, remote' = Copied(part),
         Phase(p) \notin TellingPhases
  PROVE  Printing(p)
  BY DEF Printing, Paged, Passed, TellingPhases, Exists

(* A check of the publication that passes has compared every listed file.     *)
LEMMA PostVerifyPrints ==
  ASSUME NEW p \in Procs, TypeInv, PostVerify(p)
  PROVE  Printing(p)
  <1>1. Phase(p) = "post_verify" /\ local' = local /\ remote' = remote
    BY DEF PostVerify, At, Phase, treeVars
  <1>2. PICK v \in Summary : VerifyOutcome(p, v) /\ run' = [run EXCEPT ![p].postVerify = v]
    BY DEF PostVerify
  <1>3. run'[p].postVerify = v BY <1>2 DEF TypeInv, ProcTypes, Runs
  <1>4. v = "pass" => Verified(p) BY <1>2 DEF VerifyOutcome
  <1> QED BY <1>1, <1>3, <1>4 DEF Printing, Paged, Passed, Exists

(* A run that still passes after the last check has changed no file since.    *)
LEMMA PostCheckPrints ==
  ASSUME NEW p \in Procs, TypeInv, TypeInv', PostCheck(p)
  PROVE  Printing(p)
  <1>1. Running(p) /\ Phase(p) = "post_check" /\ remote' = remote
    BY DEF PostCheck, At, Phase
  <1>2. CASE PostBad(p)
    <2> DEFINE r == [report[p] EXCEPT !.failures = {"step"}, !.passed = FALSE]
    <2>1. report' = [report EXCEPT ![p] = r] /\ local' = Written(p, r) BY <1>2 DEF PostCheck
    <2>2. ~r.passed BY Typed DEF Reports
    <2> HIDE DEF r
    <2>3. r # Absent BY <2>1, ReportIsThere
    <2>4. report'[p] = r BY <2>1 DEF TypeInv, ProcTypes
    <2> QED BY <1>1, <2>1, <2>2, <2>3, <2>4, WritePages DEF Printing, Passed
  <1>3. CASE ~PostBad(p)
    <2>1. local' = local /\ run[p].postVerify = "pass" BY <1>3 DEF PostCheck, PostBad
    <2> QED BY <1>1, <2>1 DEF Printing, Paged, Passed, Exists
  <1> QED BY <1>2, <1>3

(* The freeze check leaves a page.                                            *)
LEMMA FreezeCheckPrints ==
  ASSUME NEW p \in Procs, TypeInv, FreezeCheck(p)
  PROVE  Printing(p)
  <1>1. Running(p) /\ Phase(p) = "freeze_check" /\ remote' = remote
    BY DEF FreezeCheck, At, Phase
  <1>2. PICK left \in BOOLEAN, verify \in FinalVerify :
          local' = [local EXCEPT ![Markdown(p)] = FreezeReport(p, left, verify)]
    BY DEF FreezeCheck
  <1>3. FreezeReport(p, left, verify) # Absent BY FreezeReportTyped, AbsentAssumption
  <1>4. local = [f \in File |-> local[f]] BY DEF TypeInv, TreeTypes
  <1>5. local' = [f \in File |-> IF f = Markdown(p) THEN FreezeReport(p, left, verify) ELSE local[f]]
    BY <1>2, <1>4
  <1>6. \A q \in Procs : local'[Json(q)] = local[Json(q)] BY <1>5, Names
  <1>7. \A q \in Procs : Markdown(q) = Markdown(p) => Kind[q] = Kind[p] BY DEF Markdown
  <1>8. \A q \in Procs : Markdown(q) # Markdown(p) => local'[Markdown(q)] = local[Markdown(q)]
    BY <1>5, Names
  <1>9. local'[Markdown(p)] # Absent BY <1>3, <1>5, Names
  <1> QED BY <1>1, <1>6, <1>7, <1>8, <1>9 DEF Printing, Paged, Passed, Exists

(* The order of the last phases, and of the first ones, of an alpha tool.     *)
AlphaOrder(s) ==
    \A n \in 1 .. Len(s) - 1 :
        /\ s[n + 1] = "post_check" => s[n] = "post_verify"
        /\ s[n + 1] = "post_verify" => s[n] = "post_sync"
        /\ s[n + 1] = "post_sync" => s[n] = "fresh_gate"
        /\ s[n] \in {"preset_write", "final_manifest"} =>
             \E i \in 1 .. n - 1 : s[i] = "blank_report"
GateOrder(s) == \A n \in 1 .. Len(s) - 1 :
    /\ s[n + 1] = "exit" => s[n] = "post_check"
    /\ s[n + 1] = "fresh_gate" => s[n] = "final_manifest"
RcOrder(s) == \A n \in 1 .. Len(s) - 1 : s[n + 1] = "preset_manifest" => s[n] = "preset_write"
RemoteRcOrder(s) == \A n \in 1 .. Len(s) - 1 :
    /\ s[n + 1] = "exit" => s[n] = "post_check"
    /\ s[n + 1] = "fresh_gate" => s[n] = "preset_manifest"

(* The full gate publishes last: manifest, freshness gate, sync, verify,      *)
(* check, exit.                                                               *)
LEMMA FullGateOrder ==
  AlphaOrder(FullGatePhases) /\ GateOrder(FullGatePhases)
  <1>1. Len(FullGatePhases) = 22 BY DEF FullGatePhases
  <1>2. ASSUME NEW n \in 1 .. 21
        PROVE  /\ FullGatePhases[n + 1] = "post_check" => FullGatePhases[n] = "post_verify"
               /\ FullGatePhases[n + 1] = "post_verify" => FullGatePhases[n] = "post_sync"
               /\ FullGatePhases[n + 1] = "post_sync" => FullGatePhases[n] = "fresh_gate"
               /\ FullGatePhases[n + 1] = "exit" => FullGatePhases[n] = "post_check"
               /\ FullGatePhases[n + 1] = "fresh_gate" => FullGatePhases[n] = "final_manifest"
    BY DEF FullGatePhases
  <1>3. ASSUME NEW n \in 1 .. 21, FullGatePhases[n] \in {"preset_write", "final_manifest"}
        PROVE  4 \in 1 .. n - 1 /\ FullGatePhases[4] = "blank_report"
    BY <1>3 DEF FullGatePhases
  <1> QED BY <1>1, <1>2, <1>3 DEF AlphaOrder, GateOrder

(* The remote candidate collects, writes its manifest, and publishes last.    *)
LEMMA FullRcOrder ==
  AlphaOrder(FullRcPhases) /\ RcOrder(FullRcPhases) /\ RemoteRcOrder(FullRcPhases)
  <1>1. Len(FullRcPhases) = 15 BY DEF FullRcPhases
  <1>2. ASSUME NEW n \in 1 .. 14
        PROVE  /\ FullRcPhases[n + 1] = "post_check" => FullRcPhases[n] = "post_verify"
               /\ FullRcPhases[n + 1] = "post_verify" => FullRcPhases[n] = "post_sync"
               /\ FullRcPhases[n + 1] = "post_sync" => FullRcPhases[n] = "fresh_gate"
               /\ FullRcPhases[n + 1] = "exit" => FullRcPhases[n] = "post_check"
               /\ FullRcPhases[n + 1] = "fresh_gate" => FullRcPhases[n] = "preset_manifest"
               /\ FullRcPhases[n + 1] = "preset_manifest" => FullRcPhases[n] = "preset_write"
    BY DEF FullRcPhases
  <1>3. ASSUME NEW n \in 1 .. 14, FullRcPhases[n] \in {"preset_write", "final_manifest"}
        PROVE  3 \in 1 .. n - 1 /\ FullRcPhases[3] = "blank_report"
    BY <1>3 DEF FullRcPhases
  <1> QED BY <1>1, <1>2, <1>3 DEF AlphaOrder, RcOrder, RemoteRcOrder

(* The local candidate collects right before its last manifest.               *)
LEMMA LocalRcOrder ==
  AlphaOrder(LocalRcPhases) /\ RcOrder(LocalRcPhases)
  <1>1. Len(LocalRcPhases) = 10 BY DEF LocalRcPhases
  <1>2. ASSUME NEW n \in 1 .. 9
        PROVE  /\ LocalRcPhases[n + 1] \notin {"post_check", "post_verify", "post_sync"}
               /\ LocalRcPhases[n + 1] = "preset_manifest" => LocalRcPhases[n] = "preset_write"
    BY DEF LocalRcPhases
  <1>3. ASSUME NEW n \in 1 .. 9, LocalRcPhases[n] \in {"preset_write", "final_manifest"}
        PROVE  3 \in 1 .. n - 1 /\ LocalRcPhases[3] = "blank_report"
    BY <1>3 DEF LocalRcPhases
  <1> QED BY <1>1, <1>2, <1>3 DEF AlphaOrder, RcOrder

(* Every alpha tool that publishes does so in this order.                     *)
LEMMA AlphaOrdered ==
  ASSUME NEW p \in Procs
  PROVE  /\ Remote(p) => AlphaOrder(Program[p])
         /\ Remote(p) /\ Kind[p] = "alpha_gate" => GateOrder(Program[p])
         /\ Remote(p) /\ Kind[p] = "alpha_rc" => RemoteRcOrder(Program[p])
         /\ Kind[p] = "alpha_rc" => AlphaOrder(Program[p]) /\ RcOrder(Program[p])
  <1>1. Remote(p) /\ Kind[p] = "alpha_gate" => Program[p] = FullGatePhases
    BY FullGateSpelled DEF Remote, Program, ProgramOf
  <1>2. Remote(p) /\ Kind[p] = "alpha_rc" => Program[p] = FullRcPhases
    BY FullRcSpelled DEF Remote, Program, ProgramOf
  <1>3. Kind[p] = "alpha_rc" => Program[p] \in {FullRcPhases, LocalRcPhases}
    BY FullRcSpelled, LocalRcSpelled DEF Program, ProgramOf
  <1>4. Remote(p) => Kind[p] \in {"alpha_gate", "alpha_rc"} BY DEF Remote
  <1> QED BY <1>1, <1>2, <1>3, <1>4, FullGateOrder, FullRcOrder, LocalRcOrder

(* No tool starts in the middle of its publication.                           *)
LEMMA FirstPhase ==
  ASSUME NEW p \in Procs
  PROVE  /\ Remote(p) \/ Kind[p] = "alpha_rc" => Program[p][1] \in {"lock", "nested_gate"}
  <1>1. Remote(p) /\ Kind[p] = "alpha_gate" => Program[p] = FullGatePhases
    BY FullGateSpelled DEF Remote, Program, ProgramOf
  <1>2. Kind[p] = "alpha_rc" => Program[p] \in {FullRcPhases, LocalRcPhases}
    BY FullRcSpelled, LocalRcSpelled DEF Program, ProgramOf
  <1>3. Remote(p) => Kind[p] \in {"alpha_gate", "alpha_rc"} BY DEF Remote
  <1>4. FullGatePhases[1] = "lock" BY DEF FullGatePhases
  <1>5. FullRcPhases[1] = "nested_gate" BY DEF FullRcPhases
  <1>6. LocalRcPhases[1] = "nested_gate" BY DEF LocalRcPhases
  <1> QED BY <1>1, <1>2, <1>3, <1>4, <1>5, <1>6

(* The collection of an alpha tool finds the reports that are there.          *)
LEMMA CollectionLists ==
  ASSUME NEW p \in Procs, Kind[p] \in {"alpha_gate", "alpha_rc"},
         Exists(Json(p)), Exists(Markdown(p))
  PROVE  Lists(p, Collected(p))
  <1>1. CASE Kind[p] = "alpha_gate"
    <2>1. Collected(p) = collect_alpha_artifact_paths(Json(p)) BY <1>1 DEF Collected
    <2>2. Markdown(p) \in SharedArtifacts BY Names DEF SharedArtifacts, Markdown
    <2> QED BY <2>1, <2>2, Names DEF collect_alpha_artifact_paths, Lists
  <1>2. CASE Kind[p] = "alpha_rc"
    <2>1. Collected(p) = candidate_artifact_paths(p) BY <1>2 DEF Collected
    <2> QED BY <1>2, <2>1 DEF candidate_artifact_paths, Lists
  <1> QED BY <1>1, <1>2

(* A check that passes finds what is listed the same on both machines.        *)
LEMMA VerifiedPublishes ==
  ASSUME NEW p \in Procs, Verified(p), Lists(p, DOMAIN local[Manifest(p)])
  PROVE  Published(p)
  <1>1. ASSUME NEW f \in Listed(p) PROVE local[f] = remote[f] /\ ManifestHash(p, f) = local[f]
    <2>1. ArtifactStatus(p, f) = "match" BY DEF Verified
    <2> QED BY <2>1 DEF ArtifactStatus, Exists
  <1>2. Manifest(p) \in Listed(p) BY DEF Listed
  <1>3. ASSUME NEW f \in DOMAIN local[Manifest(p)], f # Manifest(p) PROVE Agree(p, f)
    BY <1>1, <1>3 DEF Listed, ManifestHash, Agree
  <1>4. Json(p) # Manifest(p) /\ Markdown(p) # Manifest(p) BY Names
  <1> QED BY <1>1, <1>2, <1>3, <1>4 DEF Published, Lists

(* What is published stays published while the files on this machine do.      *)
LEMMA StaysPublished ==
  ASSUME NEW p \in Procs, Published(p), TreeTypes,
         \/ remote' = remote
         \/ local' = local /\ \E part : remote' = Copied(part),
         local'[Json(p)] = local[Json(p)], local'[Manifest(p)] = local[Manifest(p)],
         Kind[p] = "alpha_gate" => local'[Markdown(p)] = local[Markdown(p)]
  PROVE  Published(p)'
  <1>1. Json(p) \in File /\ Manifest(p) \in File /\ Markdown(p) \in File BY Names
  <1>2. ASSUME NEW f \in File, remote[f] = local[f], local'[f] = local[f]
        PROVE  remote'[f] = local'[f]
    BY <1>2 DEF Copied
  <1>3. remote'[Manifest(p)] = local'[Manifest(p)] BY <1>1, <1>2 DEF Published
  <1>4. Agree(p, Json(p))' BY <1>1, <1>2 DEF Published, Agree, Json, Manifest
  <1>5. Kind[p] = "alpha_gate" => Agree(p, Markdown(p))'
    BY <1>1, <1>2 DEF Published, Agree, Markdown, Manifest
  <1> QED BY <1>3, <1>4, <1>5 DEF Published, Json, Markdown, Manifest

(* A step of p that is no start of a run.                                     *)
LEMMA PublishKeeps ==
  ASSUME NEW p \in Procs, TypeInv, TypeInv', ControlInv, PublishInv, Moved(p), Printing(p)
  PROVE  PublishInv'
  <1>1. \A q \in Procs \ {p} : Untouched(q) BY DEF Moved, Only
  <1>2. Running(p) /\ Paged(p) BY DEF Moved, Advanced, Ended, Printing
  <1>3. pc[p] \in Nat /\ pc[p] > 0 BY <1>2 DEF Running, TypeInv, ProcTypes
  <1>4. rc'[p] = "none" => /\ Advanced(p) /\ Passed(p) /\ pc'[p] = pc[p] + 1
                           /\ Phase(p) # "exit" /\ Past(p)' = Past(p) \cup {pc[p]}
                           /\ pc[p] \in 1 .. Len(Program[p]) - 1
    <2>1. SUFFICES ASSUME rc'[p] = "none"
                   PROVE  /\ Advanced(p) /\ Passed(p) /\ pc'[p] = pc[p] + 1
                          /\ Phase(p) # "exit" /\ Past(p)' = Past(p) \cup {pc[p]}
                          /\ pc[p] \in 1 .. Len(Program[p]) - 1
      OBVIOUS
    <2>2. Advanced(p) BY <2>1 DEF Moved, Ended
    <2>3. Passed(p) BY <2>1 DEF Printing
    <2>4. pc'[p] = pc[p] + 1 /\ Phase(p) # "exit" BY <2>2 DEF Advanced
    <2>5. Past(p)' = Past(p) \cup {pc[p]} BY <1>3, <2>4 DEF Past
    <2>6. pc[p] + 1 \in 1 .. Len(Program[p]) /\ Len(Program[p]) \in Nat BY <1>2, <2>4, AtPhase
    <2>7. pc[p] \in 1 .. Len(Program[p]) - 1 BY <1>3, <2>6
    <2> QED BY <2>2, <2>3, <2>4, <2>5, <2>7
  <1>5. pc'[p] = pc[p] \/ rc'[p] = "none" BY <1>2 DEF Moved, Advanced, Ended, Running
  <1>6. WrittenInv'
    <2> SUFFICES ASSUME NEW q \in Procs, NEW i \in Past(q)', Program[q][i] = "blank_report"
                 PROVE  local'[Json(q)] # Absent /\ local'[Markdown(q)] # Absent
      BY DEF WrittenInv, Exists, Json, Markdown
    <2>1. CASE i \in Past(q)
      <3>1. Exists(Json(q)) /\ Exists(Markdown(q)) BY <2>1 DEF PublishInv, WrittenInv
      <3> QED BY <3>1, <1>2 DEF Paged, Exists
    <2>2. CASE i \notin Past(q)
      <3>1. q = p BY <2>2, <1>1 DEF Untouched, Past
      <3>2. rc'[p] = "none" BY <2>2, <3>1, <1>5 DEF Past
      <3>3. i = pc[p] BY <2>2, <3>1, <3>2, <1>4
      <3>4. Phase(p) = "blank_report" BY <3>1, <3>3 DEF Phase
      <3>5. local'[Markdown(p)] # Absent BY <3>2, <3>4, <1>4 DEF Passed
      <3>6. local'[Json(p)] # Absent BY <3>2, <3>4, <1>4 DEF Advanced, WritePhases
      <3> QED BY <3>1, <3>5, <3>6
    <2> QED BY <2>1, <2>2
  <1>7. CountedInv'
    <2> SUFFICES ASSUME NEW q \in Procs, Running(q)', Kind[q] = "alpha_rc",
                        Program[q][pc'[q]] = "preset_manifest"
                 PROVE  Lists(q, run'[q].paths)
      BY DEF CountedInv, Phase, Lists, Json, Markdown
    <2>1. CASE q # p
      <3>1. Running(q) /\ Phase(q) = "preset_manifest" /\ run'[q] = run[q]
        BY <2>1, <1>1 DEF Untouched, Running, Phase
      <3> QED BY <3>1 DEF PublishInv, CountedInv
    <2>2. CASE q = p
      <3>1. rc'[p] = "none" BY <2>2 DEF Running
      <3>2. Phase(p) = "preset_write" BY <2>2, <3>1, <1>4, AlphaOrdered DEF RcOrder, Phase
      <3>3. \E i \in Past(p) : Program[p][i] = "blank_report"
        BY <2>2, <3>1, <3>2, <1>4, AlphaOrdered DEF AlphaOrder, Phase, Past
      <3>4. Exists(Json(p)) /\ Exists(Markdown(p)) BY <3>3 DEF PublishInv, WrittenInv
      <3>5. Lists(p, Collected(p)) BY <2>2, <3>4, CollectionLists
      <3> QED BY <2>2, <3>1, <3>2, <3>5, <1>4 DEF Passed
    <2> QED BY <2>1, <2>2
  <1>8. ListedInv'
    <2> SUFFICES ASSUME NEW q \in Procs, Running(q)', Remote(q),
                        Program[q][pc'[q]] \in {"fresh_gate", "post_sync", "post_verify"}
                 PROVE  Lists(q, DOMAIN local'[Manifest(q)])
      BY DEF ListedInv, Phase, Lists, Json, Markdown, Manifest, Remote
    <2>1. CASE q # p
      <3>1. Running(q) /\ Phase(q) \in {"fresh_gate", "post_sync", "post_verify"}
            /\ local'[Manifest(q)] = local[Manifest(q)]
        BY <2>1, <1>1 DEF Untouched, Running, Phase
      <3> QED BY <3>1 DEF PublishInv, ListedInv
    <2>2. CASE q = p
      <3>1. rc'[p] = "none" BY <2>2 DEF Running
      <3>2. Kind[p] \in {"alpha_gate", "alpha_rc"} BY <2>2 DEF Remote
      <3>3. CASE Program[p][pc[p] + 1] = "fresh_gate" /\ Kind[p] = "alpha_gate"
        <4>1. Phase(p) = "final_manifest"
          BY <2>2, <3>1, <3>3, <1>4, AlphaOrdered DEF GateOrder, Phase
        <4>2. \E i \in Past(p) : Program[p][i] = "blank_report"
          BY <2>2, <3>1, <4>1, <1>4, AlphaOrdered DEF AlphaOrder, Phase, Past
        <4>3. Exists(Json(p)) /\ Exists(Markdown(p)) BY <4>2 DEF PublishInv, WrittenInv
        <4>4. Lists(p, Collected(p)) BY <3>2, <4>3, CollectionLists
        <4> QED BY <2>2, <3>1, <4>1, <4>4, <1>4 DEF Passed
      <3>4. CASE Program[p][pc[p] + 1] = "fresh_gate" /\ Kind[p] = "alpha_rc"
        <4>1. Phase(p) = "preset_manifest"
          BY <2>2, <3>1, <3>4, <1>4, AlphaOrdered DEF RemoteRcOrder, Phase
        <4>2. Lists(p, run[p].paths) BY <3>4, <4>1, <1>2 DEF PublishInv, CountedInv
        <4> QED BY <2>2, <3>1, <4>1, <4>2, <1>4 DEF Passed
      <3>5. CASE Program[p][pc[p] + 1] \in {"post_sync", "post_verify"}
        <4>1. Phase(p) \in {"fresh_gate", "post_sync"}
          BY <2>2, <3>1, <3>5, <1>4, AlphaOrdered DEF AlphaOrder, Phase
        <4>2. Lists(p, DOMAIN local[Manifest(p)]) BY <2>2, <4>1, <1>2 DEF PublishInv, ListedInv
        <4>3. local'[Manifest(p)] = local[Manifest(p)]
          BY <3>1, <4>1, <1>4 DEF Advanced, ManifestPhases
        <4> QED BY <2>2, <4>2, <4>3
      <3> QED BY <2>2, <3>1, <3>2, <3>3, <3>4, <3>5, <1>4
    <2> QED BY <2>1, <2>2
  <1>9. PublishedInv'
    <2> SUFFICES ASSUME NEW q \in Procs, Running(q)', Remote(q),
                        \/ Program[q][pc'[q]] = "post_check" /\ run'[q].postVerify = "pass"
                        \/ Program[q][pc'[q]] = "exit" /\ report'[q].passed
                 PROVE  Published(q)'
      BY DEF PublishedInv, Phase, Remote
    <2>1. TreeTypes BY DEF TypeInv
    <2>2. CASE q # p
      <3>1. /\ Running(q) /\ Phase(q) \in {"post_check", "exit"}
            /\ Phase(q) = "post_check" => run[q].postVerify = "pass"
            /\ Phase(q) = "exit" => report[q].passed
            /\ local'[Json(q)] = local[Json(q)] /\ local'[Manifest(q)] = local[Manifest(q)]
        BY <2>2, <1>1 DEF Untouched, Running, Phase
      <3>2. Published(q) BY <3>1 DEF PublishInv, PublishedInv
      <3>3. ASSUME Kind[q] = "alpha_gate", local'[Markdown(q)] # local[Markdown(q)] PROVE FALSE
        <4>1. Kind[p] = "alpha_gate" /\ Phase(p) # "lock" BY <3>3, <1>2 DEF Paged
        <4>2. Program[p][1] = "lock" /\ Program[q][1] = "lock"
          BY <3>3, <4>1, ProgramShape DEF IsGate
        <4>3. pc[p] # 1 /\ pc[q] # 1 BY <3>1, <4>1, <4>2 DEF Phase
        <4>4. pc[q] \in Nat /\ pc[q] > 0 BY <3>1 DEF Running, TypeInv, ProcTypes
        <4>5. Working(p) /\ Working(q) BY <3>1, <4>3, <4>4, <1>2, <1>3 DEF Working
        <4>6. lock[LockOf(p)] = p /\ lock[LockOf(q)] = q
          BY <3>3, <4>1, <4>5 DEF ControlInv, LockInv, IsGate
        <4> QED BY <2>2, <3>3, <4>1, <4>6 DEF LockOf
      <3> QED BY <2>1, <3>1, <3>2, <3>3, <1>2, StaysPublished DEF Paged
    <2>3. CASE q = p
      <3>1. rc'[p] = "none" BY <2>3 DEF Running
      <3>2. Kind[p] \in {"alpha_gate", "alpha_rc"} BY <2>3 DEF Remote
      <3>3. CASE Program[p][pc[p] + 1] = "post_check" /\ run'[p].postVerify = "pass"
        <4>1. Phase(p) = "post_verify"
          BY <2>3, <3>1, <3>3, <1>4, AlphaOrdered DEF AlphaOrder, Phase
        <4>2. Verified(p) /\ local' = local /\ remote' = remote
          BY <3>1, <3>3, <4>1, <1>4 DEF Passed
        <4>3. Lists(p, DOMAIN local[Manifest(p)]) BY <2>3, <4>1, <1>2 DEF PublishInv, ListedInv
        <4>4. Published(p) BY <4>2, <4>3, VerifiedPublishes
        <4> QED BY <2>1, <2>3, <4>2, <4>4, StaysPublished
      <3>4. CASE Program[p][pc[p] + 1] = "exit" /\ report'[p].passed
        <4>1. Phase(p) = "post_check"
          BY <2>3, <3>1, <3>2, <3>4, <1>4, AlphaOrdered DEF GateOrder, RemoteRcOrder, Phase
        <4>2. local' = local /\ remote' = remote /\ run[p].postVerify = "pass"
          BY <3>1, <3>4, <4>1, <1>4 DEF Passed
        <4>3. Published(p) BY <2>3, <4>1, <4>2, <1>2 DEF PublishInv, PublishedInv
        <4> QED BY <2>1, <2>3, <4>2, <4>3, StaysPublished
      <3> QED BY <2>3, <3>1, <3>3, <3>4, <1>4
    <2> QED BY <2>2, <2>3
  <1> QED BY <1>6, <1>7, <1>8, <1>9 DEF PublishInv

(* A start, and a change of a file that is no report.                         *)
LEMMA PublishWaits ==
  ASSUME TypeInv, TypeInv', PublishInv, remote' = remote, rc' = rc, run' = run, report' = report,
         \A q \in Procs : pc'[q] = pc[q] \/ (pc[q] = 0 /\ pc'[q] = 1),
         \A q \in Procs : /\ local'[Json(q)] = local[Json(q)]
                          /\ local'[Manifest(q)] = local[Manifest(q)]
                          /\ local'[Markdown(q)] = local[Markdown(q)]
  PROVE  PublishInv'
  <1>1. ASSUME NEW q \in Procs, NEW i \in Past(q)' PROVE i \in Past(q)
    <2>1. CASE pc'[q] = pc[q] BY <1>1, <2>1 DEF Past
    <2>2. CASE pc'[q] = 1 BY <1>1, <2>2 DEF Past
    <2> QED BY <2>1, <2>2
  <1>2. ASSUME NEW q \in Procs, Remote(q) \/ Kind[q] = "alpha_rc",
               Program[q][pc'[q]] \notin {"lock", "nested_gate"}
        PROVE  pc'[q] = pc[q]
    BY <1>2, FirstPhase
  <1>3. WrittenInv' BY <1>1 DEF PublishInv, WrittenInv, Exists, Json, Markdown
  <1>4. CountedInv'
    <2> SUFFICES ASSUME NEW q \in Procs, Running(q)', Kind[q] = "alpha_rc",
                        Program[q][pc'[q]] = "preset_manifest"
                 PROVE  Lists(q, run[q].paths)
      BY DEF CountedInv, Phase, Lists, Json, Markdown
    <2>1. pc'[q] = pc[q] BY <1>2
    <2> QED BY <2>1 DEF PublishInv, CountedInv, Phase, Running
  <1>5. ListedInv'
    <2> SUFFICES ASSUME NEW q \in Procs, Running(q)', Remote(q),
                        Program[q][pc'[q]] \in {"fresh_gate", "post_sync", "post_verify"}
                 PROVE  Lists(q, DOMAIN local[Manifest(q)])
      BY DEF ListedInv, Phase, Lists, Json, Markdown, Manifest, Remote
    <2>1. pc'[q] = pc[q] BY <1>2
    <2> QED BY <2>1 DEF PublishInv, ListedInv, Phase, Running
  <1>6. PublishedInv'
    <2> SUFFICES ASSUME NEW q \in Procs, Running(q)', Remote(q),
                        \/ Program[q][pc'[q]] = "post_check" /\ run[q].postVerify = "pass"
                        \/ Program[q][pc'[q]] = "exit" /\ report[q].passed
                 PROVE  Published(q)'
      BY DEF PublishedInv, Phase, Remote
    <2>1. pc'[q] = pc[q] BY <1>2
    <2>2. Published(q) BY <2>1 DEF PublishInv, PublishedInv, Phase, Running
    <2> QED BY <2>2, StaysPublished DEF TypeInv
  <1> QED BY <1>3, <1>4, <1>5, <1>6 DEF PublishInv

(* Every step of a run but the starts of other runs.                          *)
LEMMA StepPrints ==
  ASSUME NEW p \in Procs, TypeInv, TypeInv', Step(p)
  PROVE  StartChild(p) \/ (Moved(p) /\ Printing(p))
  <1>1. CASE AcquireLock(p)
    <2>1. local' = local /\ remote' = remote /\ Phase(p) \notin TellingPhases
      BY <1>1 DEF AcquireLock, At, Phase, TellingPhases, treeVars
    <2> QED BY <1>1, <2>1, AcquireMoves, QuietPrints
  <1>2. CASE Refused(p)
    <2>1. local' = local /\ remote' = remote /\ Phase(p) \notin TellingPhases
      BY <1>2 DEF Refused, At, Phase, TellingPhases, treeVars
    <2> QED BY <1>2, <2>1, RefusedMoves, QuietPrints
  <1>3. CASE RunCommands(p)
    <2>1. local' = local /\ remote' = remote /\ Phase(p) \notin TellingPhases
      BY <1>3 DEF RunCommands, At, Phase, TellingPhases, treeVars
    <2> QED BY <1>3, <2>1, CommandsMove, QuietPrints
  <1>4. CASE RunMatrix(p)
    <2>1. local' = local /\ remote' = remote /\ Phase(p) \notin TellingPhases
      BY <1>4 DEF RunMatrix, At, Phase, TellingPhases, treeVars
    <2> QED BY <1>4, <2>1, MatrixMoves, QuietPrints
  <1>5. CASE RunSmoke(p)
    <2>1. local' = local /\ remote' = remote /\ Phase(p) \notin TellingPhases
      BY <1>5 DEF RunSmoke, At, Phase, TellingPhases, treeVars
    <2> QED BY <1>5, <2>1, SmokeMoves, QuietPrints
  <1>6. CASE ChildReturns(p)
    <2>1. local' = local /\ remote' = remote /\ Phase(p) \notin TellingPhases
      BY <1>6 DEF ChildReturns, AtChild, ChildPhases, Phase, TellingPhases, treeVars
    <2> QED BY <1>6, <2>1, ReturnMoves, QuietPrints
  <1>7. CASE ReuseGate(p)
    <2>1. local' = local /\ remote' = remote /\ Phase(p) \notin TellingPhases
      BY <1>7 DEF ReuseGate, At, Phase, TellingPhases, treeVars
    <2> QED BY <1>7, <2>1, ReuseMoves, QuietPrints
  <1>8. CASE WriteBlankReport(p) BY <1>8, BlankMoves, BlankPrints
  <1>9. CASE Conclude(p) BY <1>9, ConcludeMoves, ConcludePrints
  <1>10. CASE Decide(p)
    <2>1. local' = local /\ remote' = remote /\ Phase(p) \notin TellingPhases
      BY <1>10 DEF Decide, At, Phase, TellingPhases, treeVars
    <2> QED BY <1>10, <2>1, DecideMoves, QuietPrints
  <1>11. CASE PresetWrite(p) BY <1>11, PresetMoves, PresetPrints
  <1>12. CASE WriteJson(p) BY <1>12, JsonMoves, JsonPrints
  <1>13. CASE WriteManifest(p) BY <1>13, ManifestMoves, ManifestPrints
  <1>14. CASE CheckFreshness(p)
    <2>1. local' = local /\ remote' = remote /\ Phase(p) \notin TellingPhases
      BY <1>14 DEF CheckFreshness, At, Phase, TellingPhases, treeVars
    <2> QED BY <1>14, <2>1, FreshMoves, QuietPrints
  <1>15. CASE FreshnessGate(p) BY <1>15, GateMoves, GatePrints
  <1>16. CASE Sync(p)
    <2>1. local' = local /\ Phase(p) \notin TellingPhases
      BY <1>16 DEF Sync, At, Phase, TellingPhases
    <2> QED BY <1>16, <2>1, SyncMoves, CopyPrints
  <1>17. CASE Verify(p)
    <2>1. local' = local /\ remote' = remote /\ Phase(p) \notin TellingPhases
      BY <1>17 DEF Verify, At, Phase, TellingPhases, treeVars
    <2> QED BY <1>17, <2>1, VerifyMoves, QuietPrints
  <1>18. CASE PostSync(p)
    <2>1. local' = local /\ Phase(p) \notin TellingPhases
      BY <1>18 DEF PostSync, At, Phase, TellingPhases
    <2> QED BY <1>18, <2>1, PostSyncMoves, CopyPrints
  <1>19. CASE PostVerify(p) BY <1>19, PostVerifyMoves, PostVerifyPrints
  <1>20. CASE PostCheck(p) BY <1>20, PostCheckMoves, PostCheckPrints
  <1>21. CASE PostConclude(p) BY <1>21, PostConcludeMoves, PostConcludePrints
  <1>22. CASE FreezeCheck(p) BY <1>22, FreezeCheckMoves, FreezeCheckPrints
  <1>23. CASE FreezeWrite(p) BY <1>23, FreezeWriteMoves, FreezeWritePrints
  <1>24. CASE Exit(p)
    <2>1. local' = local /\ remote' = remote /\ Phase(p) \notin TellingPhases
      BY <1>24 DEF Exit, At, Phase, TellingPhases, treeVars
    <2> QED BY <1>24, <2>1, ExitMoves, QuietPrints
  <1> QED BY <1>1, <1>2, <1>3, <1>4, <1>5, <1>6, <1>7, <1>8, <1>9, <1>10, <1>11,
             <1>12, <1>13, <1>14, <1>15, <1>16, <1>17, <1>18, <1>19, <1>20, <1>21, <1>22, <1>23,
             <1>24
          DEF Step

(* A step keeps what was listed and published.                                *)
LEMMA StepPublishes ==
  ASSUME NEW p \in Procs, ToolsInv, PublishInv, Step(p)
  PROVE  PublishInv'
  <1>1. TypeInv /\ ControlInv /\ TypeInv' BY StepKeeps DEF ToolsInv
  <1>2. CASE Moved(p) /\ Printing(p) BY <1>1, <1>2, PublishKeeps
  <1>3. CASE StartChild(p)
    <2>1. Child(p) \in Procs BY <1>1, <1>3, ChildIsRun DEF StartChild
    <2>2. pc' = [pc EXCEPT ![Child(p)] = 1] /\ pc[Child(p)] = 0 /\ pc \in [Procs -> Nat]
      BY <1>1, <1>3 DEF StartChild, TypeInv, ProcTypes
    <2>3. \A q \in Procs : pc'[q] = pc[q] \/ (pc[q] = 0 /\ pc'[q] = 1) BY <2>1, <2>2
    <2>4. local' = local /\ remote' = remote /\ rc' = rc /\ run' = run /\ report' = report
      BY <1>3 DEF StartChild, treeVars
    <2> QED BY <1>1, <2>3, <2>4, PublishWaits
  <1> QED BY <1>1, <1>2, <1>3, StepPrints

(* A run that is killed publishes nothing and withdraws nothing.              *)
LEMMA KillPublishes ==
  ASSUME NEW p \in Procs, ToolsInv, PublishInv, Kill(p)
  PROVE  PublishInv'
  <1>1. TypeInv /\ ControlInv BY DEF ToolsInv
  <1>2. Moved(p) /\ local' = local /\ remote' = remote BY <1>1, KillMoves DEF Kill, treeVars
  <1>3. rc'[p] = "killed" BY <1>1 DEF Kill, Ends, TypeInv, ProcTypes
  <1>4. TypeInv' /\ Printing(p) BY <1>2, <1>3, EndPrints DEF Moved
  <1> QED BY <1>1, <1>2, <1>4, PublishKeeps

(* Nothing was published before the first run.                                *)
LEMMA InitPublishes == Init => PublishInv
  <1> SUFFICES ASSUME Init PROVE PublishInv
    OBVIOUS
  <1>1. \A p \in Procs : ~Running(p) /\ Past(p) = {} BY DEF Init, Running, Past
  <1> QED BY <1>1 DEF PublishInv, WrittenInv, CountedInv, ListedInv, PublishedInv

(* PublishInv is inductive relative to ToolsInv.                              *)
LEMMA NextPublishes == ToolsInv /\ PublishInv /\ [Next]_vars => PublishInv'
  <1> SUFFICES ASSUME ToolsInv, PublishInv, [Next]_vars PROVE PublishInv'
    OBVIOUS
  <1>1. TypeInv /\ TypeInv' BY NextKeepsTools DEF ToolsInv
  <1>2. pc \in [Procs -> Nat] BY <1>1 DEF TypeInv, ProcTypes
  <1>3. ASSUME NEW p \in Procs, Start(p) PROVE PublishInv'
    <2>1. \A q \in Procs : pc'[q] = pc[q] \/ (pc[q] = 0 /\ pc'[q] = 1)
      BY <1>2, <1>3 DEF Start
    <2>2. local' = local /\ remote' = remote /\ rc' = rc /\ run' = run /\ report' = report
      BY <1>3 DEF Start, treeVars
    <2> QED BY <1>1, <2>1, <2>2, PublishWaits
  <1>4. ASSUME NEW p \in Procs, Step(p) PROVE PublishInv' BY <1>4, StepPublishes
  <1>5. ASSUME NEW p \in Procs, Kill(p) PROVE PublishInv' BY <1>5, KillPublishes
  <1>6. ASSUME NEW d \in Docs, ForeignChange(d) PROVE PublishInv'
    <2>1. /\ local' = [local EXCEPT ![<<"doc", d>>] = events + 1]
          /\ remote' = remote /\ pc' = pc /\ rc' = rc /\ run' = run /\ report' = report
      BY <1>6 DEF ForeignChange, procVars
    <2>2. local = [f \in File |-> local[f]] BY <1>1 DEF TypeInv, TreeTypes
    <2>3. local' = [f \in File |-> IF f = <<"doc", d>> THEN events + 1 ELSE local[f]]
      BY <2>1, <2>2
    <2>4. \A q \in Procs : /\ Json(q) # <<"doc", d>> /\ Manifest(q) # <<"doc", d>>
                           /\ Markdown(q) # <<"doc", d>>
      BY DEF Json, Manifest, Markdown
    <2>5. \A q \in Procs : /\ local'[Json(q)] = local[Json(q)]
                           /\ local'[Manifest(q)] = local[Manifest(q)]
                           /\ local'[Markdown(q)] = local[Markdown(q)]
      BY <2>3, <2>4, Names
    <2> QED BY <1>1, <2>1, <2>5, PublishWaits
  <1>7. CASE UNCHANGED vars
    <2>1. local' = local /\ remote' = remote /\ pc' = pc /\ rc' = rc /\ run' = run
          /\ report' = report
      BY <1>7 DEF vars
    <2> QED BY <1>1, <2>1, PublishWaits
  <1> QED BY <1>3, <1>4, <1>5, <1>6, <1>7 DEF Next

(* A run succeeds only by leaving main() with a verdict that passes.          *)
LEMMA SuccessIsAtExit ==
  ASSUME ToolsInv, [Next]_vars, NEW p \in Procs, ExitsOk(p)
  PROVE  Running(p) /\ Phase(p) = "exit" /\ report[p].passed
  <1>1. TypeInv /\ ControlInv BY DEF ToolsInv
  <1>2. rc[p] = "none" /\ rc'[p] = "ok" BY DEF ExitsOk
  <1>3. ASSUME NEW q \in Procs, Step(q) PROVE Running(p) /\ Phase(p) = "exit" /\ report[p].passed
    <2>1. Moved(q) \/ rc' = rc BY <1>1, <1>3, StepKeeps, StepPrints DEF ToolsInv, StartChild
    <2>2. Moved(q) BY <1>2, <2>1
    <2>3. q = p BY <1>2, <2>2 DEF Moved, Only, Untouched
    <2>4. Ended(p) BY <1>2, <2>2, <2>3 DEF Moved, Advanced
    <2> QED BY <1>2, <2>4 DEF Ended
  <1>4. ASSUME NEW q \in Procs, Kill(q) PROVE FALSE
    <2>1. rc' = [rc EXCEPT ![q] = "killed"] /\ rc \in [Procs -> Outcomes]
      BY <1>1, <1>4 DEF Kill, Ends, TypeInv, ProcTypes
    <2> QED BY <1>2, <2>1
  <1>5. ASSUME NEW q \in Procs, Start(q) PROVE FALSE BY <1>2, <1>5 DEF Start
  <1>6. ASSUME NEW d \in Docs, ForeignChange(d) PROVE FALSE
    BY <1>2, <1>6 DEF ForeignChange, procVars
  <1>7. ~UNCHANGED vars BY <1>2 DEF vars
  <1> QED BY <1>3, <1>4, <1>5, <1>6, <1>7 DEF Next

(* What an alpha tool lists, copies and checks at its end stays listed and    *)
(* agreed on both machines until it exits, whatever other runs do meanwhile.  *)
THEOREM PublicationStays == Spec => []PublishInv
  <1>1. ToolsInv /\ ToolsInv' /\ PublishInv /\ [Next]_vars => PublishInv' BY NextPublishes
  <1> QED BY <1>1, InitPublishes, ToolsStayCorrect, PTL DEF Spec

(* A remote alpha tool that exits with 0 has both machines agree on its       *)
(* manifest and its reports.                                                  *)
LEMMA ExitPublishes ==
  ASSUME ToolsInv, PublishInv, [Next]_vars
  PROVE  \A p \in Procs : ExitsOk(p) /\ Remote(p) =>
            /\ remote[Manifest(p)] = local[Manifest(p)]
            /\ Agree(p, Json(p))
            /\ Kind[p] = "alpha_gate" => Agree(p, Markdown(p))
  <1> SUFFICES ASSUME NEW p \in Procs, ExitsOk(p), Remote(p) PROVE Published(p)
    BY DEF Published
  <1> QED BY SuccessIsAtExit DEF PublishInv, PublishedInv

(* In the step in which a remote alpha tool returns 0, both machines agree on *)
(* its manifest, its JSON and, for the gate, its Markdown report (post-report *)
(* sync and verify of main).                                                  *)
THEOREM SuccessWasPublished == Spec => SuccessIsPublished
  <1> DEFINE A == \A p \in Procs : ExitsOk(p) /\ Remote(p) =>
                    /\ remote[Manifest(p)] = local[Manifest(p)]
                    /\ Agree(p, Json(p))
                    /\ Kind[p] = "alpha_gate" => Agree(p, Markdown(p))
  <1>1. ToolsInv /\ PublishInv /\ [Next]_vars => A BY ExitPublishes
  <1>2. ToolsInv /\ PublishInv /\ [Next]_vars => [A]_vars BY <1>1
  <1>3. Spec => [][A]_vars BY <1>2, ToolsStayCorrect, PublicationStays, PTL DEF Spec
  <1> QED BY <1>3 DEF SuccessIsPublished

-----------------------------------------------------------------------------
(* What a freeze check rests on                                               *)

(* The newest JSON of a tool is one that was written, by a run of that tool.  *)
LatestInv ==
    /\ latest \in [Kinds -> Procs \cup {Absent}]
    /\ \A k \in Kinds : latest[k] # Absent => Kind[latest[k]] = k /\ Exists(Json(latest[k]))

(* A beta gate dies or is turned away before its first report only.           *)
BeforeReport == 6
EarlyInv == \A q \in Procs : Kind[q] = "beta_gate" =>
    /\ pc[q] <= BeforeReport => ~Exists(Json(q))
    /\ rc[q] \in {"refused", "crash"} => pc[q] <= BeforeReport

OverInv == \A y, q \in Procs :
    Kind[y] = "freeze" /\ Kind[q] = "beta_gate" /\ pc[y] > 0 => rc[q] # "none"

(* The verdict of a freeze check, in memory or as its exit status.            *)
Backed == latest["beta_gate"] # Absent /\ rc[latest["beta_gate"]] \in {"ok", "killed"}
FrozenInv == \A y \in Procs : Kind[y] = "freeze" =>
    /\ report[y].passed => pc[y] > 0 /\ Backed
    /\ rc[y] = "ok" => pc[y] > 0 /\ Backed

FreezeInv == LatestInv /\ EarlyInv /\ OverInv /\ FrozenInv

(* The beta gate runs no matrix of its own, and writes its manifests at once. *)
LEMMA BetaGateOnly ==
  ASSUME NEW p \in Procs, TypeInv, Running(p), Kind[p] = "beta_gate"
  PROVE  Phase(p) # "matrix" /\ (Phase(p) \in ManifestPhases => Phase(p) = "manifest")
  <1>1. Program[p] = BetaGatePhases BY BetaGateSpelled DEF Program, ProgramOf
  <1>2. pc[p] \in 1 .. 21
    <2>1. Len(BetaGatePhases) = 21 BY DEF BetaGatePhases
    <2> QED BY <1>1, <2>1, AtPhase
  <1>3. ASSUME NEW n \in 1 .. 21
        PROVE  BetaGatePhases[n] \notin {"matrix", "final_manifest", "remanifest", "preset_manifest"}
    BY DEF BetaGatePhases
  <1> QED BY <1>1, <1>2, <1>3 DEF Phase, ManifestPhases

(* What a step of p does to the newest reports, and what its verdict rests on. *)
Filed(p) ==
    /\ \/ latest' = latest
       \/ latest' = [latest EXCEPT ![Kind[p]] = p] /\ local'[Json(p)] # Absent
    /\ Kind[p] = "beta_gate" /\ pc[p] <= BeforeReport => local'[Json(p)] = local[Json(p)]
    /\ Kind[p] = "beta_gate" /\ rc'[p] \in {"refused", "crash"} => pc[p] <= BeforeReport
    /\ Kind[p] = "freeze" /\ report'[p].passed => report[p].passed \/ Payload("beta_gate").passed

EarlyPhases == {"lock", "quick_gate", "full_gate", "alpha_rc", "smoke", "commands"}

(* The first six phases of the beta gate are the ones before its first        *)
(* report.                                                                    *)
LEMMA GateEarly ==
  ASSUME NEW p \in Procs, TypeInv, Running(p), Kind[p] = "beta_gate"
  PROVE  pc[p] <= BeforeReport <=> Phase(p) \in EarlyPhases
  <1>1. Program[p] = BetaGatePhases BY BetaGateSpelled DEF Program, ProgramOf
  <1>2. pc[p] \in 1 .. 21
    <2>1. Len(BetaGatePhases) = 21 BY DEF BetaGatePhases
    <2> QED BY <1>1, <2>1, AtPhase
  <1>3. ASSUME NEW n \in 1 .. 21
        PROVE  n <= BeforeReport <=> BetaGatePhases[n] \in EarlyPhases
    BY DEF BetaGatePhases, BeforeReport, EarlyPhases
  <1> QED BY <1>1, <1>2, <1>3 DEF Phase

(* A step that writes no JSON, and no verdict of a freeze check.              *)
LEMMA QuietFiles ==
  ASSUME NEW p \in Procs, TypeInv, Running(p), latest' = latest, local'[Json(p)] = local[Json(p)],
         rc'[p] \notin {"refused", "crash"} \/ Phase(p) \in {"lock", "smoke"}
           \/ Kind[p] # "beta_gate",
         Kind[p] # "freeze" \/ (report'[p].passed => report[p].passed)
  PROVE  Filed(p)
  BY GateEarly DEF Filed, EarlyPhases

(* A run that advances quietly, or whose report is the one it had.            *)
LEMMA AdvanceFiles ==
  ASSUME NEW p \in Procs, TypeInv, Running(p), latest' = latest, local'[Json(p)] = local[Json(p)],
         rc' = rc, report' = report
  PROVE  Filed(p)
  <1>1. rc'[p] = "none" BY DEF Running
  <1> QED BY <1>1, QuietFiles

(* The same of the phases in which a freeze check says nothing.               *)
LEMMA NotFreezeFiles ==
  ASSUME NEW p \in Procs, TypeInv, Running(p), latest' = latest, local'[Json(p)] = local[Json(p)],
         rc' = rc, Phase(p) \notin {"freeze_check", "freeze_write", "exit"}
  PROVE  Filed(p)
  <1>1. rc'[p] = "none" BY DEF Running
  <1> QED BY <1>1, QuietFiles, NotFreeze

(* A step that writes the JSON of its run makes it the newest of its tool.    *)
LEMMA WriteFiles ==
  ASSUME NEW p \in Procs, TypeInv, Running(p), Wrote(p), local'[Json(p)] # Absent,
         rc'[p] \notin {"refused", "crash"}, Phase(p) \notin EarlyPhases,
         Kind[p] = "freeze" /\ report'[p].passed => Payload("beta_gate").passed
  PROVE  Filed(p)
  BY GateEarly DEF Filed, Wrote

(* A run that ends without writing.                                           *)
LEMMA EndFiles ==
  ASSUME NEW p \in Procs, TypeInv, Running(p), latest' = latest, local' = local,
         NEW o \in Outcomes, Ends(p, o),
         o \notin {"refused", "crash"} \/ Phase(p) \in {"lock", "smoke"} \/ Kind[p] # "beta_gate"
  PROVE  Filed(p)
  <1>1. rc'[p] = o BY DEF Ends, TypeInv, ProcTypes
  <1>2. report'[p] = EmptyReport BY DEF Ends, TypeInv, ProcTypes
  <1>3. ~report'[p].passed BY <1>2 DEF EmptyReport
  <1> QED BY <1>1, <1>3, QuietFiles

(* The phases in which a tool writes its JSON.                                *)
LEMMA ReportFiles ==
  ASSUME NEW p \in Procs, TypeInv, TypeInv', Running(p), Wrote(p), rc' = rc,
         Phase(p) \notin EarlyPhases \cup {"freeze_check", "freeze_write", "exit"},
         NEW r \in {report[p], report'[p]},
         local' = Written(p, r) \/ local' = [local EXCEPT ![Json(p)] = r]
  PROVE  Filed(p)
  <1>1. r # Absent BY AbsentAssumption DEF TypeInv, ProcTypes
  <1>2. local = [g \in File |-> local[g]] BY DEF TypeInv, TreeTypes
  <1>3. local'[Json(p)] = r BY <1>2, Names DEF Written
  <1>4. rc'[p] = "none" BY DEF Running
  <1> QED BY <1>1, <1>3, <1>4, NotFreeze, WriteFiles

(* A freeze check passes only when the newest beta gate report does           *)
(* (build_report).                                                            *)
LEMMA FreezeVerdict ==
  ASSUME NEW p, NEW left, NEW verify, FreezeReport(p, left, verify).passed, TypeInv, p \in Procs
  PROVE  Payload("beta_gate").passed
  <1>1. FreezeReport(p, left, verify) =
          [report[p] EXCEPT !.failures = FreezeReport(p, left, verify).failures,
                            !.passed = (FreezeReport(p, left, verify).failures = {})]
    BY Typed DEF FreezeReport, Reports
  <1>2. FreezeReport(p, left, verify).failures = {} BY <1>1, Typed DEF Reports
  <1>3. Failed("nested", ~Payload("beta_gate").passed \/ ~Payload("beta_rc").passed)
          \subseteq FreezeReport(p, left, verify).failures
    BY Typed DEF FreezeReport, Reports
  <1> QED BY <1>2, <1>3 DEF Failed

(* Every step of a run but the starts of other runs.                          *)
LEMMA StepFiles ==
  ASSUME NEW p \in Procs, TypeInv, TypeInv', Step(p)
  PROVE  Filed(p) \/ StartChild(p)
  <1>1. CASE AcquireLock(p)
    BY <1>1, AdvanceFiles DEF AcquireLock, At, treeVars
  <1>2. CASE Refused(p)
    BY <1>2, EndFiles DEF Refused, At, Phase, treeVars, Outcomes
  <1>3. CASE RunCommands(p)
    BY <1>3, NotFreezeFiles DEF RunCommands, At, Phase, treeVars
  <1>4. CASE RunMatrix(p)
    <2>1. Running(p) /\ Phase(p) = "matrix" /\ latest' = latest /\ local' = local
      BY <1>4 DEF RunMatrix, At, Phase, treeVars
    <2>2. Ends(p, "crash") \/ rc' = rc BY <1>4 DEF RunMatrix
    <2>3. CASE rc' = rc BY <2>1, <2>3, NotFreezeFiles
    <2>4. CASE Ends(p, "crash")
      <3>1. Kind[p] # "beta_gate" BY <2>1, BetaGateOnly
      <3> QED BY <2>1, <2>4, <3>1, EndFiles DEF Outcomes
    <2> QED BY <2>2, <2>3, <2>4
  <1>5. CASE RunSmoke(p)
    <2>1. Running(p) /\ Phase(p) = "smoke" /\ latest' = latest /\ local' = local
      BY <1>5 DEF RunSmoke, At, Phase, treeVars
    <2>2. Ends(p, "crash") \/ rc' = rc BY <1>5 DEF RunSmoke
    <2>3. CASE rc' = rc BY <2>1, <2>3, NotFreezeFiles
    <2>4. CASE Ends(p, "crash") BY <2>1, <2>4, EndFiles DEF Outcomes
    <2> QED BY <2>2, <2>3, <2>4
  <1>6. CASE ChildReturns(p)
    BY <1>6, AdvanceFiles DEF ChildReturns, AtChild, treeVars
  <1>7. CASE ReuseGate(p)
    BY <1>7, AdvanceFiles DEF ReuseGate, At, treeVars
  <1>8. CASE WriteBlankReport(p)
    <2>1. PICK r : report' = [report EXCEPT ![p] = r] /\ local' = Written(p, r)
      BY <1>8 DEF WriteBlankReport
    <2>2. r = report'[p] BY <2>1 DEF TypeInv, ProcTypes
    <2> QED BY <1>8, <2>1, <2>2, ReportFiles DEF WriteBlankReport, At, Phase, EarlyPhases
  <1>9. CASE Conclude(p)
    <2>1. PICK r : report' = [report EXCEPT ![p] = r] /\ local' = Written(p, r)
      BY <1>9 DEF Conclude
    <2>2. r = report'[p] BY <2>1 DEF TypeInv, ProcTypes
    <2> QED BY <1>9, <2>1, <2>2, ReportFiles DEF Conclude, At, Phase, EarlyPhases
  <1>10. CASE Decide(p)
    BY <1>10, NotFreezeFiles DEF Decide, At, Phase, treeVars
  <1>11. CASE PresetWrite(p)
    <2>1. PICK r : report' = [report EXCEPT ![p] = r] /\ local' = Written(p, r)
      BY <1>11 DEF PresetWrite
    <2>2. r = report'[p] BY <2>1 DEF TypeInv, ProcTypes
    <2> QED BY <1>11, <2>1, <2>2, ReportFiles DEF PresetWrite, At, Phase, EarlyPhases
  <1>12. CASE WriteJson(p)
    BY <1>12, ReportFiles DEF WriteJson, At, Phase, EarlyPhases
  <1>13. CASE WriteManifest(p)
    <2> DEFINE paths == PathsToList(p)
    <2>1. Running(p) /\ Phase(p) \in ManifestPhases /\ latest' = latest
      BY <1>13 DEF WriteManifest, At, Phase, ManifestPhases
    <2>2. IF ManifestRaises(paths)
          THEN Ends(p, "crash") /\ local' = local
          ELSE local' = [local EXCEPT ![Manifest(p)] = ManifestOf(paths)] /\ rc' = rc
      BY <1>13 DEF WriteManifest
    <2>3. CASE ManifestRaises(paths)
      <3>1. Kind[p] = "beta_gate" => paths = Collected(p)
        <4>1. Kind[p] = "beta_gate" => Phase(p) = "manifest" BY <2>1, BetaGateOnly
        <4> QED BY <2>1, <4>1 DEF PathsToList, At, Phase
      <3>2. Kind[p] # "beta_gate"
        BY <2>3, <3>1 DEF Collected, collect_beta_artifact_paths, ManifestRaises
      <3> QED BY <2>1, <2>2, <2>3, <3>2, EndFiles DEF Outcomes
    <2>4. CASE ~ManifestRaises(paths)
      <3>1. local = [f \in File |-> local[f]] BY DEF TypeInv, TreeTypes
      <3>2. local'[Json(p)] = local[Json(p)] BY <2>2, <2>4, <3>1, Names
      <3> QED BY <2>1, <2>2, <2>4, <3>2, NotFreezeFiles DEF ManifestPhases
    <2> QED BY <2>3, <2>4
  <1>14. CASE CheckFreshness(p)
    BY <1>14, NotFreezeFiles DEF CheckFreshness, At, Phase, treeVars
  <1>15. CASE FreshnessGate(p)
    <2>1. Running(p) /\ Phase(p) = "fresh_gate" BY <1>15 DEF FreshnessGate, At, Phase
    <2>2. CASE Freshness(p) = "pass"
      BY <1>15, <2>1, <2>2, NotFreezeFiles DEF FreshnessGate
    <2>3. CASE Freshness(p) # "pass"
      <3>1. Wrote(p) /\ Ends(p, "fail") BY <1>15, <2>3 DEF FreshnessGate
      <3>2. rc'[p] = "fail" BY <3>1 DEF Ends, TypeInv, ProcTypes
      <3>3. local'[Json(p)] # Absent
        BY <1>15, <2>1, <3>2, GateMoves DEF Moved, Advanced, Ended, Running
      <3>4. Kind[p] # "freeze" BY <2>1, NotFreeze
      <3> QED BY <2>1, <3>1, <3>2, <3>3, <3>4, WriteFiles DEF EarlyPhases
    <2> QED BY <2>2, <2>3
  <1>16. CASE Sync(p)
    BY <1>16, NotFreezeFiles DEF Sync, At, Phase
  <1>17. CASE Verify(p)
    BY <1>17, NotFreezeFiles DEF Verify, At, Phase, treeVars
  <1>18. CASE PostSync(p)
    BY <1>18, NotFreezeFiles DEF PostSync, At, Phase
  <1>19. CASE PostVerify(p)
    BY <1>19, NotFreezeFiles DEF PostVerify, At, Phase, treeVars
  <1>20. CASE PostCheck(p)
    <2>1. CASE PostBad(p)
      <3>1. PICK r : /\ report' = [report EXCEPT ![p] = r] /\ local' = Written(p, r) /\ Wrote(p)
        BY <1>20, <2>1 DEF PostCheck
      <3>2. r = report'[p] BY <3>1 DEF TypeInv, ProcTypes
      <3> QED BY <1>20, <3>1, <3>2, ReportFiles DEF PostCheck, At, Phase, EarlyPhases
    <2>2. CASE ~PostBad(p)
      BY <1>20, <2>2, NotFreezeFiles DEF PostCheck, At, Phase
    <2> QED BY <2>1, <2>2
  <1>21. CASE PostConclude(p)
    <2>1. PICK r : report' = [report EXCEPT ![p] = r] /\ local' = Written(p, r)
      BY <1>21 DEF PostConclude
    <2>2. r = report'[p] BY <2>1 DEF TypeInv, ProcTypes
    <2> QED BY <1>21, <2>1, <2>2, ReportFiles DEF PostConclude, At, Phase, EarlyPhases
  <1>22. CASE FreezeCheck(p)
    <2>1. PICK left \in BOOLEAN, verify \in FinalVerify :
          local' = [local EXCEPT ![Markdown(p)] = FreezeReport(p, left, verify)]
      BY <1>22 DEF FreezeCheck
    <2>2. local = [f \in File |-> local[f]] BY DEF TypeInv, TreeTypes
    <2>3. local'[Json(p)] = local[Json(p)] BY <2>1, <2>2, Names
    <2> QED BY <1>22, <2>3, AdvanceFiles DEF FreezeCheck, At
  <1>23. CASE FreezeWrite(p)
    <2>1. PICK left \in BOOLEAN, verify \in FinalVerify :
          /\ report' = [report EXCEPT ![p] = FreezeReport(p, left, verify)]
          /\ local' = Written(p, FreezeReport(p, left, verify))
      BY <1>23 DEF FreezeWrite
    <2>2. Running(p) /\ Phase(p) = "freeze_write" /\ rc' = rc /\ Wrote(p)
      BY <1>23 DEF FreezeWrite, At, Phase
    <2>3. report'[p] = FreezeReport(p, left, verify) BY <2>1 DEF TypeInv, ProcTypes
    <2>4. local = [f \in File |-> local[f]] BY DEF TypeInv, TreeTypes
    <2>5. local'[Json(p)] = FreezeReport(p, left, verify) BY <2>1, <2>4, Names DEF Written
    <2>6. local'[Json(p)] # Absent BY <2>5, FreezeReportTyped, AbsentAssumption
    <2>7. rc'[p] = "none" BY <2>2 DEF Running
    <2>8. report'[p].passed => Payload("beta_gate").passed BY <2>3, FreezeVerdict
    <2> QED BY <2>2, <2>6, <2>7, <2>8, WriteFiles DEF EarlyPhases
  <1>24. CASE Exit(p)
    <2> DEFINE o == IF report[p].passed THEN "ok" ELSE "fail"
    <2>1. Running(p) /\ Ends(p, o) /\ local' = local /\ latest' = latest
      BY <1>24 DEF Exit, At, treeVars
    <2>2. o \in Outcomes /\ o \notin {"refused", "crash"} BY DEF Outcomes
    <2> QED BY <2>1, <2>2, EndFiles
  <1> QED BY <1>1, <1>2, <1>3, <1>4, <1>5, <1>6, <1>7, <1>8, <1>9, <1>10, <1>11, <1>12, <1>13,
             <1>14, <1>15, <1>16, <1>17, <1>18, <1>19, <1>20, <1>21, <1>22, <1>23, <1>24
          DEF Step

(* A report that says the gate passed is the gate's, and the gate is over.    *)
LEMMA PayloadBacked ==
  ASSUME TypeInv, ControlInv, FreezeInv, NEW y \in Procs, Kind[y] = "freeze", pc[y] > 0,
         Payload("beta_gate").passed
  PROVE  Backed
  <1> DEFINE q == latest["beta_gate"]
  <1>1. q # Absent /\ local[Json(q)].passed BY DEF Payload, EmptyReport
  <1>2. q \in Procs /\ Kind[q] = "beta_gate" /\ Exists(Json(q))
    BY <1>1 DEF FreezeInv, LatestInv, Kinds
  <1> HIDE DEF q
  <1>3. rc[q] # "none" BY <1>2 DEF FreezeInv, OverInv
  <1>4. rc[q] \notin {"refused", "crash"} BY <1>2 DEF FreezeInv, EarlyInv
  <1>5. rc[q] # "fail" BY <1>1, <1>2 DEF ControlInv, StatusAgreesWithReport
  <1>6. rc[q] \in Outcomes BY <1>2 DEF TypeInv, ProcTypes
  <1>7. rc[q] \in {"ok", "killed"} BY <1>3, <1>4, <1>5, <1>6 DEF Outcomes
  <1> QED BY <1>1, <1>7 DEF Backed, q

(* A move of one run keeps what freeze checks rest on.                        *)
LEMMA FreezeKeeps ==
  ASSUME NEW p \in Procs, TypeInv, TypeInv', ControlInv, FreezeInv,
         Moved(p), Printing(p), Filed(p)
  PROVE  FreezeInv'
  <1>1. \A q \in Procs \ {p} : Untouched(q) BY DEF Moved, Only
  <1>2. Running(p) /\ rc[p] = "none" /\ pc[p] > 0 /\ pc[p] \in Nat
    BY DEF Moved, Advanced, Ended, Running, TypeInv, ProcTypes
  <1>3. pc'[p] = pc[p] \/ (pc'[p] = pc[p] + 1 /\ rc'[p] = "none")
    BY <1>2 DEF Moved, Advanced, Ended
  <1>4. LatestInv'
    <2>1. latest \in [Kinds -> Procs \cup {Absent}] /\ Kind[p] \in Kinds
      BY ProcsAssumption DEF FreezeInv, LatestInv
    <2>2. latest' \in [Kinds -> Procs \cup {Absent}] BY <2>1 DEF Filed
    <2>3. \A q \in Procs : Exists(Json(q)) => local'[Json(q)] # Absent BY DEF Printing, Paged
    <2>4. ASSUME NEW k \in Kinds, latest'[k] # Absent
          PROVE  Kind[latest'[k]] = k /\ local'[Json(latest'[k])] # Absent
      <3>1. CASE latest'[k] = latest[k]
        BY <2>1, <2>3, <2>4, <3>1 DEF FreezeInv, LatestInv
      <3>2. CASE latest'[k] # latest[k]
        <4>1. k = Kind[p] /\ latest'[k] = p /\ local'[Json(p)] # Absent BY <2>1, <3>2 DEF Filed
        <4> QED BY <4>1
      <3> QED BY <3>1, <3>2
    <2> QED BY <2>2, <2>4 DEF LatestInv, Exists, Json
  <1>5. EarlyInv'
    <2> SUFFICES ASSUME NEW q \in Procs, Kind[q] = "beta_gate"
                 PROVE  /\ pc'[q] <= BeforeReport => local'[Json(q)] = Absent
                        /\ rc'[q] \in {"refused", "crash"} => pc'[q] <= BeforeReport
      BY DEF EarlyInv, Exists, Json, BeforeReport
    <2>1. CASE q # p
      BY <2>1, <1>1 DEF FreezeInv, EarlyInv, Exists, Untouched
    <2>2. CASE q = p
      <3>1. pc'[p] <= BeforeReport => pc[p] <= BeforeReport BY <1>2, <1>3 DEF BeforeReport
      <3>2. pc[p] <= BeforeReport => local[Json(p)] = Absent /\ local'[Json(p)] = local[Json(p)]
        BY <2>2 DEF FreezeInv, EarlyInv, Exists, Filed
      <3>3. rc'[p] \in {"refused", "crash"} => pc'[p] <= BeforeReport
        BY <2>2, <1>3 DEF Filed
      <3> QED BY <2>2, <3>1, <3>2, <3>3
    <2> QED BY <2>1, <2>2
  <1>6. ASSUME NEW y \in Procs, pc'[y] > 0 PROVE pc[y] > 0
    BY <1>1, <1>2, <1>6 DEF Untouched
  <1>7. OverInv'
    <2> SUFFICES ASSUME NEW y \in Procs, NEW q \in Procs, Kind[y] = "freeze",
                        Kind[q] = "beta_gate", pc'[y] > 0
                 PROVE  rc'[q] # "none"
      BY DEF OverInv
    <2>1. rc[q] # "none" BY <1>6 DEF FreezeInv, OverInv
    <2> QED BY <2>1, <1>1, <1>2 DEF Untouched
  <1>8. ASSUME NEW y \in Procs, Kind[y] = "freeze", pc[y] > 0, Backed PROVE Backed'
    <2>1. Kind[p] # "beta_gate" BY <1>2, <1>8 DEF FreezeInv, OverInv
    <2>2. latest'["beta_gate"] = latest["beta_gate"]
      BY <2>1, ProcsAssumption DEF Filed, FreezeInv, LatestInv, Kinds
    <2>3. latest["beta_gate"] \in Procs /\ Kind[latest["beta_gate"]] = "beta_gate"
      BY <1>8 DEF Backed, FreezeInv, LatestInv, Kinds
    <2>4. rc'[latest["beta_gate"]] = rc[latest["beta_gate"]] BY <2>1, <2>3, <1>1 DEF Untouched
    <2> QED BY <1>8, <2>2, <2>4 DEF Backed
  <1>9. FrozenInv'
    <2> SUFFICES ASSUME NEW y \in Procs, Kind[y] = "freeze",
                        report'[y].passed \/ rc'[y] = "ok"
                 PROVE  pc'[y] > 0 /\ Backed'
      BY DEF FrozenInv
    <2>1. CASE y # p
      <3>1. pc[y] > 0 /\ Backed BY <2>1, <1>1 DEF Untouched, FreezeInv, FrozenInv
      <3> QED BY <2>1, <3>1, <1>1, <1>8 DEF Untouched
    <2>2. CASE y = p
      <3>1. pc'[p] > 0 BY <1>2, <1>3
      <3>2. Backed
        <4>1. CASE report'[p].passed
          <5>1. report[p].passed \/ Payload("beta_gate").passed BY <2>2, <4>1 DEF Filed
          <5> QED BY <2>2, <5>1, <1>2, PayloadBacked DEF FreezeInv, FrozenInv
        <4>2. CASE rc'[p] = "ok"
          <5>1. report[p].passed BY <4>2, <1>2 DEF Moved, Advanced, Ended
          <5> QED BY <2>2, <5>1 DEF FreezeInv, FrozenInv
        <4> QED BY <2>2, <4>1, <4>2
      <3> QED BY <2>2, <3>1, <3>2, <1>2, <1>8
    <2> QED BY <2>1, <2>2
  <1> QED BY <1>4, <1>5, <1>7, <1>9 DEF FreezeInv

(* A start, and a change of a file that is no report.                         *)
LEMMA FreezeWaits ==
  ASSUME TypeInv, FreezeInv, latest' = latest, rc' = rc, report' = report,
         \A q \in Procs : local'[Json(q)] = local[Json(q)],
         \A y \in Procs :
            \/ pc'[y] = pc[y]
            \/ /\ pc[y] = 0 /\ pc'[y] = 1
               /\ Kind[y] = "freeze" =>
                    \A q \in Procs : Kind[q] = "beta_gate" => rc[q] # "none"
  PROVE  FreezeInv'
  <1>1. LatestInv'
    <2>1. latest \in [Kinds -> Procs \cup {Absent}] BY DEF FreezeInv, LatestInv
    <2> QED BY <2>1 DEF FreezeInv, LatestInv, Exists, Json
  <1>2. \A q \in Procs : pc[q] \in Nat BY DEF TypeInv, ProcTypes
  <1>3. EarlyInv'
    <2> SUFFICES ASSUME NEW q \in Procs, Kind[q] = "beta_gate"
                 PROVE  /\ pc'[q] <= BeforeReport => local[Json(q)] = Absent
                        /\ rc[q] \in {"refused", "crash"} => pc'[q] <= BeforeReport
      BY DEF EarlyInv, Exists, Json, BeforeReport
    <2>1. pc'[q] <= BeforeReport <=> pc[q] <= BeforeReport BY <1>2 DEF BeforeReport
    <2> QED BY <2>1 DEF FreezeInv, EarlyInv, Exists
  <1>4. OverInv'
    <2> SUFFICES ASSUME NEW y \in Procs, NEW q \in Procs, Kind[y] = "freeze",
                        Kind[q] = "beta_gate", pc'[y] > 0
                 PROVE  rc[q] # "none"
      BY DEF OverInv
    <2> QED BY DEF FreezeInv, OverInv
  <1>5. FrozenInv'
    <2> SUFFICES ASSUME NEW y \in Procs, Kind[y] = "freeze", report[y].passed \/ rc[y] = "ok"
                 PROVE  pc'[y] > 0 /\ Backed'
      BY DEF FrozenInv
    <2>1. pc[y] > 0 /\ Backed BY DEF FreezeInv, FrozenInv
    <2> QED BY <2>1, <1>2 DEF Backed
  <1> QED BY <1>1, <1>3, <1>4, <1>5 DEF FreezeInv

(* No report is there before the first run.                                   *)
LEMMA InitFreeze == Init => FreezeInv
  <1> SUFFICES ASSUME Init PROVE FreezeInv
    OBVIOUS
  <1>1. /\ pc = [p \in Procs |-> 0] /\ rc = [p \in Procs |-> "none"]
        /\ report = [p \in Procs |-> EmptyReport] /\ latest = [k \in Kinds |-> Absent]
    BY DEF Init
  <1>2. \A p \in Procs : local[Json(p)] = Absent
    <2>1. PICK present \in SUBSET (Docs \ PrivateDocs) :
            local = [f \in File |-> IF f \in {"doc"} \X present THEN 0 ELSE Absent]
      BY DEF Init
    <2> TAKE p \in Procs
    <2>2. Json(p) \in File BY Names
    <2>3. Json(p) \notin {"doc"} \X present BY DEF Json
    <2> QED BY <2>1, <2>2, <2>3
  <1>3. LatestInv BY <1>1 DEF LatestInv
  <1>4. EarlyInv BY <1>1, <1>2 DEF EarlyInv, Exists
  <1>5. OverInv BY <1>1 DEF OverInv
  <1>6. FrozenInv BY <1>1 DEF FrozenInv, EmptyReport
  <1> QED BY <1>3, <1>4, <1>5, <1>6 DEF FreezeInv

(* FreezeInv is inductive relative to ToolsInv, when freeze checks come last. *)
LEMMA NextFreezes ==
  ASSUME FreezeComesLast, ToolsInv, FreezeInv, [Next]_vars
  PROVE  FreezeInv'
  <1>1. TypeInv /\ TypeInv' /\ ControlInv BY NextKeepsTools DEF ToolsInv
  <1>2. pc \in [Procs -> Nat] BY <1>1 DEF TypeInv, ProcTypes
  <1>3. ASSUME NEW p \in Procs, Start(p) PROVE FreezeInv'
    <2>1. p \in Operator /\ pc[p] = 0 /\ pc' = [pc EXCEPT ![p] = 1]
          /\ \A q \in After[p] : rc[q] # "none" \/ (q \notin Operator /\ pc[q] = 0)
      BY <1>3 DEF Start
    <2>2. Kind[p] = "freeze" => \A q \in Procs : Kind[q] = "beta_gate" => rc[q] # "none"
      BY <2>1 DEF FreezeComesLast
    <2>3. local' = local /\ latest' = latest /\ rc' = rc /\ report' = report
      BY <1>3 DEF Start, treeVars
    <2>4. \A y \in Procs : y # p => pc'[y] = pc[y] BY <1>2, <2>1
    <2>5. pc'[p] = 1 BY <1>2, <2>1
    <2> QED BY <1>1, <2>1, <2>2, <2>3, <2>4, <2>5, FreezeWaits
  <1>4. ASSUME NEW p \in Procs, StartChild(p) PROVE FreezeInv'
    <2>1. Child(p) \in Procs /\ Child(p) = Launch[<<p, Phase(p)>>] /\ Phase(p) \in ChildPhases
      BY <1>1, <1>4, ChildIsRun DEF StartChild
    <2>2. <<p, Phase(p)>> \in DOMAIN Launch
      <3>1. Running(p) BY <1>4 DEF StartChild, AtChild
      <3>2. pc[p] \in DOMAIN Program[p]
        BY <1>1, <3>1, AtPhase, ProgramShape DEF Shaped, EndsWithExit
      <3> QED BY <2>1, <3>2, LaunchAssumption DEF Phase
    <2>3. Kind[Child(p)] # "freeze" BY <2>1, <2>2 DEF FreezeComesLast
    <2>4. pc' = [pc EXCEPT ![Child(p)] = 1] /\ pc[Child(p)] = 0 BY <1>4 DEF StartChild
    <2>5. local' = local /\ latest' = latest /\ rc' = rc /\ report' = report
      BY <1>4 DEF StartChild, treeVars
    <2>6. \A y \in Procs : y # Child(p) => pc'[y] = pc[y] BY <1>2, <2>4
    <2>7. pc'[Child(p)] = 1 BY <1>2, <2>1, <2>4
    <2> QED BY <1>1, <2>3, <2>4, <2>5, <2>6, <2>7, FreezeWaits
  <1>5. ASSUME NEW p \in Procs, Step(p) PROVE FreezeInv'
    <2>1. CASE StartChild(p) BY <1>4, <2>1
    <2>2. CASE ~StartChild(p)
      <3>1. Moved(p) /\ Printing(p) BY <1>1, <1>5, <2>2, StepPrints
      <3>2. Filed(p) BY <1>1, <1>5, <2>2, StepFiles
      <3> QED BY <1>1, <3>1, <3>2, FreezeKeeps
    <2> QED BY <2>1, <2>2
  <1>6. ASSUME NEW p \in Procs, Kill(p) PROVE FreezeInv'
    <2>1. Moved(p) BY <1>1, <1>6, KillMoves
    <2>2. Running(p) /\ Ends(p, "killed") /\ local' = local /\ remote' = remote /\ latest' = latest
      BY <1>6 DEF Kill, treeVars
    <2>3. rc'[p] = "killed" BY <1>1, <2>2 DEF Ends, TypeInv, ProcTypes
    <2>4. Printing(p) BY <2>2, <2>3, EndPrints
    <2>5. Filed(p) BY <1>1, <2>2, EndFiles DEF Outcomes
    <2> QED BY <1>1, <2>1, <2>4, <2>5, FreezeKeeps
  <1>7. ASSUME NEW d \in Docs, ForeignChange(d) PROVE FreezeInv'
    <2>1. /\ local' = [local EXCEPT ![<<"doc", d>>] = events + 1]
          /\ pc' = pc /\ rc' = rc /\ report' = report /\ latest' = latest
      BY <1>7 DEF ForeignChange, procVars
    <2>2. local = [f \in File |-> local[f]] BY <1>1 DEF TypeInv, TreeTypes
    <2>3. local' = [f \in File |-> IF f = <<"doc", d>> THEN events + 1 ELSE local[f]]
      BY <2>1, <2>2
    <2>4. \A q \in Procs : Json(q) # <<"doc", d>> BY DEF Json
    <2>5. \A q \in Procs : local'[Json(q)] = local[Json(q)] BY <2>3, <2>4, Names
    <2> QED BY <1>1, <2>1, <2>5, FreezeWaits
  <1>8. CASE UNCHANGED vars
    <2>1. local' = local /\ pc' = pc /\ rc' = rc /\ report' = report /\ latest' = latest
      BY <1>8 DEF vars
    <2> QED BY <1>1, <2>1, FreezeWaits
  <1> QED BY <1>3, <1>5, <1>6, <1>7, <1>8 DEF Next

(* When freeze checks are run after the beta gates are over, one that passes  *)
(* rests on a beta gate that succeeded, or was killed after its first verdict, *)
(* never on one that failed, crashed or was refused (latest_result and        *)
(* build_report of run_beta_freeze_check.py).                                 *)
THEOREM FreezeWasBacked ==
  ASSUME FreezeComesLast
  PROVE  Spec => []FreezeIsBacked
  <1>1. ToolsInv /\ FreezeInv /\ [Next]_vars => FreezeInv' BY NextFreezes
  <1>2. FreezeInv => FreezeIsBacked BY DEF FreezeInv, FrozenInv, Backed, FreezeIsBacked
  <1> QED BY <1>1, <1>2, InitFreeze, ToolsStayCorrect, PTL DEF Spec
=============================================================================
