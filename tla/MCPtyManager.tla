----------------------------- MODULE MCPtyManager -----------------------------
(* Model values for the runs of PtyManager.  Terminals are interchangeable,  *)
(* so a run of safety properties may use their symmetry.                     *)
EXTENDS PtyManager, TLC

CONSTANTS t1, t2, p1, p2

MCTerms == {t1, t2}
MCOneTerm == {t1}
MCTwoPids == {p1, p2}
MCOnePid == {p1}

Symmetry == Permutations(MCTerms)

=============================================================================
