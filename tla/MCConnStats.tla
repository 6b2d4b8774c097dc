---------------------------- MODULE MCConnStats -----------------------------
(* ConnStats for TLC: one short window and two that count.                 *)
EXTENDS ConnStats, TLC
ReportWindows == <<0, 1, 2>>
RequestSymmetry == Permutations(Requests)
=============================================================================
