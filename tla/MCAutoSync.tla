------------------------------ MODULE MCAutoSync ------------------------------
(* Instances of AutoSyncScheduler for TLC. *)
EXTENDS AutoSyncScheduler, TLC

CONSTANTS m1, m2, m3, m4, w1, r1, r2, k1, k2, txt, p, d1

DocsOfJobs == [j \in Jobs |-> IF j = txt THEN d1 ELSE p]
WholeSource == [k \in Syncs |-> Jobs \ Syncs]
SlotKeys == [s \in 0..1 |-> IF s = 0 THEN k1 ELSE k2]

Symmetry == Permutations(Msgs) \cup Permutations(Requesters)
===============================================================================
