----------------------------- MODULE MCSourceSync -----------------------------
(* Instances of SourceSyncSystem for TLC. *)
EXTENDS SourceSyncSystem, TLC

CONSTANTS m1, m2, m3, m4, w1, w2, r1, r2, k1, k2, pdf1, pdf2, txt, p, d1, d2, d3

DocsOfJobs == [j \in Jobs |-> CASE j \in {k1, k2} -> p [] j = pdf1 -> d1
                                [] j = pdf2 -> d2 [] OTHER -> d3]
WholeSource == [k \in Syncs |-> Jobs \ Syncs]

Symmetry == Permutations(Msgs) \cup Permutations(Workers) \cup Permutations(Requesters)
===============================================================================
