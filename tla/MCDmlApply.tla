---- MODULE MCDmlApply ----
(***************************************************************************)
(* DmlApply for TLC.  Each constant names the overlaps a run performs.     *)
(***************************************************************************)
EXTENDS DmlApply, TLC

Symmetry == Permutations(Tabs) \union Permutations(Conns)
            \union Permutations(Batches) \union Permutations(Applies)

\* Nothing uses the connection during an apply, and the preview is answered first.
Undisturbed == {}

\* The user edits rows after choosing another connection for their tab.
EditElsewhere == {"edit after rebinding"}

\* The schema is read on the connection while a batch is being applied.
ReadMeanwhile == {"read while applying"}
====
