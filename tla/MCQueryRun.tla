---- MODULE MCQueryRun ----
(***************************************************************************)
(* QueryRun for TLC.  Each constant names the overlaps a run performs.     *)
(***************************************************************************)
EXTENDS QueryRun, TLC

Symmetry == Permutations(Tabs) \union Permutations(Runs) \union Permutations(Loads)

\* A user who waits for a run and for a page before doing anything else, and who closes
\* nothing that is busy.
Patient == {}

\* Everything but a second run while one is in flight; and, for the size of the instance, without
\* closing the connection of a busy tab, which does to a cursor what closing the tab does, and
\* scrolling before the last page is on the screen, which concerns HasMore only.
OneRunAtATime == Overlaps \ {"run while running", "disconnect while busy", "scroll while appending"}

\* The tab is closed while its query runs.
CloseWhileBusy == {"close while busy"}
====
