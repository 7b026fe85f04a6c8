---- MODULE MCEditorBuffer ----
(***************************************************************************)
(* EditorBuffer for TLC.  Each constant names the overlaps a run performs. *)
(***************************************************************************)
EXTENDS EditorBuffer

\* The user waits for the editor and runs or switches before opening another tab.
Careful == {}

\* A tab is opened with text in the editor that no flush has fetched.
OpensUnflushed == {"open unflushed"}
====
