-------------------------- MODULE MCWorkbenchTasks --------------------------
(* A small workbench for TLC: two tasks and one slot, so that one waits for    *)
(* the other.                                                                  *)
EXTENDS WorkbenchTasks, TLC

=============================================================================
