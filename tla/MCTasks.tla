------------------------------- MODULE MCTasks -------------------------------
(* Tasks with the two functions of the shell's demonstration. *)
EXTENDS Tasks

MCEntries == {"task_a_func", "task_b_func"}
==============================================================================
