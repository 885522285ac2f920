------------------------------- MODULE MCTaskOS -------------------------------
(***************************************************************************)
(* Instances of TaskOS for TLC: the kinds of the tasks of a run.           *)
(***************************************************************************)
EXTENDS TaskOS

CONSTANT t1    \* the /run task of the mixed run

AllJules == [t \in Tasks |-> "jules"]

\* One task of the chat and one of the research queue.
RunAndResearch == [t \in Tasks |-> IF t = t1 THEN "run" ELSE "research"]
=============================================================================
