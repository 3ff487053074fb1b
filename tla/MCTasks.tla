------------------------------ MODULE MCTasks -------------------------------
(***************************************************************************)
(* A small board for TLC: two people, and the ways to staff a task.        *)
(***************************************************************************)
EXTENDS Tasks, TLC

CONSTANTS ann, bob, t1, t2, t3, r1, r2

Answered == [assignees |-> {bob}, reviewers |-> {bob}, responsible |-> ann]

MCTeams == {Answered}
MCMayClaim == {<<bob, t1>>}
Symmetry == Permutations(Requests)
=============================================================================
