---------------------------- MODULE MCLpmManager ----------------------------
(* TLC instances of LpmManager.  Tasks that are not framework managers are *)
(* interchangeable.                                                        *)
EXTENDS LpmManager, TLC

FreeTasks == Permutations(Tasks \ Managers)
=============================================================================
