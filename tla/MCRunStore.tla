----------------------------- MODULE MCRunStore -----------------------------
(* TLC instances of RunStore, ChildDeliveries and WorkspaceRestores.       *)
EXTENDS WorkspaceRestores, TLC

CONSTANTS w1, w2, c1, c2

Symmetry == Permutations(Runs) \cup Permutations(Sessions)

(* The workspace w2 is a directory of w1.                                  *)
Subdirectory == {<< w2, w1 >>}

(* Runs and their children; undo and rewind in two workspaces, one within  *)
(* the other; and a fork that is tried again, with its worktree, in which  *)
(* clients open sessions too.                                              *)
TreeSlice == [may |-> {"tree", "crash"}, runs |-> 3, sessions |-> 3,
              dirs |-> {w1}, commands |-> {}]
RewindSlice == [may |-> {"undo", "rewind"}, runs |-> 2, sessions |-> 2,
                dirs |-> {w1, w2}, commands |-> {c1, c2}]
ForkSlice == [may |-> {"fork", "crash"}, runs |-> 2, sessions |-> 2,
              dirs |-> {w1}, commands |-> {c1}]

StoreSlices == {TreeSlice, RewindSlice, ForkSlice}
RecoverySlices == {TreeSlice}

=============================================================================
