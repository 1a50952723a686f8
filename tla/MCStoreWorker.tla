--------------------------- MODULE MCStoreWorker ----------------------------
(* TLC instance of StoreWorker: writes and reads of every kind.            *)
EXTENDS StoreWorker

CONSTANTS write, read, after, out

Priorities1 == [j \in Jobs |-> CASE j = write -> "control"
                                 [] j = read -> "await"
                                 [] j = after -> "side"
                                 [] j = out -> "output"]
Joins1 == [j \in Jobs |-> CASE j = write -> "group"
                            [] j = after -> "after"
                            [] OTHER -> "never"]

=============================================================================
