--------------------------- MODULE MCRunLifecycle ---------------------------
(* TLC instances of RunLifecycle.                                          *)
EXTENDS RunLifecycle

(* One session with three runs; a parent and its child, cancelled, told to *)
(* stop, deleted and recovered; the same in trouble, and with panics; and  *)
(* one session in trouble while its context is compacted.                  *)
SessionSlice == [runs |-> 3, may |-> {"auto", "inrun", "cancel"}]
TreeSlice == [runs |-> 2, may |-> {"child", "cancel", "tell", "crash", "compact", "delete"}]
FamilyFaults == [runs |-> 2, may |-> {"child", "shutdown", "store", "disconnect", "tell"}]
FamilyPanics == [runs |-> 2, may |-> {"child", "shutdown", "store", "panic"}]
StepFaults == [runs |-> 2, may |-> {"auto", "inrun", "shutdown", "store", "panic", "crash"}]
SafetySlices == {SessionSlice, TreeSlice, FamilyFaults, FamilyPanics, StepFaults}

(* The slices whose runs may work for ever are the ones where cancellation *)
(* and shutdown have to reach them.                                        *)
LiveSlices == {[runs |-> 2, may |-> {"cancel", "auto", "inrun", "panic"}],
               [runs |-> 2, may |-> {"child", "shutdown"}],
               [runs |-> 2, may |-> {"child", "panic", "end"}]}

CancelAgentSlices == {[runs |-> 2, may |-> {"child", "tell"}]}
DisconnectSlices == {[runs |-> 2, may |-> {"disconnect", "end"}]}

=============================================================================
