-------------------------- MODULE MCToolApprovals ---------------------------
(* TLC instances of ToolApprovals: a parent session and two child runs     *)
(* that share one permit.                                                  *)
EXTENDS ToolApprovals, TLC

CONSTANTS top, left, right, edit, question, command

Family == (top :> NoSession) @@ (left :> top) @@ (right :> top)
Turns == (left :> << edit, question >>) @@ (right :> << command >>)
Effects == (edit :> "effect") @@ (question :> "ask") @@ (command :> "effect")
Asking == [s \in Sessions |-> "Ask"]

(* Both runs compete for the permit while a steer interrupts them; one run *)
(* alone: with every mode of the two sessions and every kind of call, with *)
(* modes that change meanwhile, cancelled, with a client that disconnects  *)
(* and with no room for results.                                           *)
ModesOf(S) == {m \in [Sessions -> Modes] : m[right] = "Ask" /\ m[top] \in S /\ m[left] \in S}
KindsOf(K) == {[Effects EXCEPT ![edit] = k] : k \in K}
Contended == [mode: {Asking}, kind: {Effects}, runs: {Runs}, may: {{"steer"}}]
Policies == [mode: ModesOf(Modes), kind: KindsOf(Kinds), runs: {{left}}, may: {{}}]
Changing == [mode: ModesOf({"Ask", "Full"}), kind: KindsOf({"effect", "barred"}),
             runs: {{left}}, may: {{"mode"}}]
Cancelled == [mode: {Asking}, kind: {Effects}, runs: {{left}}, may: {{"cancel", "steer"}}]
Leaving == [mode: {Asking}, kind: {Effects}, runs: {{left}}, may: {{"disconnect"}}]
Crowded == [mode: ModesOf({"ReadOnly", "Ask"}), kind: {Effects}, runs: {{left}},
            may: {{"full", "steer"}}]
AllCases == Contended \cup Policies \cup Changing \cup Cancelled \cup Leaving \cup Crowded

=============================================================================
