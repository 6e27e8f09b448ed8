---------------------------- MODULE TurnProtocol -----------------------------
(* What a thread promises to its clients: one turn at a time, each of which  *)
(* ends once, in completion only if its mission was proven complete; an      *)
(* archived thread stays closed.                                             *)

CONSTANT Turns

VARIABLES
    outcome,       \* of each turn
    proven,        \* turns whose mission is complete
    archived

vars == <<outcome, proven, archived>>

Init == outcome = [t \in Turns |-> "none"] /\ proven = {} /\ ~ archived

Quiet == \A t \in Turns : outcome[t] /= "open"

Accept(t) ==
    /\ ~ archived /\ Quiet /\ outcome[t] = "none"
    /\ outcome' = [outcome EXCEPT ![t] = "open"]
    /\ UNCHANGED <<proven, archived>>

End(t, how) ==
    /\ outcome[t] = "open"
    /\ how = "completed" => t \in proven
    /\ outcome' = [outcome EXCEPT ![t] = how]
    /\ UNCHANGED <<proven, archived>>

\* The mission of an open turn completes, or goes on after the turn ended.
Prove(t) ==
    /\ outcome[t] /= "none"
    /\ proven' = proven \cup {t}
    /\ UNCHANGED <<outcome, archived>>

Archive == Quiet /\ archived' /\ UNCHANGED <<outcome, proven>>

Next ==
    \/ \E t \in Turns : Accept(t) \/ Prove(t)
    \/ \E t \in Turns, how \in {"completed", "failed", "cancelled"} : End(t, how)
    \/ Archive

Spec == Init /\ [][Next]_vars
=============================================================================
