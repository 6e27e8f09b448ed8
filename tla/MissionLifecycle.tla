-------------------------- MODULE MissionLifecycle ---------------------------
(* What a mission promises to whoever watches its status, whatever its       *)
(* workers and operators do: it moves along the lifecycle, completes only    *)
(* once its work was validated, ends once, and when it is put in quarantine  *)
(* it stays as it is.                                                        *)

VARIABLES
    status,        \* where the mission is
    validated,     \* all steps of its plan are done and nothing is pending
    frozen         \* it is in quarantine

vars == <<status, validated, frozen>>

Waiting == {"waiting_approval", "waiting_input", "paused"}
Stopping == {"pause_requested", "cancel_requested"}
Working == {"planning", "running", "replanning", "retry_wait"}
Ended == {"completed", "failed", "canceled", "budget_exhausted"}

Init == status = "draft" /\ ~ validated /\ ~ frozen

Leave(from, to) ==
    /\ ~ frozen
    /\ status \in from
    /\ status' \in to
    /\ frozen' = frozen

\* Work begins once, and a draft can be refused.
Open == Leave({"draft"}, {"planning", "waiting_approval", "waiting_input",
                          "canceled", "failed"})

\* From planning a mission runs, and comes back to running from everywhere
\* but a request to stop.
Proceed == Leave(Working \cup Waiting, {"running", "replanning", "retry_wait"})

Wait == Leave(Working, {"waiting_approval", "waiting_input"})

AskToStop == Leave((Working \cup Waiting \cup {"pause_requested"}) \ {"planning"}, Stopping)

Stop == \/ Leave({"pause_requested"}, {"paused"})
        \/ Leave({"cancel_requested", "planning"}, {"canceled"})

Fail == Leave(Working, {"failed", "budget_exhausted"})

\* A passing proof is needed at the moment of completion.
Complete == validated /\ Leave({"running"}, {"completed"})

Quarantine == ~ frozen /\ frozen' /\ status' = status

\* Work may be validated, and new work may undo it, until the mission ended.
Work == ~ frozen /\ UNCHANGED <<status, frozen>>

Next == \/ Open \/ Proceed \/ Wait \/ AskToStop \/ Stop \/ Fail \/ Complete
        \/ Quarantine \/ Work

Spec == Init /\ [][Next]_vars
=============================================================================
