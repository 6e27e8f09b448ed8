---------------------------- MODULE TaskLifecycle ----------------------------
(* What an agent task promises to whoever watches its status.                *)
VARIABLE status

Init == status \in {"queued", "running"}

Start == status = "queued" /\ status' = "running"

RequestPause == status = "running" /\ status' = "pause_requested"

RequestCancel == status \in {"running", "pause_requested"} /\ status' = "cancel_requested"

Pause == status \in {"queued", "pause_requested"} /\ status' = "paused"

Cancel == /\ status \in {"queued", "paused", "cancel_requested", "retry_wait"}
          /\ status' = "canceled"

Resume == status \in {"paused", "failed", "retry_wait"} /\ status' = "queued"

\* The executor is gone: the task waits, or goes on from its checkpoint.
TakeBack == status = "running" /\ status' \in {"queued", "retry_wait"}

Fail == /\ status \in {"running", "pause_requested", "cancel_requested", "retry_wait"}
        /\ status' = "failed"

Complete == status = "running" /\ status' = "completed"

Next == \/ Start \/ RequestPause \/ RequestCancel \/ Pause \/ Cancel \/ Resume
        \/ TakeBack \/ Fail \/ Complete

Spec == Init /\ [][Next]_status
=============================================================================
