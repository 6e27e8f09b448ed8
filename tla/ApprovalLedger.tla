--------------------------- MODULE ApprovalLedger ----------------------------
(* What an approval is worth to whoever gives it: it is asked for, granted   *)
(* or closed, and spent at most once, on one operation, while it lasts.      *)

CONSTANT Requests

VARIABLES
    standing,      \* of each request
    lapsed         \* the requests whose time is over

vars == <<standing, lapsed>>

Init ==
    /\ standing = [r \in Requests |-> "absent"]
    /\ lapsed = [r \in Requests |-> FALSE]

Becomes(r, from, to) ==
    /\ standing[r] = from
    /\ standing' = [standing EXCEPT ![r] = to]
    /\ UNCHANGED lapsed

Ask(r) == Becomes(r, "absent", "asked")

Grant(r) == Becomes(r, "asked", "granted")

Spend(r) == ~ lapsed[r] /\ Becomes(r, "granted", "spent")

Close(r) == Becomes(r, "asked", "closed") \/ Becomes(r, "granted", "closed")

Lapse(r) ==
    /\ lapsed' = [lapsed EXCEPT ![r] = TRUE]
    /\ UNCHANGED standing

Next == \E r \in Requests : Ask(r) \/ Grant(r) \/ Spend(r) \/ Close(r) \/ Lapse(r)

Spec == Init /\ [][Next]_vars
=============================================================================
