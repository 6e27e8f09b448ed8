---------------------------- MODULE OneShotWrite ----------------------------
(* What write-ahead dispatch promises about one external write, whatever     *)
(* crashes, retries and reconcilers do: the write is registered, claimed     *)
(* and closed in that order; its request goes out at most once, and only     *)
(* once it is claimed; it takes effect at most once.  What is not promised   *)
(* is in the specification too: a request may go out, and take effect,       *)
(* after the write was closed.                                               *)
EXTENDS Naturals

CONSTANT Writes

VARIABLES phase, sent, effects

vars == <<phase, sent, effects>>

Init ==
    /\ phase = [w \in Writes |-> "unknown"]
    /\ sent = [w \in Writes |-> 0]
    /\ effects = [w \in Writes |-> 0]

Register(w) ==
    /\ phase[w] = "unknown"
    /\ phase' = [phase EXCEPT ![w] = "registered"]
    /\ UNCHANGED <<sent, effects>>

Claim(w) ==
    /\ phase[w] = "registered"
    /\ phase' = [phase EXCEPT ![w] = "claimed"]
    /\ UNCHANGED <<sent, effects>>

Close(w) ==
    /\ phase[w] = "claimed"
    /\ phase' = [phase EXCEPT ![w] = "closed"]
    /\ UNCHANGED <<sent, effects>>

Send(w) ==
    /\ phase[w] \in {"claimed", "closed"}
    /\ sent[w] = 0
    /\ sent' = [sent EXCEPT ![w] = 1]
    /\ UNCHANGED <<phase, effects>>

TakeEffect(w) ==
    /\ sent[w] = 1
    /\ effects[w] = 0
    /\ effects' = [effects EXCEPT ![w] = 1]
    /\ UNCHANGED <<phase, sent>>

Next ==
    \E w \in Writes :
        Register(w) \/ Claim(w) \/ Close(w) \/ Send(w) \/ TakeEffect(w)

Spec == Init /\ [][Next]_vars
=============================================================================
