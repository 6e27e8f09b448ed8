----------------------------- MODULE ArcJournal ------------------------------
(* What the store of ARC missions promises: the history of a mission only    *)
(* grows, no event is in it twice, and an event whose commit returned stays. *)
EXTENDS Sequences, SequencesExt

CONSTANT Ids

VARIABLES history, promised

Init ==
    /\ history \in {<<>>} \cup {<<e>> : e \in Ids}
    /\ promised = {}

\* A commit may bring in earlier events of the same process with its own.
Extend ==
    /\ IsStrictPrefix(history, history')
    /\ IsInjective(history')
    /\ promised' \in {promised} \cup {promised \cup {e} : e \in ToSet(history')}

Next == Extend

Spec == Init /\ [][Next]_<<history, promised>>
=============================================================================
