------------------------------ MODULE ArcStore -------------------------------
(* The durable projection of one ARC mission (arc/store.py, arc/controller.py *)
(* apply_event, arc/event_migration.py).  API and worker processes each hold *)
(* a controller: a copy of the projection with the revision it was read at.  *)
(* An event is reduced onto the copy under the lock of the mission row, and  *)
(* row and journal are written in that transaction; the copy is plain memory *)
(* and keeps what it absorbed when the transaction fails.                    *)
(*                                                                           *)
(* Events are numbered in the order they are made; what a projection says is *)
(* abstracted to the sequence of events that were reduced into it.           *)
EXTENDS Naturals, FiniteSets, Sequences, SequencesExt

CONSTANTS
    Holders,       \* controllers of the mission in API and worker processes
    MaxEvents,     \* bound: events that are made
    MaxFaults,     \* bound: transactions that fail for no reason of the store's
    MaxLegacy,     \* bound: writes by a process that still runs older code
    Quiet          \* the older code writes while no failed COMMIT is about, and the
                   \* roll-back runs between reads and failures

ASSUME StoreAssumption ==
    /\ MaxEvents \in Nat /\ MaxFaults \in Nat /\ MaxLegacy \in Nat
    /\ Quiet \in BOOLEAN

Ids == 0..MaxEvents        \* 0: the event of a mission that older code began

VARIABLES
    row,           \* the row of arc_missions; revision 0: there is none
    journal,       \* arc_mission_events of the mission, by seq
    copy,          \* the controller of each holder
    reading,       \* the row that a holder read and whose journal it has yet to read
    made,          \* events made so far
    acked,         \* events whose commit returned
    faults, legacy \* used up so far

vars == <<row, journal, copy, reading, made, acked, faults, legacy>>

\* inline: events that older code left in projection_json.
Row == [revision : Nat, count : Nat, folded : Seq(Ids), inline : Seq(Ids)]

NoRow == [revision |-> 0, count |-> 0, folded |-> <<>>, inline |-> <<>>]

LegacyRow == [revision |-> 1, count |-> 0, folded |-> <<0>>, inline |-> <<0>>]

\* folded: what the fields of the projection reflect; events: its list of
\* events; dirty: it absorbed an event whose transaction failed.
Copy == [held : BOOLEAN, revision : Nat, folded : Seq(Ids), events : Seq(Ids), dirty : BOOLEAN]

NoCopy == [held |-> FALSE, revision |-> 0, folded |-> <<>>, events |-> <<>>, dirty |-> FALSE]

Init ==
    /\ row \in {NoRow, LegacyRow}
    /\ journal = <<>>
    /\ copy = [h \in Holders |-> NoCopy]
    /\ reading = [h \in Holders |-> NoRow]
    /\ made = 0 /\ acked = {} /\ faults = 0 /\ legacy = 0

-----------------------------------------------------------------------------
(* Reading and writing.                                                      *)

Exists == row.revision /= 0

\* The inline events that are not stored, in their order.
Missing(stored, inline) ==
    LET at     == {i \in DOMAIN inline : inline[i] \notin ToSet(stored)}
        Nth(k) == CHOOSE i \in at : Cardinality({j \in at : j <= i}) = k
    IN  [k \in 1..Cardinality(at) |-> inline[Nth(k)]]

\* Journalled events, then the inline events that the journal lacks.
Merged(stored, inline) == stored \o Missing(stored, inline)

\* Mutant: the revision is read again after the journal.
LoadedLate(r) ==
    [held |-> TRUE, revision |-> row.revision, folded |-> r.folded,
     events |-> Merged(journal, r.inline), dirty |-> FALSE]

Loaded(r) ==
    [held |-> TRUE, revision |-> r.revision, folded |-> r.folded,
     events |-> Merged(journal, r.inline), dirty |-> FALSE]

\* The copy that an event is reduced onto.
Rebased(h) == IF Exists /\ row.revision /= copy[h].revision THEN Loaded(row) ELSE copy[h]

Absorbed(c, e) ==
    [c EXCEPT !.folded = Append(@, e), !.events = Append(@, e), !.dirty = TRUE]

\* The first event_count events of the copy have to be the journalled ones;
\* only the last of them is compared.
Ahead(c) == row.count > Len(c.events)
Diverged(c) == row.count > 0 /\ journal[row.count] /= c.events[row.count]

\* Mutant: the last journalled event is not compared.
FitsUnchecked(c) == ~ Ahead(c)

Fits(c) == ~ Ahead(c) /\ ~ Diverged(c)

\* Mutant: only the newest event is journalled.
LastUnjournalled(c) == IF c.events = <<>> THEN <<>> ELSE <<Last(c.events)>>

Unjournalled(c) == SubSeq(c.events, row.count + 1, Len(c.events))

\* The unique constraint on (mission_id, event_id).
Unique(c) == IsInjective(journal \o Unjournalled(c))

\* Mutant: the revision is moved on twice.
WriteTwice(c) ==
    /\ journal' = journal \o Unjournalled(c)
    /\ row' = [revision |-> c.revision + 2, count |-> Len(c.events),
               folded |-> c.folded, inline |-> <<>>]

Write(c) ==
    /\ journal' = journal \o Unjournalled(c)
    /\ row' = [revision |-> c.revision + 1, count |-> Len(c.events),
               folded |-> c.folded, inline |-> <<>>]

Fault == faults < MaxFaults /\ faults' = faults + 1

-----------------------------------------------------------------------------
(* Processes.                                                                *)

\* The mission is new, so nobody else creates it.  If only the commit fails
\* the process goes on with a mission that has no row.
Create(h) ==
    /\ ~ Exists /\ \A g \in Holders : ~ copy[g].held
    /\ made = 0
    /\ copy' = [copy EXCEPT ![h] = [NoCopy EXCEPT !.held = TRUE, !.revision = 1]]
    /\ \/ row' = [NoRow EXCEPT !.revision = 1] /\ UNCHANGED faults
       \/ Fault /\ UNCHANGED row
    /\ UNCHANGED <<journal, reading, made, acked, legacy>>

Event == made + 1

Makes(h) ==
    /\ copy[h].held /\ reading[h] = NoRow
    /\ made < MaxEvents
    /\ made' = Event

\* The transaction goes through, whether or not the process hears of it.
Commit(h) ==
    LET c == Absorbed(Rebased(h), Event) IN
    /\ Makes(h)
    /\ Fits(c) /\ Unique(c)
    /\ Write(c)
    /\ copy' = [copy EXCEPT ![h] = [c EXCEPT !.revision = @ + 1, !.dirty = FALSE]]
    /\ \/ acked' = acked \cup {Event} /\ UNCHANGED faults
       \/ Fault /\ UNCHANGED acked
    /\ UNCHANGED <<reading, legacy>>

\* The store refuses the write, or the database does before it was flushed:
\* the copy keeps the event at the revision it had.
FlushFails(h) ==
    LET c == Absorbed(Rebased(h), Event) IN
    /\ Makes(h)
    /\ IF Fits(c) /\ Unique(c) THEN Fault ELSE UNCHANGED faults
    /\ copy' = [copy EXCEPT ![h] = c]
    /\ UNCHANGED <<row, journal, reading, acked, legacy>>

\* The revision of the copy is moved on before the session commits.
CommitFails(h) ==
    LET c == Absorbed(Rebased(h), Event) IN
    /\ Makes(h)
    /\ Fits(c) /\ Unique(c)
    /\ Fault
    /\ copy' = [copy EXCEPT ![h] = [c EXCEPT !.revision = @ + 1]]
    /\ UNCHANGED <<row, journal, reading, acked, legacy>>

\* The reducer refuses the event: the copy was brought up to date, no more.
ReducerRefuses(h) ==
    /\ copy[h].held /\ reading[h] = NoRow
    /\ copy' = [copy EXCEPT ![h] = Rebased(h)]
    /\ UNCHANGED <<row, journal, reading, made, acked, faults, legacy>>

\* get_controller: the row and the journal are read in two statements, and no
\* lock is held between them.
ReadRow(h) ==
    /\ Exists /\ reading[h] = NoRow
    /\ ~ copy[h].held \/ copy[h].revision /= row.revision
    /\ reading' = [reading EXCEPT ![h] = row]
    /\ UNCHANGED <<row, journal, copy, made, acked, faults, legacy>>

ReadJournal(h) ==
    /\ reading[h] /= NoRow
    /\ copy' = [copy EXCEPT ![h] = Loaded(reading[h])]
    /\ reading' = [reading EXCEPT ![h] = NoRow]
    /\ UNCHANGED <<row, journal, made, acked, faults, legacy>>

Restart(h) ==
    /\ copy' = [copy EXCEPT ![h] = NoCopy]
    /\ reading' = [reading EXCEPT ![h] = NoRow]
    /\ UNCHANGED <<row, journal, made, acked, faults, legacy>>

-----------------------------------------------------------------------------
(* A deploy: a process that still runs the code before the journal, and the  *)
(* tool that moves events between the two layouts under the row lock.        *)

History == Merged(journal, row.inline)

\* No read is under way, and no copy that may still be written is without an
\* event of the history.
Settled ==
    \A h \in Holders :
        /\ reading[h] = NoRow
        /\ copy[h].revision < row.revision \/ IsPrefix(History, copy[h].events)

\* No copy was left ahead of the row by a COMMIT that failed.
NoneAhead == \A h \in Holders : copy[h].revision <= row.revision

OldCommit ==
    /\ Exists /\ made < MaxEvents /\ legacy < MaxLegacy
    /\ Quiet => NoneAhead
    /\ row' = [row EXCEPT !.revision = @ + 1, !.folded = Append(@, Event),
                          !.inline = Append(@, Event)]
    /\ made' = Event /\ acked' = acked \cup {Event} /\ legacy' = legacy + 1
    /\ UNCHANGED <<journal, copy, reading, faults>>

\* The revision is not moved: the layout changes, the mission does not.
Migrate ==
    /\ Exists /\ row.inline /= <<>>
    /\ row.count = Len(journal)
    /\ journal' = History
    /\ row' = [row EXCEPT !.count = Len(History), !.inline = <<>>]
    /\ UNCHANGED <<copy, reading, made, acked, faults, legacy>>

Rollback ==
    /\ Exists /\ journal /= <<>>
    /\ Quiet => Settled
    /\ row' = [row EXCEPT !.count = 0, !.inline = History]
    /\ journal' = <<>>
    /\ UNCHANGED <<copy, reading, made, acked, faults, legacy>>

Next ==
    \/ \E h \in Holders :
          \/ Create(h) \/ Commit(h) \/ FlushFails(h) \/ CommitFails(h) \/ ReducerRefuses(h)
          \/ ReadRow(h) \/ ReadJournal(h) \/ Restart(h)
    \/ OldCommit \/ Migrate \/ Rollback

Spec == Init /\ [][Next]_vars

-----------------------------------------------------------------------------
(* Properties.                                                               *)

\* Type invariant; the revision moves at most once for each event.
TypeOK ==
    /\ row \in Row /\ row.revision <= made + 1
    /\ journal \in Seq(Ids)
    /\ copy \in [Holders -> Copy]
    /\ reading \in [Holders -> Row]
    /\ made \in 0..MaxEvents
    /\ acked \subseteq Ids
    /\ faults \in 0..MaxFaults
    /\ legacy \in 0..MaxLegacy

\* The stored projection is what replaying the stored events gives: no event
\* is reduced without being journalled, journalled without being reduced, or
\* reduced in another order (_write, load_projection).
SnapshotIsReplay == Exists => row.folded = History /\ row.count = Len(journal)

\* A controller at the revision of the row holds what the row and the journal
\* hold, unless it absorbed an event whose transaction failed: neither a read
\* torn by a commit nor a move of the layout leaves it with anything else
\* (get_controller, rebase).
CleanCopyIsCommitted ==
    \A h \in Holders :
        Exists /\ copy[h].revision = row.revision /\ ~ copy[h].dirty
            => copy[h].events = History /\ copy[h].folded = row.folded

Journal == INSTANCE ArcJournal WITH history <- History, promised <- acked

\* The history only grows, whoever writes it and whatever fails: every event
\* is in it once, none is overtaken by an event committed before it, and one
\* whose commit returned is never lost (the abstract ArcJournal).
ImplementsJournal == Journal!Spec

\* An event whose commit returned is in the history, by whatever code it was
\* written: store.py:153-155, "so neither loses nor duplicates an event".
AcknowledgedStays == acked \subseteq ToSet(History)

=============================================================================
