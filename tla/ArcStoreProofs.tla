--------------------------- MODULE ArcStoreProofs ----------------------------
(* The properties of ArcStore for any number of holders, events, faults and   *)
(* writes by older code.                                                      *)
(*                                                                            *)
(* An event is made once, at the end of one list, so the lists of events that *)
(* are stored or held in memory are the branches of a tree: two that share an *)
(* event agree on all that came before it.  This is what makes the last event *)
(* of the journal enough for _write to compare.                               *)
(*                                                                            *)
(* All but TypeCorrect suppose Quiet: no copy is ahead of the row, left there *)
(* by a COMMIT that failed, when older code writes; and when the journal is   *)
(* rolled back into the row nobody is reading, and no copy that may still be  *)
(* written lacks an event.                                                    *)
EXTENDS ArcStore, FiniteSetTheorems, SequenceTheorems, WellFoundedInduction, TLAPS

-----------------------------------------------------------------------------
(* The inductive invariant.                                                  *)

\* s is the beginning of t, or all of it.
Begins(s, t) == Len(s) <= Len(t) /\ \A i \in 1..Len(s) : s[i] = t[i]

\* An event of both is at one place in both, after the same events.
Agree(s, t) ==
    \A i \in 1..Len(s), j \in 1..Len(t) :
        s[i] = t[j] => i = j /\ \A k \in 1..i : s[k] = t[k]

\* The lists of events that the row and the controllers go by.
Lines == {row.folded} \cup {copy[h].events : h \in Holders}

\* They are the branches of one tree, and an event to come is on none.
LinesFit ==
    /\ \A s, t \in Lines : Agree(s, t)
    /\ \A s \in Lines : s \in Seq(0..made)

\* The row reflects the journal and what older code added after it.
RowFits ==
    /\ Exists => row.count = Len(journal)
    /\ ~ Exists => row = NoRow /\ journal = <<>>
    /\ row.folded = journal \o row.inline

\* What a controller holds, by its revision: only a failed commit leaves one
\* ahead of the row, and then by one.  Inline events are on every branch that
\* may still be written.
CopyFits(h) ==
    LET c == copy[h] IN
    /\ ~ c.held => c = NoCopy
    /\ c.revision >= row.revision => c.folded = c.events
    /\ Exists /\ c.revision = row.revision /\ ~ c.dirty => c.events = row.folded
    /\ Exists /\ c.revision > row.revision =>
          c.revision = row.revision + 1 /\ c.dirty /\ Len(c.events) > Len(row.folded)
    /\ row.inline /= <<>> /\ c.revision >= row.revision => Begins(row.folded, c.events)

\* The inline events of a row that was read are all journalled by now, or none
\* is and the row has them still, with those that older code added since.
ReadFits(h) ==
    LET r == reading[h] IN
    r /= NoRow =>
        /\ Exists /\ r.revision <= row.revision
        /\ \/ ToSet(r.inline) \subseteq ToSet(journal)
           \/ Begins(r.inline, row.inline)
        /\ r.revision = row.revision =>
              /\ r.folded = row.folded
              /\ row.inline /= <<>> => r.inline = row.inline

\* While there is no row, one process knows of the mission.
OneCreator == ~ Exists => \A g, h \in Holders : copy[g].held /\ copy[h].held => g = h

IInv ==
    /\ LinesFit
    /\ RowFits
    /\ \A h \in Holders : CopyFits(h) /\ ReadFits(h)
    /\ OneCreator
    /\ AcknowledgedStays

\* A revision stands for a commit, and a commit for an event.
NumbersFit ==
    /\ \A h \in Holders : copy[h].revision <= made + 1 /\ reading[h].revision <= made + 1

\* A copy that passes the comparison of one event has the whole journal.
LastCheckSuffices ==
    \A h \in Holders :
        LET c == Absorbed(Rebased(h), Event) IN
        made < MaxEvents /\ Fits(c) => Begins(journal, c.events)

-----------------------------------------------------------------------------
(* Sequences: the inline events that the journal lacks, and branches.        *)

\* A set of numbers has a least one.
LEMMA LeastNat ==
    ASSUME NEW S \in SUBSET Nat, S /= {}
    PROVE  \E n \in S : \A m \in S : n <= m
  <1> DEFINE R == OpToRel(<, Nat)
  <1>1. IsWellFoundedOn(R, Nat)
    BY NatLessThanWellFounded
  <1>2. \A x, y \in Nat : <<x, y>> \in R <=> x < y
    BY DEF OpToRel
  <1>3. PICK n \in S : \A m \in S : ~ (<<m, n>> \in R)
    <2> HIDE DEF R
    <2> QED
      BY <1>1, WFMin
  <1>4. ASSUME NEW m \in S PROVE n <= m
    <2>1. ~ (m < n)
      BY <1>2, <1>3
    <2> QED
      BY <2>1
  <1> QED
    BY <1>4

\* There are n numbers up to n.
LEMMA CountTo ==
    ASSUME NEW n \in Nat
    PROVE  IsFiniteSet(1..n) /\ Cardinality(1..n) = n
  <1>1. 1 \in Int /\ n \in Int
    OBVIOUS
  <1>2. IsFiniteSet(1..n) /\ Cardinality(1..n) = IF 1 > n THEN 0 ELSE n - 1 + 1
    BY <1>1, FS_Interval
  <1> QED
    BY <1>2

\* What is missing of a sequence is a sequence of the same elements.
LEMMA MissingTyped ==
    ASSUME NEW X, NEW stored \in Seq(X), NEW inline \in Seq(X)
    PROVE  Missing(stored, inline) \in Seq(X)
  <1> DEFINE at == {i \in DOMAIN inline : inline[i] \notin ToSet(stored)}
             UpTo(i) == {j \in at : j <= i}
             n == Len(inline)
  <1>1. n \in Nat /\ DOMAIN inline = 1..n /\ at \subseteq 1..n
    BY LenProperties
  <1>2. IsFiniteSet(1..n) /\ IsFiniteSet(at) /\ Cardinality(at) \in Nat
    <2>1. IsFiniteSet(1..n)
      BY <1>1, CountTo
    <2>2. IsFiniteSet(at)
      BY <1>1, <2>1, FS_Subset
    <2> QED
      BY <2>1, <2>2, FS_CardinalityType
  <1>3. ASSUME NEW i \in Nat PROVE IsFiniteSet(UpTo(i)) /\ Cardinality(UpTo(i)) \in Nat
    BY <1>2, FS_Subset, FS_CardinalityType
  <1>4. ASSUME NEW k \in 1..Cardinality(at)
        PROVE  \E i \in at : Cardinality(UpTo(i)) = k
    <2> DEFINE S == {i \in 1..n : Cardinality(UpTo(i)) >= k}
    <2>1. n \in S
      <3>1. UpTo(n) = at
        BY <1>1
      <3>2. at /= {}
        BY <1>2, <1>4, FS_EmptySet
      <3>3. n >= 1
        BY <3>2, <1>1
      <3>4. Cardinality(UpTo(n)) >= k
        <4> HIDE DEF UpTo, at
        <4> QED
          BY <3>1, <1>2, <1>4
      <3> HIDE DEF UpTo
      <3> QED
        BY <3>3, <3>4, <1>1
    <2>2. PICK i \in S : \A m \in S : i <= m
      <3>1. S \subseteq Nat /\ S /= {}
        <4> HIDE DEF UpTo, at
        <4> QED
          BY <1>1, <2>1
      <3> HIDE DEF S
      <3> QED
        BY <3>1, LeastNat
    <2>3. i \in 1..n /\ i \in Nat /\ i - 1 \in Nat /\ Cardinality(UpTo(i)) >= k
      BY <1>1, <2>2
    <2>4. Cardinality(UpTo(i - 1)) < k
      <3>1. CASE i = 1
        <4>1. UpTo(0) = {}
          BY <1>1
        <4> QED
          BY <3>1, <4>1, FS_EmptySet
      <3>2. CASE i /= 1
        <4>1. i - 1 \in 1..n /\ i - 1 \notin S
          BY <1>1, <2>2, <2>3, <3>2
        <4>2. ~ (Cardinality(UpTo(i - 1)) >= k)
          <5> HIDE DEF UpTo, at
          <5> QED
            BY <4>1
        <4> HIDE DEF UpTo, at
        <4> QED
          BY <4>2, <2>3, <1>3
      <3> QED
        BY <3>1, <3>2
    <2>5. i \in at
      <3>1. i \notin at => UpTo(i) = UpTo(i - 1)
        BY <1>1, <2>3
      <3> HIDE DEF UpTo, at
      <3> QED
        BY <3>1, <2>3, <2>4, <1>3
    <2>6. UpTo(i) = UpTo(i - 1) \cup {i} /\ i \notin UpTo(i - 1)
      BY <1>1, <2>3, <2>5
    <2>7. Cardinality(UpTo(i)) = Cardinality(UpTo(i - 1)) + 1
      <3> HIDE DEF UpTo, at
      <3> QED
        BY <2>6, <1>3, <2>3, FS_AddElement
    <2>8. Cardinality(UpTo(i)) = k
      <3> HIDE DEF UpTo, at
      <3> QED
        BY <2>3, <2>4, <2>7, <1>3
    <2> QED
      BY <2>5, <2>8
  <1> DEFINE Nth(k) == CHOOSE i \in at : Cardinality(UpTo(i)) = k
             m == Cardinality(at)
  <1>5. ASSUME NEW k \in 1..m PROVE inline[Nth(k)] \in X
    <2>1. Nth(k) \in at
      BY <1>4
    <2> QED
      BY <2>1, <1>1, ElementOfSeq
  <1>6. [k \in 1..m |-> inline[Nth(k)]] \in Seq(X)
    <2> HIDE DEF Nth, m
    <2> QED
      BY <1>5, <1>2, IsASeq DEF m
  <1> QED
    BY <1>6 DEF Missing

\* A journal that has the inline events lacks none,
LEMMA MissingNothing ==
    ASSUME NEW X, NEW stored \in Seq(X), NEW inline \in Seq(X),
           ToSet(inline) \subseteq ToSet(stored)
    PROVE  Missing(stored, inline) = <<>>
  <1> DEFINE at == {i \in DOMAIN inline : inline[i] \notin ToSet(stored)}
  <1>1. at = {}
    BY DEF ToSet
  <1>2. Cardinality(at) = 0 /\ 1..0 = {}
    <2> HIDE DEF at
    <2> QED
      BY <1>1, FS_EmptySet
  <1> DEFINE Nth(k) == CHOOSE i \in at : Cardinality({j \in at : j <= i}) = k
  <1>3. Missing(stored, inline) = [k \in 1..Cardinality(at) |-> inline[Nth(k)]]
    BY DEF Missing
  <1> HIDE DEF at, Nth
  <1> QED
    BY <1>2, <1>3

\* and one that shares none with them lacks all, in their order.
LEMMA MissingEverything ==
    ASSUME NEW X, NEW stored \in Seq(X), NEW inline \in Seq(X),
           ToSet(inline) \cap ToSet(stored) = {}
    PROVE  Missing(stored, inline) = inline
  <1> DEFINE at == {i \in DOMAIN inline : inline[i] \notin ToSet(stored)}
             n == Len(inline)
             Nth(k) == CHOOSE i \in at : Cardinality({j \in at : j <= i}) = k
  <1>1. n \in Nat /\ DOMAIN inline = 1..n /\ inline = [k \in 1..n |-> inline[k]]
    BY LenProperties
  <1>2. at = 1..n
    BY <1>1 DEF ToSet
  <1>3. Cardinality(at) = n
    BY <1>1, <1>2, CountTo
  <1>4. ASSUME NEW i \in 1..n PROVE Cardinality({j \in at : j <= i}) = i
    <2>1. {j \in at : j <= i} = 1..i
      BY <1>1, <1>2
    <2>2. Cardinality(1..i) = i
      BY <1>1, CountTo
    <2> QED
      BY <2>1, <2>2
  <1>5. ASSUME NEW k \in 1..n PROVE Nth(k) = k
    <2> HIDE DEF at
    <2> QED
    BY <1>2, <1>4
  <1>6. Missing(stored, inline) = [k \in 1..Cardinality(at) |-> inline[Nth(k)]]
    BY DEF Missing
  <1> HIDE DEF at, Nth
  <1>7. [k \in 1..Cardinality(at) |-> inline[Nth(k)]] = [k \in 1..n |-> inline[k]]
    BY <1>3, <1>5
  <1> QED
    BY <1>1, <1>6, <1>7

\* A merged list is a list.
LEMMA MergedTyped ==
    ASSUME NEW X, NEW stored \in Seq(X), NEW inline \in Seq(X)
    PROVE  Merged(stored, inline) \in Seq(X)
  <1>1. Missing(stored, inline) \in Seq(X)
    BY MissingTyped
  <1> QED
    BY <1>1, ConcatProperties DEF Merged

\* Where no event is on a list twice, merging the lists is appending them,
LEMMA MergedDisjoint ==
    ASSUME NEW X, NEW stored \in Seq(X), NEW inline \in Seq(X),
           Agree(stored \o inline, stored \o inline)
    PROVE  Merged(stored, inline) = stored \o inline
  <1> DEFINE whole == stored \o inline
  <1>1. Len(whole) = Len(stored) + Len(inline) /\ Len(stored) \in Nat /\ Len(inline) \in Nat
        /\ DOMAIN stored = 1..Len(stored) /\ DOMAIN inline = 1..Len(inline)
    BY ConcatProperties, LenProperties
  <1>2. ASSUME NEW a \in 1..Len(stored), NEW b \in 1..Len(inline), stored[a] = inline[b]
        PROVE  FALSE
    <2>1. a \in 1..Len(whole) /\ Len(stored) + b \in 1..Len(whole)
      BY <1>1
    <2>2. whole[a] = stored[a] /\ whole[Len(stored) + b] = inline[b]
      BY <1>1, <2>1, ConcatProperties
    <2>3. a = Len(stored) + b
      <3> HIDE DEF whole
      <3> QED
        BY <1>2, <2>1, <2>2 DEF Agree, whole
    <2> QED
      BY <1>1, <2>3
  <1>3. ToSet(inline) \cap ToSet(stored) = {}
    BY <1>1, <1>2 DEF ToSet
  <1> QED
    BY <1>3, MissingEverything DEF Merged

\* and merging what is journalled anyway changes nothing.
LEMMA MergedContained ==
    ASSUME NEW X, NEW stored \in Seq(X), NEW inline \in Seq(X),
           ToSet(inline) \subseteq ToSet(stored)
    PROVE  Merged(stored, inline) = stored
  BY MissingNothing, ConcatEmptySeq DEF Merged

\* Beginnings of a list after the same list.
LEMMA ConcatBegins ==
    ASSUME NEW u \in Seq(Ids), NEW s \in Seq(Ids), NEW t \in Seq(Ids), Begins(s, t)
    PROVE  Begins(u \o s, u \o t)
  <1>1. /\ Len(u) \in Nat /\ Len(s) \in Nat /\ Len(t) \in Nat /\ Len(s) <= Len(t)
        /\ Len(u \o s) = Len(u) + Len(s) /\ Len(u \o t) = Len(u) + Len(t)
    BY ConcatProperties, LenProperties DEF Begins
  <1>2. ASSUME NEW i \in 1..Len(u) + Len(s) PROVE (u \o s)[i] = (u \o t)[i]
    <2>1. i \in 1..Len(u) + Len(t)
      BY <1>1
    <2>2. /\ (u \o s)[i] = IF i <= Len(u) THEN u[i] ELSE s[i - Len(u)]
          /\ (u \o t)[i] = IF i <= Len(u) THEN u[i] ELSE t[i - Len(u)]
      BY <2>1, ConcatProperties
    <2>3. ~ (i <= Len(u)) => i - Len(u) \in 1..Len(s)
      BY <1>1
    <2> QED
      BY <2>2, <2>3 DEF Begins
  <1> QED
    BY <1>1, <1>2 DEF Begins

\* What begins a branch is on the tree.
LEMMA BeginAgrees ==
    ASSUME NEW s \in Seq(Ids), NEW t \in Seq(Ids), NEW u \in Seq(Ids),
           Begins(s, t), Agree(t, u)
    PROVE  Agree(s, u) /\ Agree(u, s)
  <1>1. /\ Len(s) \in Nat /\ Len(t) \in Nat /\ Len(u) \in Nat /\ Len(s) <= Len(t)
        /\ \A i \in 1..Len(s) : i \in 1..Len(t) /\ s[i] = t[i]
    BY LenProperties DEF Begins
  <1>2. ASSUME NEW i \in 1..Len(s), NEW j \in 1..Len(u), s[i] = u[j]
        PROVE  i = j /\ \A k \in 1..i : s[k] = u[k]
    <2>1. i = j /\ \A k \in 1..i : t[k] = u[k]
      BY <1>1, <1>2 DEF Agree
    <2>2. \A k \in 1..i : k \in 1..Len(s)
      BY <1>1
    <2> QED
      BY <1>1, <2>1, <2>2
  <1> QED
    BY <1>2 DEF Agree

\* Begins is the IsPrefix of the community modules, position by position.
LEMMA PrefixBegins ==
    ASSUME NEW s \in Seq(Ids), NEW t \in Seq(Ids), IsPrefix(s, t)
    PROVE  Begins(s, t)
  <1> DEFINE n == Len(s)
  <1>1. n \in Nat /\ Len(t) \in Nat /\ n <= Len(t) /\ SubSeq(s, 1, n) = SubSeq(t, 1, n)
    BY LenProperties DEF IsPrefix
  <1>2. SubSeq(s, 1, n) = s
    BY SubSeqFull
  <1>3. \A i \in 1..n : t[i] \in Ids
    BY <1>1, ElementOfSeq
  <1>4. \A i \in 1..n : SubSeq(t, 1, n)[i] = t[i]
    <2>1. 1 \in Int /\ n \in Int /\ n - 1 + 1 = n
      BY <1>1
    <2>2. \A i \in 1..(n - 1 + 1) : SubSeq(t, 1, n)[i] = t[1 + i - 1]
      <3> HIDE DEF n
      <3> QED
        BY <2>1, <1>3, SubSeqProperties
    <2>3. \A i \in 1..n : 1 + i - 1 = i
      BY <1>1
    <2> HIDE DEF n
    <2> QED
      BY <2>1, <2>2, <2>3
  <1> QED
    BY <1>1, <1>2, <1>4 DEF Begins

\* The tree grows: a new event after a branch is a branch.
LEMMA AgreeAppend ==
    ASSUME NEW X, NEW s \in Seq(X), NEW t \in Seq(X), NEW e \in X,
           Agree(s, s), Agree(s, t), Agree(t, s),
           \A i \in 1..Len(s) : s[i] /= e, \A j \in 1..Len(t) : t[j] /= e
    PROVE  /\ Agree(Append(s, e), t) /\ Agree(t, Append(s, e))
           /\ Agree(Append(s, e), Append(s, e))
  <1> DEFINE u == Append(s, e)
             n == Len(s)
  <1>1. /\ n \in Nat /\ Len(t) \in Nat /\ Len(u) = n + 1 /\ u[n + 1] = e
        /\ \A i \in 1..n : u[i] = s[i]
    BY AppendProperties, LenProperties
  <1> HIDE DEF u
  <1>2. \A i \in 1..Len(u) : i = n + 1 \/ i \in 1..n
    BY <1>1
  <1>3. Agree(u, t)
    <2> SUFFICES ASSUME NEW i \in 1..Len(u), NEW j \in 1..Len(t), u[i] = t[j]
                 PROVE  i = j /\ \A k \in 1..i : u[k] = t[k]
      BY DEF Agree
    <2>1. i \in 1..n
      BY <1>1, <1>2
    <2>2. i = j /\ \A k \in 1..i : s[k] = t[k]
      BY <1>1, <2>1 DEF Agree
    <2> QED
      BY <1>1, <2>1, <2>2
  <1>4. Agree(t, u)
    <2> SUFFICES ASSUME NEW j \in 1..Len(t), NEW i \in 1..Len(u), t[j] = u[i]
                 PROVE  j = i /\ \A k \in 1..j : t[k] = u[k]
      BY DEF Agree
    <2>1. i \in 1..n
      BY <1>1, <1>2
    <2>2. i = j /\ \A k \in 1..j : t[k] = s[k]
      BY <1>1, <2>1 DEF Agree
    <2> QED
      BY <1>1, <2>1, <2>2
  <1>5. Agree(u, u)
    <2> SUFFICES ASSUME NEW i \in 1..Len(u), NEW j \in 1..Len(u), u[i] = u[j]
                 PROVE  i = j
      BY DEF Agree
    <2>1. CASE i = n + 1 \/ j = n + 1
      BY <1>1, <1>2, <2>1
    <2>2. CASE i \in 1..n /\ j \in 1..n
      BY <1>1, <2>2 DEF Agree
    <2> QED
      BY <1>2, <2>1, <2>2
  <1> QED
    BY <1>3, <1>4, <1>5 DEF u

\* What begins a list and the rest of that list are the list.
LEMMA Splice ==
    ASSUME NEW X, NEW s \in Seq(X), NEW c \in Seq(X), Begins(s, c)
    PROVE  s \o SubSeq(c, Len(s) + 1, Len(c)) = c
  <1> DEFINE n == Len(s)
             m == Len(c)
             r == SubSeq(c, n + 1, m)
  <1>1. n \in Nat /\ m \in Nat /\ n <= m /\ \A i \in 1..n : s[i] = c[i]
    BY LenProperties DEF Begins
  <1>2. \A i \in (n + 1)..m : c[i] \in X
    BY <1>1, ElementOfSeq
  <1>3. /\ r \in Seq(X) /\ Len(r) = m - n
        /\ \A i \in 1..(m - n) : r[i] = c[n + i]
    <2>1. n + 1 \in Int /\ m \in Int
      BY <1>1
    <2>2. /\ r \in Seq(X)
          /\ Len(r) = IF n + 1 <= m THEN m - (n + 1) + 1 ELSE 0
          /\ \A i \in 1..(m - (n + 1) + 1) : r[i] = c[(n + 1) + i - 1]
      <3> HIDE DEF n, m
      <3> QED
        BY <2>1, <1>2, SubSeqProperties
    <2>3. \A i \in 1..(m - n) : i \in 1..(m - (n + 1) + 1) /\ (n + 1) + i - 1 = n + i
      BY <1>1
    <2> HIDE DEF n, m, r
    <2> QED
      BY <1>1, <2>2, <2>3
  <1> HIDE DEF r
  <1>4. /\ s \o r \in Seq(X) /\ Len(s \o r) = n + (m - n)
        /\ \A i \in 1..(n + (m - n)) : (s \o r)[i] = IF i <= n THEN s[i] ELSE r[i - n]
    BY <1>3, ConcatProperties
  <1>5. Len(s \o r) = m
    BY <1>1, <1>4
  <1>6. ASSUME NEW i \in 1..m PROVE (s \o r)[i] = c[i]
    <2>1. i \in 1..(n + (m - n))
      BY <1>1
    <2>2. CASE i <= n
      BY <1>1, <1>4, <2>1, <2>2
    <2>3. CASE ~ (i <= n)
      <3>1. i - n \in 1..(m - n) /\ n + (i - n) = i
        BY <1>1, <2>3
      <3>2. (s \o r)[i] = r[i - n]
        BY <1>4, <2>1, <2>3
      <3>3. r[i - n] = c[n + (i - n)]
        BY <3>1, <1>3
      <3> QED
        BY <3>1, <3>2, <3>3
    <2> QED
      BY <2>2, <2>3
  <1>7. s \o r = c
    BY <1>4, <1>5, <1>6, SeqEqual
  <1> QED
    BY <1>7 DEF r

-----------------------------------------------------------------------------
(* Types.                                                                    *)

TypeInv == TypeOK /\ NumbersFit

\* The fields of a copy,
LEMMA CopyParts ==
    ASSUME NEW c \in Copy
    PROVE  /\ c.held \in BOOLEAN /\ c.revision \in Nat /\ c.folded \in Seq(Ids)
           /\ c.events \in Seq(Ids) /\ c.dirty \in BOOLEAN
           /\ DOMAIN c = {"held", "revision", "folded", "events", "dirty"}
           /\ c = [held |-> c.held, revision |-> c.revision, folded |-> c.folded,
                   events |-> c.events, dirty |-> c.dirty]
  BY DEF Copy

\* of a row,
LEMMA RowParts ==
    ASSUME NEW r \in Row
    PROVE  /\ r.revision \in Nat /\ r.count \in Nat
           /\ r.folded \in Seq(Ids) /\ r.inline \in Seq(Ids)
           /\ r = [revision |-> r.revision, count |-> r.count, folded |-> r.folded,
                   inline |-> r.inline]
  BY DEF Row

\* and the numbers among them.
LEMMA NumbersTyped ==
    ASSUME TypeInv
    PROVE  /\ made \in Nat /\ row.revision \in Nat /\ row.count \in Nat
           /\ row.revision <= made + 1 /\ row.revision <= made + 1 + 1
           /\ \A h \in Holders : /\ copy[h].revision \in Nat
                                 /\ copy[h].revision <= made + 1
                                 /\ copy[h].revision <= made + 1 + 1
                                 /\ reading[h].revision \in Nat
                                 /\ reading[h].revision <= made + 1
                                 /\ reading[h].revision <= made + 1 + 1
  <1>1. made \in Nat
    BY StoreAssumption DEF TypeInv, TypeOK
  <1>2. row.revision \in Nat /\ row.count \in Nat /\ row.revision <= made + 1
    BY RowParts DEF TypeInv, TypeOK
  <1>3. ASSUME NEW h \in Holders
        PROVE  /\ copy[h].revision \in Nat /\ copy[h].revision <= made + 1
               /\ reading[h].revision \in Nat /\ reading[h].revision <= made + 1
    <2>1. copy[h] \in Copy /\ reading[h] \in Row
      BY DEF TypeInv, TypeOK
    <2> QED
      BY <2>1, CopyParts, RowParts DEF TypeInv, NumbersFit
  <1> QED
    BY <1>1, <1>2, <1>3

\* What a holder reads is a copy,
LEMMA LoadedTyped ==
    ASSUME TypeInv, NEW r \in Row
    PROVE  Loaded(r) \in Copy
  <1>1. Merged(journal, r.inline) \in Seq(Ids)
    BY MergedTyped DEF TypeInv, TypeOK, Row
  <1> QED
    BY <1>1 DEF Loaded, Copy, Row

\* also when it reads for the next event.
LEMMA RebasedTyped ==
    ASSUME TypeInv, NEW h \in Holders
    PROVE  Rebased(h) \in Copy /\ Rebased(h).revision <= made + 1
  <1>1. copy[h] \in Copy /\ copy[h].revision <= made + 1 /\ row \in Row /\ row.revision <= made + 1
    BY DEF TypeInv, TypeOK, NumbersFit
  <1>2. Loaded(row) \in Copy /\ Loaded(row).revision = row.revision
    BY <1>1, LoadedTyped DEF Loaded
  <1> QED
    BY <1>1, <1>2 DEF Rebased

\* The copy that the controller is about to write.
ToWrite(h) == Absorbed(Rebased(h), Event)

\* What it writes is that copy with the event at its end.
LEMMA ToWriteIs ==
    ASSUME TypeInv, NEW h \in Holders, made < MaxEvents
    PROVE  /\ ToWrite(h) \in Copy /\ ToWrite(h).revision <= made + 1
           /\ ToWrite(h).revision = Rebased(h).revision
           /\ ToWrite(h).events = Append(Rebased(h).events, Event)
           /\ ToWrite(h).folded = Append(Rebased(h).folded, Event)
           /\ ToWrite(h).dirty
           /\ ToWrite(h).held = Rebased(h).held
           /\ Event \in Ids
  <1> DEFINE c == Rebased(h)
  <1>1. c \in Copy /\ c.revision <= made + 1
    BY RebasedTyped
  <1>2. Event \in Ids
    BY StoreAssumption DEF TypeInv, TypeOK, Event, Ids
  <1> HIDE DEF c
  <1>3. Append(c.events, Event) \in Seq(Ids) /\ Append(c.folded, Event) \in Seq(Ids)
    BY <1>1, <1>2, AppendProperties DEF Copy
  <1>4. Absorbed(c, Event) \in Copy
    BY <1>1, <1>2, <1>3 DEF Absorbed, Copy
  <1>5. /\ Absorbed(c, Event).revision = c.revision /\ Absorbed(c, Event).held = c.held
        /\ Absorbed(c, Event).events = Append(c.events, Event)
        /\ Absorbed(c, Event).folded = Append(c.folded, Event)
        /\ Absorbed(c, Event).dirty
    BY <1>1, CopyParts DEF Absorbed
  <1> QED
    BY <1>1, <1>2, <1>4, <1>5 DEF ToWrite, c

LEMMA ToWriteTyped ==
    ASSUME TypeInv, NEW h \in Holders, Makes(h)
    PROVE  /\ ToWrite(h) \in Copy /\ ToWrite(h).revision <= made + 1
           /\ ToWrite(h).revision = Rebased(h).revision
           /\ ToWrite(h).events = Append(Rebased(h).events, Event)
           /\ ToWrite(h).folded = Append(Rebased(h).folded, Event)
           /\ ToWrite(h).dirty
           /\ ToWrite(h).held = Rebased(h).held
           /\ Event \in Ids /\ made' = made + 1 /\ made' \in 0..MaxEvents
  <1>1. made < MaxEvents /\ made' = made + 1 /\ made' \in 0..MaxEvents
    BY StoreAssumption DEF TypeInv, TypeOK, Makes, Event
  <1> QED
    BY <1>1, ToWriteIs

LEMMA TypeInit == Init => TypeInv
  <1> SUFFICES ASSUME Init PROVE TypeInv
    OBVIOUS
  <1>1. 0 \in Ids /\ <<>> \in Seq(Ids) /\ <<0>> \in Seq(Ids)
    BY StoreAssumption DEF Ids
  <1>2. NoRow \in Row /\ LegacyRow \in Row /\ NoCopy \in Copy
    BY <1>1 DEF NoRow, LegacyRow, NoCopy, Row, Copy
  <1> QED
    BY <1>1, <1>2, StoreAssumption
       DEF Init, TypeInv, TypeOK, NumbersFit, NoRow, LegacyRow, NoCopy

\* What a write leaves in row and journal.
LEMMA WriteTyped ==
    ASSUME TypeInv, NEW c \in Copy, Write(c)
    PROVE  row' \in Row /\ journal' \in Seq(Ids) /\ row'.revision = c.revision + 1
  <1>1. row.count + 1 \in Int /\ Len(c.events) \in Int /\ c.events \in Seq(Ids) /\ row.count \in Nat
    BY LenProperties DEF TypeInv, TypeOK, Row, Copy
  <1>2. \A i \in (row.count + 1)..Len(c.events) : c.events[i] \in Ids
    BY <1>1, ElementOfSeq
  <1>3. Unjournalled(c) \in Seq(Ids)
    BY <1>1, <1>2, SubSeqProperties DEF Unjournalled
  <1>4. journal' \in Seq(Ids)
    BY <1>3, ConcatProperties DEF Write, TypeInv, TypeOK
  <1>5. <<>> \in Seq(Ids) /\ Len(c.events) \in Nat
    BY <1>1, LenProperties
  <1> QED
    BY <1>4, <1>5 DEF Write, Row, Copy

LEMMA TypeNext == TypeInv /\ [Next]_vars => TypeInv'
  <1> SUFFICES ASSUME TypeInv, [Next]_vars PROVE TypeInv'
    OBVIOUS
  <1> USE StoreAssumption
  <1>0. made \in Nat /\ <<>> \in Seq(Ids) /\ NoRow \in Row /\ NoCopy \in Copy
    BY DEF TypeInv, TypeOK, NoRow, NoCopy, Row, Copy
  <1>1. ASSUME NEW h \in Holders, Create(h) PROVE TypeInv'
    <2>1. [NoRow EXCEPT !.revision = 1] \in Row
          /\ [NoCopy EXCEPT !.held = TRUE, !.revision = 1] \in Copy
          /\ [NoRow EXCEPT !.revision = 1].revision = 1
          /\ [NoCopy EXCEPT !.held = TRUE, !.revision = 1].revision = 1
      BY <1>0 DEF NoRow, NoCopy, Row, Copy
    <2> QED
      <3>1. row' \in Row /\ row'.revision <= made + 1 /\ faults' \in 0..MaxFaults
        <4>1. faults' \in 0..MaxFaults
          BY <1>1 DEF Create, TypeInv, TypeOK, Fault
        <4>2. row' = row \/ row' = [NoRow EXCEPT !.revision = 1]
          BY <1>1 DEF Create
        <4>3. row \in Row /\ row.revision <= made + 1 /\ 1 <= made + 1
          BY <1>0, NumbersTyped DEF TypeInv, TypeOK
        <4> QED
          BY <2>1, <4>1, <4>2, <4>3
      <3>2. copy' \in [Holders -> Copy] /\ \A g \in Holders : copy'[g].revision <= made + 1
        BY <1>0, <1>1, <2>1, NumbersTyped DEF Create, TypeInv, TypeOK
      <3> QED
        BY <1>1, <3>1, <3>2 DEF Create, TypeInv, TypeOK, NumbersFit
  <1>2. ASSUME NEW h \in Holders, Commit(h) PROVE TypeInv'
    <2> DEFINE c == ToWrite(h)
    <2>1. Makes(h) /\ Write(c)
          /\ copy' = [copy EXCEPT ![h] = [c EXCEPT !.revision = @ + 1, !.dirty = FALSE]]
      BY <1>2 DEF Commit, ToWrite
    <2>2. c \in Copy /\ c.revision <= made + 1 /\ Event \in Ids /\ made' = made + 1
          /\ made' \in 0..MaxEvents
      BY <2>1, ToWriteTyped
    <2>3. row' \in Row /\ journal' \in Seq(Ids) /\ row'.revision = c.revision + 1
      BY <2>1, <2>2, WriteTyped
    <2> HIDE DEF c
    <2>4. [c EXCEPT !.revision = @ + 1, !.dirty = FALSE] \in Copy
          /\ [c EXCEPT !.revision = @ + 1, !.dirty = FALSE].revision = c.revision + 1
      <3>1. c.revision + 1 \in Nat
        BY <2>2, CopyParts
      <3>2. [c EXCEPT !.revision = @ + 1, !.dirty = FALSE] \in Copy
        BY <2>2, <3>1 DEF Copy
      <3>3. [c EXCEPT !.revision = @ + 1, !.dirty = FALSE].revision = c.revision + 1
        BY <2>2, CopyParts
      <3> QED
        BY <3>2, <3>3
    <2>5. copy' \in [Holders -> Copy] /\ \A g \in Holders : copy'[g].revision <= made' + 1
      <3>1. c.revision + 1 <= made' + 1
        BY <1>0, <2>2, CopyParts
      <3> QED
        BY <2>1, <2>2, <2>4, <3>1, NumbersTyped DEF TypeInv, TypeOK
    <2>6. acked' \subseteq Ids /\ faults' \in 0..MaxFaults /\ reading' = reading /\ legacy' = legacy
      BY <1>2, <2>2 DEF Commit, TypeInv, TypeOK, Fault
    <2>7. \A g \in Holders : reading[g].revision <= made' + 1
      BY <2>2, NumbersTyped
    <2>8. c.revision + 1 <= made' + 1
      BY <1>0, <2>2, CopyParts
    <2> QED
      BY <2>2, <2>3, <2>5, <2>6, <2>7, <2>8 DEF TypeInv, TypeOK, NumbersFit
  <1>3. ASSUME NEW h \in Holders, FlushFails(h) \/ CommitFails(h) PROVE TypeInv'
    <2> DEFINE c == ToWrite(h)
    <2>1. Makes(h)
          /\ copy' \in {[copy EXCEPT ![h] = c], [copy EXCEPT ![h] = [c EXCEPT !.revision = @ + 1]]}
          /\ faults' \in 0..MaxFaults
          /\ UNCHANGED <<row, journal, reading, acked, legacy>>
      BY <1>3 DEF FlushFails, CommitFails, ToWrite, Fault, TypeInv, TypeOK
    <2>2. c \in Copy /\ c.revision <= made + 1 /\ Event \in Ids /\ made' = made + 1
          /\ made' \in 0..MaxEvents
      BY <2>1, ToWriteTyped
    <2> HIDE DEF c
    <2>3. [c EXCEPT !.revision = @ + 1] \in Copy
          /\ [c EXCEPT !.revision = @ + 1].revision = c.revision + 1
      <3>1. [c EXCEPT !.revision = @ + 1] =
               [held |-> c.held, revision |-> c.revision + 1, folded |-> c.folded,
                events |-> c.events, dirty |-> c.dirty]
        BY <2>2, CopyParts
      <3> QED
        BY <2>2, <3>1, CopyParts DEF Copy
    <2>4. copy' \in [Holders -> Copy] /\ \A g \in Holders : copy'[g].revision <= made' + 1
      <3>1. c.revision <= made' + 1 /\ c.revision + 1 <= made' + 1
        BY <1>0, <2>2, CopyParts
      <3> QED
        BY <2>1, <2>2, <2>3, <3>1, NumbersTyped DEF TypeInv, TypeOK
    <2>5. row.revision <= made' + 1 /\ \A g \in Holders : reading[g].revision <= made' + 1
      BY <2>2, NumbersTyped
    <2> QED
      BY <2>1, <2>2, <2>4, <2>5 DEF TypeInv, TypeOK, NumbersFit
  <1>4. ASSUME NEW h \in Holders, ReducerRefuses(h) PROVE TypeInv'
    <2>1. Rebased(h) \in Copy /\ Rebased(h).revision <= made + 1
      BY RebasedTyped
    <2> QED
      BY <1>4, <2>1 DEF ReducerRefuses, TypeInv, TypeOK, NumbersFit
  <1>5. ASSUME NEW h \in Holders, ReadRow(h) PROVE TypeInv'
    BY <1>5 DEF ReadRow, TypeInv, TypeOK, NumbersFit
  <1>6. ASSUME NEW h \in Holders, ReadJournal(h) PROVE TypeInv'
    <2>1. reading[h] \in Row /\ reading[h].revision <= made + 1
      BY DEF TypeInv, TypeOK, NumbersFit
    <2>2. Loaded(reading[h]) \in Copy /\ Loaded(reading[h]).revision = reading[h].revision
      BY <2>1, LoadedTyped DEF Loaded
    <2> QED
      BY <1>0, <1>6, <2>1, <2>2 DEF ReadJournal, TypeInv, TypeOK, NumbersFit, NoRow
  <1>7. ASSUME NEW h \in Holders, Restart(h) PROVE TypeInv'
    BY <1>0, <1>7 DEF Restart, TypeInv, TypeOK, NumbersFit, NoRow, NoCopy
  <1>8. CASE OldCommit
    <2>1. Event \in Ids /\ made' = made + 1 /\ made' \in 0..MaxEvents
      BY <1>8 DEF OldCommit, Event, Ids, TypeInv, TypeOK
    <2>2. row \in Row /\ Append(row.folded, Event) \in Seq(Ids) /\ Append(row.inline, Event) \in Seq(Ids)
      BY <2>1, AppendProperties DEF Row, TypeInv, TypeOK
    <2>3. row' \in Row /\ row'.revision = row.revision + 1
      <3>1. row' = [row EXCEPT !.revision = row.revision + 1,
                               !.folded = Append(row.folded, Event),
                               !.inline = Append(row.inline, Event)]
        BY <1>8 DEF OldCommit
      <3>2. row.revision + 1 \in Nat
        BY <2>2, RowParts
      <3>3. row' \in Row
        BY <2>2, <3>1, <3>2 DEF Row
      <3>4. row'.revision = row.revision + 1
        BY <2>2, <3>1, RowParts
      <3> QED
        BY <3>3, <3>4
    <2>4. row'.revision <= made' + 1 /\ \A g \in Holders : /\ copy[g].revision <= made' + 1
                                                        /\ reading[g].revision <= made' + 1
      BY <2>1, <2>3, NumbersTyped
    <2> QED
      BY <1>8, <2>1, <2>3, <2>4 DEF OldCommit, TypeInv, TypeOK, NumbersFit
  <1>9. CASE Migrate \/ Rollback
    <2>1. History \in Seq(Ids)
      BY MergedTyped DEF History, TypeInv, TypeOK, Row
    <2>2. Len(History) \in Nat
      BY <2>1, LenProperties
    <2>3. row' \in Row /\ row'.revision = row.revision
      <3>1. row \in Row
        BY DEF TypeInv, TypeOK
      <3>2. row' \in {[revision |-> row.revision, count |-> Len(History), folded |-> row.folded,
                      inline |-> <<>>],
                     [revision |-> row.revision, count |-> 0, folded |-> row.folded,
                      inline |-> History]}
        BY <1>9, <3>1, RowParts DEF Migrate, Rollback
      <3> QED
        BY <1>0, <2>1, <2>2, <3>1, <3>2, RowParts DEF Row
    <2> QED
      BY <1>0, <1>9, <2>1, <2>3 DEF Migrate, Rollback, TypeInv, TypeOK, NumbersFit
  <1>10. CASE UNCHANGED vars
    BY <1>10 DEF vars, TypeInv, TypeOK, NumbersFit
  <1> QED
    BY <1>1, <1>2, <1>3, <1>4, <1>5, <1>6, <1>7, <1>8, <1>9, <1>10 DEF Next

(* Every reachable state is well-typed: whatever the store merges, rebases   *)
(* and writes, and however torn a read is, journal and copies stay sequences *)
(* of events, and no revision runs ahead of the events (arc/store.py).       *)
THEOREM TypeCorrect == Spec => []TypeOK
  <1>1. TypeInv => TypeOK
    BY DEF TypeInv
  <1> QED
    BY <1>1, TypeInit, TypeNext, PTL DEF Spec

-----------------------------------------------------------------------------
(* What the invariant says of the copies that are about to be written.       *)

\* Every branch is a list of events.
LEMMA LinesTyped ==
    ASSUME TypeInv
    PROVE  Lines \subseteq Seq(Ids) /\ row.folded \in Lines
           /\ \A h \in Holders : copy[h].events \in Lines
  <1>1. row.folded \in Seq(Ids)
    BY RowParts DEF TypeInv, TypeOK
  <1>2. \A h \in Holders : copy[h].events \in Seq(Ids)
    BY CopyParts DEF TypeInv, TypeOK
  <1> QED
    BY <1>1, <1>2 DEF Lines

\* The row reflects the history.
LEMMA HistoryIsFolded ==
    ASSUME TypeInv, LinesFit, RowFits
    PROVE  History = row.folded
  <1>1. journal \in Seq(Ids) /\ row.inline \in Seq(Ids)
    BY RowParts DEF TypeInv, TypeOK
  <1>2. Agree(journal \o row.inline, journal \o row.inline)
    BY LinesTyped DEF LinesFit, RowFits
  <1> QED
    BY <1>1, <1>2, MergedDisjoint DEF History, RowFits

\* The event to come is on no branch.
LEMMA EventIsNew ==
    ASSUME TypeInv, LinesFit, NEW s \in Lines
    PROVE  \A i \in 1..Len(s) : s[i] /= Event
  <1>1. s \in Seq(0..made) /\ made \in Nat
    BY NumbersTyped DEF LinesFit
  <1>2. \A i \in 1..Len(s) : s[i] \in 0..made
    BY <1>1, ElementOfSeq
  <1> QED
    BY <1>1, <1>2 DEF Event

\* What begins with the history begins with the journal.
LEMMA JournalBegins ==
    ASSUME TypeInv, RowFits, NEW c \in Seq(Ids), Begins(row.folded, c)
    PROVE  Begins(journal, c)
  <1>1. journal \in Seq(Ids) /\ row.inline \in Seq(Ids) /\ row.folded = journal \o row.inline
    BY RowParts DEF TypeInv, TypeOK, RowFits
  <1>2. /\ Len(row.folded) = Len(journal) + Len(row.inline)
        /\ Len(journal) \in Nat /\ Len(row.inline) \in Nat /\ Len(c) \in Nat
        /\ \A i \in 1..Len(journal) : row.folded[i] = journal[i]
    BY <1>1, ConcatProperties, LenProperties
  <1> QED
    BY <1>2 DEF Begins

\* A row that was read and the journal of now give what begins the history,
\* and all of it if the row is at the same revision still.
LEMMA ReadBegins ==
    ASSUME TypeInv, LinesFit, RowFits, NEW h \in Holders, ReadFits(h), reading[h] /= NoRow
    PROVE  LET e == Loaded(reading[h]).events IN
           /\ e \in Seq(Ids) /\ Begins(e, row.folded)
           /\ reading[h].revision = row.revision => e = row.folded
  <1> DEFINE r == reading[h]
             e == Loaded(r).events
  <1>1. /\ journal \in Seq(Ids) /\ row.inline \in Seq(Ids) /\ r.inline \in Seq(Ids)
        /\ row.folded \in Seq(Ids) /\ row.folded = journal \o row.inline
    BY RowParts DEF TypeInv, TypeOK, RowFits
  <1>2. e = Merged(journal, r.inline) /\ e \in Seq(Ids)
    BY <1>1, MergedTyped DEF Loaded
  <1> HIDE DEF e
  <1>3. CASE ToSet(r.inline) \subseteq ToSet(journal)
    <2>1. e = journal
      BY <1>1, <1>2, <1>3, MergedContained
    <2>2. Begins(row.folded, row.folded)
      BY <1>1, LenProperties DEF Begins
    <2>3. Begins(e, row.folded)
      BY <1>1, <2>1, <2>2, JournalBegins
    <2>4. r.revision = row.revision => row.inline = <<>> \/ r.inline = row.inline
      BY DEF ReadFits
    <2>5. row.inline = <<>> => e = row.folded
      BY <1>1, <2>1, ConcatEmptySeq
    <2>6. r.inline = row.inline => e = row.folded
      BY <1>2, HistoryIsFolded DEF History
    <2> QED
      BY <1>2, <2>3, <2>4, <2>5, <2>6 DEF e
  <1>4. CASE Begins(r.inline, row.inline)
    <2> DEFINE l == journal \o r.inline
    <2>1. l \in Seq(Ids) /\ Begins(l, row.folded)
      BY <1>1, <1>4, ConcatBegins, ConcatProperties
    <2>2. Agree(l, l)
      <3>1. Agree(row.folded, row.folded)
        BY LinesTyped DEF LinesFit
      <3>2. Agree(row.folded, l)
        BY <1>1, <2>1, <3>1, BeginAgrees
      <3> QED
        BY <1>1, <2>1, <3>2, BeginAgrees
    <2>3. e = l
      BY <1>1, <1>2, <2>2, MergedDisjoint
    <2>4. r.revision = row.revision => row.inline = <<>> \/ r.inline = row.inline
      BY DEF ReadFits
    <2>5. row.inline = <<>> => r.inline = row.inline
      BY <1>1, <1>4, EmptySeq, LenProperties DEF Begins
    <2> QED
      BY <1>1, <1>2, <2>1, <2>3, <2>4, <2>5 DEF e
  <1> QED
    BY <1>3, <1>4 DEF ReadFits

\* The copy that the next event is reduced onto.
LEMMA RebasedFits ==
    ASSUME TypeInv, LinesFit, RowFits, NEW h \in Holders, CopyFits(h)
    PROVE  LET c == Rebased(h) IN
           /\ Exists => c.revision = row.revision
           /\ ~ Exists => c = copy[h]
           /\ copy[h].held => c.held
           /\ c.revision >= row.revision
           /\ c.folded = c.events
           /\ c.events \in Lines
           /\ Exists /\ ~ c.dirty => c.events = row.folded
           /\ row.inline /= <<>> => Begins(row.folded, c.events)
           /\ Exists => c.held
  <1>1. row.revision \in Nat /\ copy[h].revision \in Nat
    BY NumbersTyped
  <1>2. CASE Exists /\ row.revision /= copy[h].revision
    <2>1. Rebased(h) = Loaded(row)
      BY <1>2 DEF Rebased
    <2>2. Loaded(row).events = row.folded
      BY HistoryIsFolded DEF Loaded, History
    <2>3. Loaded(row).revision = row.revision /\ Loaded(row).folded = row.folded
          /\ Loaded(row).held
      BY DEF Loaded
    <2>4. Begins(row.folded, row.folded)
      BY LinesTyped, LenProperties DEF Begins
    <2> QED
      BY <1>1, <1>2, <2>1, <2>2, <2>3, <2>4, LinesTyped
  <1>3. CASE ~ (Exists /\ row.revision /= copy[h].revision)
    <2>1. Rebased(h) = copy[h]
      BY <1>3 DEF Rebased
    <2>2. copy[h].revision >= row.revision
      BY <1>1, <1>3 DEF Exists
    <2>3. Exists => copy[h].held
      BY <1>1, <1>3 DEF Exists, CopyFits, NoCopy
    <2> QED
      BY <1>3, <2>1, <2>2, <2>3, LinesTyped DEF CopyFits
  <1> QED
    BY <1>2, <1>3

\* An event after a list begun by another.
LEMMA BeginsAppend ==
    ASSUME NEW s \in Seq(Ids), NEW t \in Seq(Ids), NEW e \in Ids, Begins(s, t)
    PROVE  Begins(s, Append(t, e)) /\ Len(Append(t, e)) > Len(s)
  <1>1. Len(s) \in Nat /\ Len(t) \in Nat /\ Len(Append(t, e)) = Len(t) + 1
        /\ \A i \in 1..Len(t) : Append(t, e)[i] = t[i]
    BY AppendProperties, LenProperties
  <1> QED
    BY <1>1 DEF Begins

\* Comparing the last journalled event is enough: a copy that has it has all
\* that were journalled before it, and the inline ones.
LEMMA FittingExtends ==
    ASSUME TypeInv, LinesFit, RowFits, NEW h \in Holders, CopyFits(h),
           made < MaxEvents, Fits(ToWrite(h))
    PROVE  /\ Begins(row.folded, ToWrite(h).events)
           /\ Len(ToWrite(h).events) > Len(row.folded)
  <1> DEFINE b == Rebased(h).events
             c == ToWrite(h).events
             n == row.count
  <1>1. /\ c = Append(b, Event) /\ Event \in Ids
        /\ b \in Lines /\ b \in Seq(Ids) /\ row.folded \in Lines /\ row.folded \in Seq(Ids)
        /\ journal \in Seq(Ids) /\ row.inline \in Seq(Ids) /\ n \in Nat
    BY ToWriteIs, RebasedFits, LinesTyped, RowParts DEF TypeInv, TypeOK
  <1>2. CASE row.inline /= <<>>
    BY <1>1, <1>2, RebasedFits, BeginsAppend
  <1>3. CASE row.inline = <<>>
    <2>1. row.folded = journal
      BY <1>1, <1>3, ConcatEmptySeq DEF RowFits
    <2>2. n = Len(journal)
      BY LenProperties DEF RowFits, NoRow
    <2>3. CASE n = 0
      <3>1. Begins(row.folded, b)
        BY <1>1, <2>1, <2>2, <2>3, LenProperties DEF Begins
      <3> QED
        BY <1>1, <3>1, BeginsAppend
    <2>4. CASE n > 0
      <3>1. n <= Len(c) /\ journal[n] = c[n]
        BY <1>1, <2>4, LenProperties DEF Fits, Ahead, Diverged
      <3>2. Len(b) \in Nat /\ Len(c) = Len(b) + 1 /\ c[Len(b) + 1] = Event
            /\ \A i \in 1..Len(b) : c[i] = b[i]
        BY <1>1, AppendProperties, LenProperties
      <3>3. n \in 1..Len(row.folded) /\ row.folded[n] /= Event
        <4>1. n \in 1..Len(row.folded)
          BY <1>1, <2>1, <2>2, <2>4
        <4> QED
          BY <1>1, <4>1, EventIsNew
      <3>4. n \in 1..Len(b)
        BY <1>1, <2>1, <2>4, <3>1, <3>2, <3>3
      <3>5. row.folded[n] = b[n]
        BY <2>1, <3>1, <3>2, <3>4
      <3>6. Agree(row.folded, b)
        BY <1>1 DEF LinesFit
      <3>7. \A k \in 1..n : row.folded[k] = b[k]
        BY <3>3, <3>4, <3>5, <3>6 DEF Agree
      <3>8. Begins(row.folded, b)
        BY <1>1, <2>1, <2>2, <3>4, <3>7, LenProperties DEF Begins
      <3> QED
        BY <1>1, <3>8, BeginsAppend
    <2> QED
      BY <1>1, <2>3, <2>4
  <1> QED
    BY <1>2, <1>3

\* A beginning has no event of its own,
LEMMA ElementsOfBegin ==
    ASSUME NEW s \in Seq(Ids), NEW t \in Seq(Ids), Begins(s, t)
    PROVE  ToSet(s) \subseteq ToSet(t)
  BY LenProperties DEF ToSet, Begins

\* nor have the two parts of the history.
LEMMA ElementsOfFolded ==
    ASSUME TypeInv, RowFits
    PROVE  ToSet(journal) \subseteq ToSet(row.folded) /\ ToSet(row.inline) \subseteq ToSet(row.folded)
  <1>1. journal \in Seq(Ids) /\ row.inline \in Seq(Ids) /\ row.folded = journal \o row.inline
    BY RowParts DEF TypeInv, TypeOK, RowFits
  <1>2. /\ Len(row.folded) = Len(journal) + Len(row.inline)
        /\ Len(journal) \in Nat /\ Len(row.inline) \in Nat
        /\ \A i \in 1..Len(journal) + Len(row.inline) :
              row.folded[i] = IF i <= Len(journal) THEN journal[i] ELSE row.inline[i - Len(journal)]
        /\ DOMAIN row.folded = 1..Len(row.folded) /\ DOMAIN journal = 1..Len(journal)
        /\ DOMAIN row.inline = 1..Len(row.inline)
    BY <1>1, ConcatProperties, LenProperties
  <1>3. ASSUME NEW i \in 1..Len(journal) PROVE journal[i] \in ToSet(row.folded)
    <2>1. i \in 1..Len(row.folded) /\ row.folded[i] = journal[i]
      BY <1>2
    <2> QED
      BY <1>2, <2>1 DEF ToSet
  <1>4. ASSUME NEW i \in 1..Len(row.inline) PROVE row.inline[i] \in ToSet(row.folded)
    <2> DEFINE j == Len(journal) + i
    <2>1. j \in 1..Len(journal) + Len(row.inline) /\ ~ (j <= Len(journal)) /\ j - Len(journal) = i
      BY <1>2
    <2>2. row.folded[j] = row.inline[i] /\ j \in DOMAIN row.folded
      BY <1>2, <2>1
    <2> QED
      BY <2>2 DEF ToSet
  <1> QED
    BY <1>2, <1>3, <1>4 DEF ToSet

\* After a write the journal is the list that was written, whole.
LEMMA WriteJournals ==
    ASSUME TypeInv, LinesFit, RowFits, NEW h \in Holders, CopyFits(h), Makes(h),
           Fits(ToWrite(h)), Write(ToWrite(h))
    PROVE  LET c == ToWrite(h) IN
           /\ journal' = c.events /\ row'.folded = c.events /\ c.folded = c.events
           /\ row'.count = Len(c.events) /\ row'.inline = <<>>
           /\ row'.revision = c.revision + 1
  <1> DEFINE c == ToWrite(h)
  <1>1. c \in Copy /\ c.events \in Seq(Ids) /\ c.folded = c.events
    <2>1. c \in Copy /\ c.events = Append(Rebased(h).events, Event)
          /\ c.folded = Append(Rebased(h).folded, Event)
      BY ToWriteTyped
    <2>2. Rebased(h).folded = Rebased(h).events
      BY RebasedFits
    <2> HIDE DEF c
    <2> QED
      BY <2>1, <2>2, CopyParts
  <1>2. Begins(journal, c.events)
    BY <1>1, FittingExtends, JournalBegins DEF Makes
  <1>3. row.count = Len(journal) /\ journal \in Seq(Ids)
    BY LenProperties DEF RowFits, NoRow, TypeInv, TypeOK
  <1>4. journal' = c.events
    <2>1. journal' = journal \o SubSeq(c.events, Len(journal) + 1, Len(c.events))
      BY <1>3 DEF Write, Unjournalled
    <2> HIDE DEF c
    <2> QED
      BY <1>1, <1>2, <1>3, <2>1, Splice
  <1> HIDE DEF c
  <1>5. row'.folded = c.folded /\ row'.count = Len(c.events) /\ row'.inline = <<>>
        /\ row'.revision = c.revision + 1
    BY DEF Write, c
  <1> QED
    BY <1>1, <1>4, <1>5 DEF c

-----------------------------------------------------------------------------
(* The invariant is kept.                                                    *)

\* At most one line is new: the beginning of a known one, the empty one of a
\* process that starts again, or a known one with the new event at its end.
LEMMA LinesCut ==
    ASSUME TypeInv, LinesFit, made' = made,
           NEW cut \in Seq(Ids), NEW l \in Lines, Begins(cut, l),
           \A s \in Lines' : s \in Lines \/ s = cut
    PROVE  LinesFit'
  <1>1. Lines \subseteq Seq(Ids)
    BY LinesTyped
  <1>2. \A t \in Lines : Agree(cut, t) /\ Agree(t, cut)
    BY <1>1, BeginAgrees DEF LinesFit
  <1>3. Agree(cut, cut)
    BY <1>1, <1>2, BeginAgrees
  <1>4. ASSUME NEW s \in Lines', NEW t \in Lines' PROVE Agree(s, t)
    BY <1>2, <1>3 DEF LinesFit
  <1>5. cut \in Seq(0..made)
    <2>1. l \in Seq(0..made) /\ l \in Seq(Ids)
      BY <1>1 DEF LinesFit
    <2>2. \A i \in 1..Len(l) : l[i] \in 0..made
      BY <2>1, ElementOfSeq
    <2>3. \A i \in 1..Len(cut) : i \in 1..Len(l) /\ cut[i] = l[i]
      BY <2>1, LenProperties DEF Begins
    <2>4. \A i \in 1..Len(cut) : cut[i] \in 0..made
      BY <2>2, <2>3
    <2>5. Len(cut) \in Nat /\ cut \in [1..Len(cut) -> Ids]
      BY LenProperties
    <2>6. cut \in [1..Len(cut) -> 0..made]
      BY <2>4, <2>5
    <2>7. cut \in UNION {[1..n -> 0..made] : n \in Nat}
      BY <2>5, <2>6, Zenon
    <2> QED
      BY <2>7, SeqDef, Zenon
  <1>6. ASSUME NEW s \in Lines' PROVE s \in Seq(0..made)
    BY <1>5 DEF LinesFit
  <1> QED
    BY <1>4, <1>6 DEF LinesFit

LEMMA LinesKept ==
    ASSUME TypeInv, LinesFit, made' = made,
           \A s \in Lines' : s \in Lines \/ s = <<>>
    PROVE  LinesFit'
  <1>1. <<>> \in Seq(Ids) /\ Begins(<<>>, row.folded) /\ row.folded \in Lines
    BY EmptySeq, LinesTyped, LenProperties DEF Begins
  <1> QED
    BY <1>1, LinesCut

\* A branch grew by the event.
LEMMA LinesGrow ==
    ASSUME TypeInv, LinesFit, made' = Event, Event \in Ids, NEW l \in Lines,
           \A s \in Lines' : s \in Lines \/ s = Append(l, Event)
    PROVE  LinesFit'
  <1> DEFINE u == Append(l, Event)
  <1>1. made \in Nat /\ Event \in Ids /\ l \in Seq(Ids) /\ l \in Seq(0..made) /\ Agree(l, l)
    BY NumbersTyped, LinesTyped DEF LinesFit
  <1>2. Agree(u, u)
    BY <1>1, EventIsNew, AgreeAppend
  <1>3. ASSUME NEW t \in Lines PROVE Agree(u, t) /\ Agree(t, u)
    <2>1. t \in Seq(Ids) /\ Agree(l, t) /\ Agree(t, l)
      BY LinesTyped DEF LinesFit
    <2> QED
      BY <1>1, <2>1, EventIsNew, AgreeAppend
  <1>4. 0..made \subseteq 0..made' /\ Event \in 0..made'
    BY <1>1 DEF Event
  <1>5. \A t \in Lines : t \in Seq(0..made')
    <2>1. Seq(0..made) \subseteq Seq(0..made')
      BY <1>4, SeqMonotonic
    <2> QED
      BY <2>1 DEF LinesFit
  <1>6. u \in Seq(0..made')
    BY <1>4, <1>5, AppendProperties
  <1> HIDE DEF u
  <1>7. ASSUME NEW s \in Lines', NEW t \in Lines' PROVE Agree(s, t)
    <2>1. (s \in Lines \/ s = u) /\ (t \in Lines \/ t = u)
      BY DEF u
    <2> QED
      BY <1>2, <1>3, <2>1 DEF LinesFit
  <1>8. ASSUME NEW s \in Lines' PROVE s \in Seq(0..made')
    BY <1>5, <1>6 DEF u
  <1> QED
    BY <1>7, <1>8 DEF LinesFit

\* What AcknowledgedStays says of the row alone.
LEMMA AcknowledgedFolded ==
    ASSUME TypeInv, LinesFit, RowFits
    PROVE  AcknowledgedStays <=> acked \subseteq ToSet(row.folded)
  BY HistoryIsFolded DEF AcknowledgedStays

\* A step of one holder that writes neither row nor journal.
LEMMA CopyStep ==
    ASSUME TypeInv, IInv, NEW h \in Holders, NEW c,
           UNCHANGED <<row, journal, acked>>,
           copy' = [copy EXCEPT ![h] = c],
           LinesFit', CopyFits(h)',
           ~ Exists => (c.held => copy[h].held),
           \A g \in Holders : reading'[g] = reading[g] \/ reading'[g] = NoRow
    PROVE  IInv'
  <1>1. \A g \in Holders : g /= h => copy'[g] = copy[g]
    BY DEF TypeInv, TypeOK
  <1>2. copy'[h] = c
    BY DEF TypeInv, TypeOK
  <1>3. \A g \in Holders : CopyFits(g)'
    BY <1>1 DEF IInv, CopyFits, Exists
  <1>4. \A g \in Holders : ReadFits(g)'
    BY DEF IInv, ReadFits, Exists
  <1>5. OneCreator'
    BY <1>1, <1>2 DEF IInv, OneCreator, Exists
  <1>6. RowFits' /\ AcknowledgedStays'
    BY DEF IInv, RowFits, Exists, AcknowledgedStays, History
  <1> QED
    BY <1>3, <1>4, <1>5, <1>6 DEF IInv

\* A step of one copy changes one branch.
LEMMA LinesOfCopyStep ==
    ASSUME TypeInv, NEW h \in Holders, NEW c, row' = row, copy' = [copy EXCEPT ![h] = c]
    PROVE  \A s \in Lines' : s \in Lines \/ s = c.events
  BY DEF Lines, TypeInv, TypeOK

\* The invariant holds at first and after each action.
LEMMA InitFits == Init => IInv
  <1> SUFFICES ASSUME Init PROVE IInv
    OBVIOUS
  <1>1. TypeInv
    BY TypeInit
  <1>2. journal = <<>> /\ made = 0 /\ acked = {} /\ \A h \in Holders : copy[h] = NoCopy /\ reading[h] = NoRow
    BY DEF Init
  <1>3. row = NoRow \/ row = LegacyRow
    BY DEF Init
  <1>4. row.folded = row.inline /\ (row.folded = <<>> \/ row.folded = <<0>>)
    BY <1>3 DEF NoRow, LegacyRow
  <1>5. \A s \in Lines : s = <<>> \/ s = <<0>>
    <2>1. \A h \in Holders : copy[h].events = <<>>
      BY <1>2 DEF NoCopy
    <2> QED
      BY <1>4, <2>1 DEF Lines
  <1>6. Agree(<<>>, <<>>) /\ Agree(<<>>, <<0>>) /\ Agree(<<0>>, <<>>) /\ Agree(<<0>>, <<0>>)
    BY DEF Agree
  <1>7. <<>> \in Seq(0..0) /\ <<0>> \in Seq(0..0)
    OBVIOUS
  <1>8. LinesFit
    BY <1>2, <1>5, <1>6, <1>7 DEF LinesFit
  <1>9. RowFits
    <2>1. journal \o row.inline = row.inline
      BY <1>2, <1>4
    <2> QED
      BY <1>2, <1>3, <1>4, <2>1 DEF RowFits, Exists, NoRow, LegacyRow
  <1>10. \A h \in Holders : CopyFits(h) /\ ReadFits(h)
    BY <1>2, <1>3 DEF CopyFits, ReadFits, NoCopy, NoRow, LegacyRow, Exists
  <1>11. OneCreator /\ AcknowledgedStays
    BY <1>2 DEF OneCreator, AcknowledgedStays, NoCopy
  <1> QED
    BY <1>8, <1>9, <1>10, <1>11 DEF IInv

LEMMA CreateFits ==
    ASSUME TypeInv, IInv, NEW h \in Holders, Create(h)
    PROVE  IInv'
  <1> DEFINE c == [NoCopy EXCEPT !.held = TRUE, !.revision = 1]
  <1>1. c.held /\ c.revision = 1 /\ c.folded = <<>> /\ c.events = <<>> /\ ~ c.dirty
    BY DEF NoCopy
  <1>2. /\ row = NoRow /\ journal = <<>> /\ ~ Exists
        /\ \A g \in Holders : copy[g] = NoCopy /\ reading[g] = NoRow
    BY DEF Create, IInv, RowFits, CopyFits, ReadFits
  <1>3. /\ copy' = [copy EXCEPT ![h] = c] /\ reading' = reading /\ journal' = journal
        /\ made' = made /\ acked' = acked
        /\ row' = row \/ row' = [NoRow EXCEPT !.revision = 1]
    BY DEF Create
  <1> HIDE DEF c
  <1>4. /\ row'.folded = <<>> /\ row'.inline = <<>> /\ row'.count = 0 /\ row.folded = <<>>
        /\ row'.revision \in {0, 1} /\ (row'.revision = 0 => row' = NoRow)
    BY <1>2, <1>3 DEF NoRow
  <1>5. copy'[h] = c /\ \A g \in Holders : g /= h => copy'[g] = NoCopy
    BY <1>2, <1>3 DEF TypeInv, TypeOK
  <1>6. LinesFit'
    <2>1. \A s \in Lines' : s = <<>>
      BY <1>1, <1>4, <1>5 DEF Lines, NoCopy
    <2> QED
      BY <1>3, <2>1, LinesKept DEF IInv
  <1>7. RowFits'
    <2>1. journal' \o row'.inline = <<>>
      BY <1>2, <1>3, <1>4
    <2> QED
      BY <1>2, <1>3, <1>4, <2>1 DEF RowFits, Exists
  <1>8. \A g \in Holders : CopyFits(g)'
    <2>1. CopyFits(h)'
      BY <1>1, <1>4, <1>5 DEF CopyFits, Exists
    <2>2. ASSUME NEW g \in Holders, g /= h PROVE CopyFits(g)'
      BY <1>4, <1>5, <2>2 DEF CopyFits, Exists, NoCopy
    <2> QED
      BY <2>1, <2>2
  <1>9. \A g \in Holders : ReadFits(g)'
    BY <1>2, <1>3 DEF ReadFits
  <1>10. OneCreator'
    BY <1>5 DEF OneCreator, NoCopy
  <1>11. AcknowledgedStays'
    <2>1. acked = {}
      BY <1>2, AcknowledgedFolded DEF IInv, NoRow, ToSet
    <2> QED
      BY <1>3, <2>1 DEF AcknowledgedStays
  <1> QED
    BY <1>6, <1>7, <1>8, <1>9, <1>10, <1>11 DEF IInv

LEMMA CommitFits ==
    ASSUME TypeInv, TypeInv', IInv, NEW h \in Holders, Commit(h)
    PROVE  IInv' /\ Begins(row.folded, row'.folded) /\ Len(row'.folded) > Len(row.folded)
           /\ acked' \in {acked, acked \cup {Event}} /\ Event \in ToSet(row'.folded)
  <1> DEFINE c == ToWrite(h)
             b == Rebased(h)
             d == [c EXCEPT !.revision = @ + 1, !.dirty = FALSE]
  <1>1. /\ Makes(h) /\ Fits(c) /\ Write(c)
        /\ copy' = [copy EXCEPT ![h] = d]
        /\ reading' = reading
        /\ acked' \in {acked, acked \cup {Event}}
    BY DEF Commit, ToWrite
  <1>2. LinesFit /\ RowFits /\ CopyFits(h)
    BY DEF IInv
  <1>3. /\ c \in Copy /\ c.revision = b.revision /\ c.events = Append(b.events, Event)
        /\ c.held = b.held /\ Event \in Ids /\ made' = Event
    BY <1>1, ToWriteTyped DEF Event
  <1>4. /\ journal' = c.events /\ row'.folded = c.events /\ c.folded = c.events
        /\ row'.count = Len(c.events) /\ row'.inline = <<>>
        /\ row'.revision = c.revision + 1
    BY <1>1, <1>2, WriteJournals
  <1>5. Begins(row.folded, c.events) /\ Len(c.events) > Len(row.folded)
    BY <1>1, <1>2, FittingExtends DEF Makes
  <1>6. /\ Exists => b.revision = row.revision
        /\ ~ Exists => b = copy[h]
        /\ b.held /\ b.revision >= row.revision /\ b.events \in Lines /\ b.revision \in Nat
    <2>1. b \in Copy /\ copy[h].held
      BY <1>1, RebasedTyped DEF Makes
    <2>2. b.revision \in Nat
      BY <2>1, CopyParts
    <2> HIDE DEF b
    <2> QED
      BY <1>2, <2>1, <2>2, RebasedFits DEF b
  <1> HIDE DEF c, b
  <1>7. /\ d.held /\ d.revision = c.revision + 1 /\ d.folded = c.events /\ d.events = c.events
    BY <1>3, <1>4, <1>6, CopyParts
  <1> HIDE DEF d
  <1>8. copy'[h] = d /\ \A g \in Holders : g /= h => copy'[g] = copy[g]
    BY <1>1 DEF TypeInv, TypeOK
  <1>9. LinesFit'
    <2>1. \A s \in Lines' : s \in Lines \/ s = Append(b.events, Event)
      BY <1>3, <1>4, <1>7, <1>8 DEF Lines
    <2> QED
      BY <1>2, <1>3, <1>6, <2>1, LinesGrow
  <1>10. row'.revision \in Nat /\ row'.revision > row.revision /\ row.revision \in Nat /\ Exists'
    BY <1>3, <1>4, <1>6, NumbersTyped DEF Exists
  <1>11. RowFits'
    <2>1. c.events \in Seq(Ids)
      BY <1>3, CopyParts
    <2>2. journal' \o row'.inline = c.events
      BY <1>4, <2>1, ConcatEmptySeq
    <2> QED
      BY <1>4, <1>10, <2>2 DEF RowFits
  <1>12. ASSUME NEW g \in Holders PROVE CopyFits(g)'
    <2>1. CASE g = h
      BY <1>4, <1>7, <1>8, <1>10, <2>1 DEF CopyFits
    <2>2. CASE g /= h /\ Exists
      <3>1. copy[g].revision \in Nat /\ copy'[g] = copy[g] /\ row'.revision = row.revision + 1
        BY <1>3, <1>4, <1>6, <1>8, <2>2, NumbersTyped
      <3> QED
        BY <1>4, <1>10, <2>2, <3>1 DEF IInv, CopyFits
    <2>3. CASE g /= h /\ ~ Exists
      <3>1. copy[h].held
        BY <1>1 DEF Makes
      <3>2. copy[g] = NoCopy /\ copy'[g] = NoCopy
        BY <1>8, <2>3, <3>1 DEF IInv, OneCreator, CopyFits
      <3> QED
        BY <1>4, <1>10, <3>2 DEF CopyFits, NoCopy
    <2> QED
      BY <2>1, <2>2, <2>3
  <1>13. ToSet(row.folded) \subseteq ToSet(c.events)
    <2>1. row.folded \in Seq(Ids) /\ c.events \in Seq(Ids)
      BY <1>3, CopyParts, LinesTyped
    <2> QED
      BY <1>5, <2>1, ElementsOfBegin
  <1>14. ASSUME NEW g \in Holders PROVE ReadFits(g)'
    <2> SUFFICES ASSUME reading[g] /= NoRow PROVE ReadFits(g)'
      BY <1>1 DEF ReadFits
    <2>1. /\ reading[g].revision \in Nat /\ reading[g].revision <= row.revision
          /\ \/ ToSet(reading[g].inline) \subseteq ToSet(journal)
             \/ Begins(reading[g].inline, row.inline)
      BY NumbersTyped DEF IInv, ReadFits
    <2>2. ToSet(reading[g].inline) \subseteq ToSet(journal')
      <3>1. reading[g].inline \in Seq(Ids) /\ row.inline \in Seq(Ids)
        BY RowParts DEF TypeInv, TypeOK
      <3> QED
        BY <1>2, <1>4, <1>13, <2>1, <3>1, ElementsOfBegin, ElementsOfFolded
    <2>3. reading[g].revision < row'.revision
      BY <1>10, <2>1
    <2> QED
      BY <1>1, <1>4, <1>10, <2>1, <2>2, <2>3 DEF ReadFits
  <1>15. OneCreator'
    BY <1>10 DEF OneCreator
  <1>16. Event \in ToSet(row'.folded)
    <2>1. b.events \in Seq(Ids)
      BY <1>6, LinesTyped
    <2>2. Len(b.events) + 1 \in DOMAIN c.events /\ c.events[Len(b.events) + 1] = Event
      BY <1>3, <2>1, AppendProperties, LenProperties
    <2> QED
      BY <1>4, <2>2 DEF ToSet
  <1>17. AcknowledgedStays'
    <2>1. acked \subseteq ToSet(row.folded)
      BY <1>2, AcknowledgedFolded DEF IInv
    <2>2. acked' \subseteq ToSet(row'.folded)
      BY <1>1, <1>4, <1>13, <1>16, <2>1
    <2>3. History' = row'.folded
      <3>1. journal' \in Seq(Ids) /\ <<>> \in Seq(Ids) /\ ToSet(<<>>) \subseteq ToSet(journal')
        BY EmptySeq DEF TypeInv, TypeOK, ToSet
      <3>2. Merged(journal', <<>>) = journal'
        BY <3>1, MergedContained
      <3> QED
        BY <1>4, <3>2 DEF History
    <2> QED
      BY <2>2, <2>3 DEF AcknowledgedStays
  <1>18. IInv'
    BY <1>9, <1>11, <1>12, <1>14, <1>15, <1>17 DEF IInv
  <1> QED
    BY <1>1, <1>4, <1>5, <1>16, <1>18

LEMMA FlushFailsFits ==
    ASSUME TypeInv, IInv, NEW h \in Holders, FlushFails(h)
    PROVE  IInv'
  <1> DEFINE c == ToWrite(h)
             b == Rebased(h)
  <1>1. /\ Makes(h) /\ copy' = [copy EXCEPT ![h] = c]
        /\ UNCHANGED <<row, journal, reading, acked>>
    BY DEF FlushFails, ToWrite
  <1>2. LinesFit /\ RowFits /\ CopyFits(h)
    BY DEF IInv
  <1>3. /\ c \in Copy /\ c.revision = b.revision /\ c.events = Append(b.events, Event)
        /\ c.folded = Append(b.folded, Event) /\ c.dirty
        /\ c.held = b.held /\ Event \in Ids /\ made' = Event
    BY <1>1, ToWriteTyped DEF Event
  <1>4. /\ Exists => b.revision = row.revision
        /\ ~ Exists => b = copy[h]
        /\ b.held /\ b.events \in Lines /\ b.folded = b.events
        /\ row.inline /= <<>> => Begins(row.folded, b.events)
    BY <1>1, <1>2, RebasedFits DEF Makes
  <1> HIDE DEF c, b
  <1>5. copy'[h] = c
    BY <1>1 DEF TypeInv, TypeOK
  <1>6. LinesFit'
    <2>1. \A s \in Lines' : s \in Lines \/ s = Append(b.events, Event)
      BY <1>1, <1>3, LinesOfCopyStep
    <2> QED
      BY <1>2, <1>3, <1>4, <2>1, LinesGrow
  <1>7. row.inline /= <<>> => Begins(row.folded, c.events)
    BY <1>3, <1>4, LinesTyped, BeginsAppend
  <1>8. CopyFits(h)'
    <2>1. row.revision \in Nat
      BY NumbersTyped
    <2>2. c.held /\ c.folded = c.events /\ (Exists => c.revision = row.revision)
      BY <1>3, <1>4
    <2>3. /\ copy'[h].held /\ copy'[h].dirty /\ copy'[h].folded = copy'[h].events
          /\ Exists => copy'[h].revision = row'.revision
          /\ row'.inline /= <<>> => Begins(row'.folded, copy'[h].events)
          /\ row' = row
      BY <1>1, <1>3, <1>5, <1>7, <2>2
    <2> QED
      BY <2>1, <2>3 DEF CopyFits, Exists
  <1>9. ~ Exists => (c.held => copy[h].held)
    BY <1>3, <1>4
  <1> QED
    BY <1>1, <1>6, <1>8, <1>9, CopyStep

LEMMA CommitFailsFits ==
    ASSUME TypeInv, IInv, NEW h \in Holders, CommitFails(h)
    PROVE  IInv'
  <1> DEFINE c == ToWrite(h)
             b == Rebased(h)
             d == [c EXCEPT !.revision = @ + 1]
  <1>1. /\ Makes(h) /\ Fits(c) /\ copy' = [copy EXCEPT ![h] = d]
        /\ UNCHANGED <<row, journal, reading, acked>>
    BY DEF CommitFails, ToWrite
  <1>2. LinesFit /\ RowFits /\ CopyFits(h)
    BY DEF IInv
  <1>3. /\ c \in Copy /\ c.revision = b.revision /\ c.events = Append(b.events, Event)
        /\ c.folded = Append(b.folded, Event) /\ c.dirty
        /\ c.held = b.held /\ Event \in Ids /\ made' = Event
    BY <1>1, ToWriteTyped DEF Event
  <1>4. /\ Exists => b.revision = row.revision
        /\ ~ Exists => b = copy[h]
        /\ b.held /\ b.events \in Lines /\ b.folded = b.events
    BY <1>1, <1>2, RebasedFits DEF Makes
  <1>5. Begins(row.folded, c.events) /\ Len(c.events) > Len(row.folded)
    BY <1>1, <1>2, FittingExtends DEF Makes
  <1> HIDE DEF c, b
  <1>6. /\ d.held = c.held /\ d.revision = c.revision + 1 /\ d.folded = c.folded
        /\ d.events = c.events /\ d.dirty = c.dirty
    BY <1>3, CopyParts
  <1> HIDE DEF d
  <1>7. copy'[h] = d
    BY <1>1 DEF TypeInv, TypeOK
  <1>8. LinesFit'
    <2>1. \A s \in Lines' : s \in Lines \/ s = Append(b.events, Event)
      BY <1>1, <1>3, <1>6, LinesOfCopyStep
    <2> QED
      BY <1>2, <1>3, <1>4, <2>1, LinesGrow
  <1>9. CopyFits(h)'
    <2>1. row.revision \in Nat /\ c.revision \in Nat
      BY <1>3, NumbersTyped, CopyParts
    <2> QED
      BY <1>1, <1>3, <1>4, <1>5, <1>6, <1>7, <2>1 DEF CopyFits, Exists
  <1>10. ~ Exists => (d.held => copy[h].held)
    BY <1>3, <1>4, <1>6
  <1> QED
    BY <1>1, <1>8, <1>9, <1>10, CopyStep

LEMMA ReducerRefusesFits ==
    ASSUME TypeInv, IInv, NEW h \in Holders, ReducerRefuses(h)
    PROVE  IInv'
  <1> DEFINE b == Rebased(h)
  <1>1. /\ copy[h].held /\ copy' = [copy EXCEPT ![h] = b]
        /\ UNCHANGED <<row, journal, made, acked, reading>>
    BY DEF ReducerRefuses
  <1>2. LinesFit /\ RowFits /\ CopyFits(h)
    BY DEF IInv
  <1>3. /\ Exists => b.revision = row.revision
        /\ ~ Exists => b = copy[h]
        /\ b.held /\ b.events \in Lines /\ b.folded = b.events
        /\ Exists /\ ~ b.dirty => b.events = row.folded
        /\ row.inline /= <<>> => Begins(row.folded, b.events)
    BY <1>1, <1>2, RebasedFits
  <1> HIDE DEF b
  <1>4. copy'[h] = b
    BY <1>1 DEF TypeInv, TypeOK
  <1>5. LinesFit'
    <2>1. \A s \in Lines' : s \in Lines
      BY <1>1, <1>3, LinesOfCopyStep
    <2> QED
      BY <1>1, <1>2, <2>1, LinesKept
  <1>6. CopyFits(h)'
    <2>1. row.revision \in Nat
      BY NumbersTyped
    <2> QED
      BY <1>1, <1>2, <1>3, <1>4, <2>1 DEF CopyFits, Exists
  <1>7. ~ Exists => (b.held => copy[h].held)
    BY <1>1
  <1> QED
    BY <1>1, <1>5, <1>6, <1>7, CopyStep

LEMMA ReadJournalFits ==
    ASSUME TypeInv, IInv, NEW h \in Holders, ReadJournal(h)
    PROVE  IInv'
  <1> DEFINE c == Loaded(reading[h])
  <1>1. /\ reading[h] /= NoRow /\ copy' = [copy EXCEPT ![h] = c]
        /\ reading' = [reading EXCEPT ![h] = NoRow]
        /\ UNCHANGED <<row, journal, made, acked>>
    BY DEF ReadJournal
  <1>2. LinesFit /\ RowFits /\ ReadFits(h)
    BY DEF IInv
  <1>3. /\ c.events \in Seq(Ids) /\ Begins(c.events, row.folded)
        /\ reading[h].revision = row.revision => c.events = row.folded
    BY <1>1, <1>2, ReadBegins
  <1>4. /\ c.held /\ c.revision = reading[h].revision /\ c.folded = reading[h].folded /\ ~ c.dirty
    BY DEF Loaded
  <1>5. Exists /\ c.revision <= row.revision /\ (c.revision = row.revision => c.folded = row.folded)
    BY <1>1, <1>2, <1>4 DEF ReadFits
  <1> HIDE DEF c
  <1>6. copy'[h] = c
    BY <1>1 DEF TypeInv, TypeOK
  <1>7. LinesFit'
    <2>1. \A s \in Lines' : s \in Lines \/ s = c.events
      BY <1>1, LinesOfCopyStep
    <2> QED
      BY <1>1, <1>2, <1>3, <2>1, LinesCut, LinesTyped
  <1>8. CopyFits(h)'
    <2>1. row.revision \in Nat /\ c.revision \in Nat
      BY <1>4, NumbersTyped
    <2>2. Begins(row.folded, row.folded)
      BY LinesTyped, LenProperties DEF Begins
    <2> QED
      BY <1>1, <1>3, <1>4, <1>5, <1>6, <2>1, <2>2 DEF CopyFits, Exists
  <1>9. \A g \in Holders : reading'[g] = reading[g] \/ reading'[g] = NoRow
    BY <1>1 DEF TypeInv, TypeOK
  <1> QED
    BY <1>1, <1>5, <1>7, <1>8, <1>9, CopyStep

LEMMA RestartFits ==
    ASSUME TypeInv, IInv, NEW h \in Holders, Restart(h)
    PROVE  IInv'
  <1>1. /\ copy' = [copy EXCEPT ![h] = NoCopy] /\ reading' = [reading EXCEPT ![h] = NoRow]
        /\ UNCHANGED <<row, journal, made, acked>>
    BY DEF Restart
  <1>2. LinesFit'
    <2>1. \A s \in Lines' : s \in Lines \/ s = <<>>
      <3>1. NoCopy.events = <<>>
        BY DEF NoCopy
      <3> QED
        BY <1>1, <3>1, LinesOfCopyStep
    <2> QED
      BY <1>1, <2>1, LinesKept DEF IInv
  <1>3. CopyFits(h)'
    <2>1. copy'[h] = NoCopy /\ row.revision \in Nat
      BY <1>1, NumbersTyped DEF TypeInv, TypeOK
    <2>2. row.inline = <<>> \/ row.revision > 0
      BY <2>1 DEF IInv, RowFits, Exists, NoRow
    <2> QED
      BY <1>1, <2>1, <2>2 DEF CopyFits, NoCopy, Exists
  <1>4. \A g \in Holders : reading'[g] = reading[g] \/ reading'[g] = NoRow
    BY <1>1 DEF TypeInv, TypeOK
  <1>5. ~ NoCopy.held
    BY DEF NoCopy
  <1> QED
    BY <1>1, <1>2, <1>3, <1>4, <1>5, CopyStep

LEMMA ReadRowFits ==
    ASSUME TypeInv, IInv, NEW h \in Holders, ReadRow(h)
    PROVE  IInv'
  <1>1. /\ Exists /\ reading' = [reading EXCEPT ![h] = row]
        /\ UNCHANGED <<row, journal, copy, made, acked>>
    BY DEF ReadRow
  <1>2. \A g \in Holders : reading'[g] = reading[g] \/ reading'[g] = row
    BY <1>1 DEF TypeInv, TypeOK
  <1>3. \A g \in Holders : ReadFits(g)'
    <2>1. row.revision \in Nat /\ row.inline \in Seq(Ids)
      BY NumbersTyped, RowParts DEF TypeInv, TypeOK
    <2>2. Begins(row.inline, row.inline)
      BY <2>1, LenProperties DEF Begins
    <2> QED
      BY <1>1, <1>2, <2>1, <2>2 DEF IInv, ReadFits, Exists
  <1>4. \A g \in Holders : CopyFits(g)'
    BY <1>1 DEF IInv, CopyFits, Exists
  <1>5. LinesFit' /\ RowFits' /\ OneCreator' /\ AcknowledgedStays'
    BY <1>1 DEF IInv, LinesFit, Lines, RowFits, OneCreator, AcknowledgedStays, History, Exists
  <1> QED
    BY <1>3, <1>4, <1>5 DEF IInv

\* The history after a step.
LEMMA HistoryNext ==
    ASSUME TypeInv', LinesFit', RowFits'
    PROVE  History' = row'.folded
  <1>1. journal' \in Seq(Ids) /\ row'.inline \in Seq(Ids)
    BY RowParts DEF TypeInv, TypeOK
  <1>2. row'.folded \in Lines'
    BY DEF Lines
  <1>3. Agree(journal' \o row'.inline, journal' \o row'.inline)
    BY <1>2 DEF LinesFit, RowFits
  <1> QED
    BY <1>1, <1>3, MergedDisjoint DEF History, RowFits

\* Appending to the second of two lists.
LEMMA AppendOfConcat ==
    ASSUME NEW s \in Seq(Ids), NEW t \in Seq(Ids), NEW e \in Ids
    PROVE  Append(s \o t, e) = s \o Append(t, e)
  <1>1. s \o t \in Seq(Ids) /\ <<e>> \in Seq(Ids)
    BY ConcatProperties
  <1>2. (s \o t) \o <<e>> = s \o (t \o <<e>>)
    BY <1>1, ConcatAssociative
  <1> QED
    BY <1>1, <1>2, AppendIsConcat

LEMMA OldCommitFits ==
    ASSUME Quiet, TypeInv, TypeInv', IInv, OldCommit
    PROVE  /\ IInv' /\ row'.folded = Append(row.folded, Event)
           /\ acked' = acked \cup {Event} /\ Event \in ToSet(row'.folded)
           /\ Event \in Ids
  <1>1. /\ Exists /\ NoneAhead
        /\ row' = [row EXCEPT !.revision = @ + 1, !.folded = Append(@, Event),
                              !.inline = Append(@, Event)]
        /\ made' = Event /\ acked' = acked \cup {Event}
        /\ UNCHANGED <<journal, copy, reading>>
    BY DEF OldCommit
  <1>2. LinesFit /\ RowFits /\ History = row.folded
    BY HistoryIsFolded DEF IInv
  <1>3. Event \in Ids /\ row \in Row /\ row.revision \in Nat /\ row.inline \in Seq(Ids)
        /\ journal \in Seq(Ids) /\ row.folded \in Seq(Ids)
    <2>1. Event \in Ids
      BY StoreAssumption DEF OldCommit, Event, Ids, TypeInv, TypeOK
    <2> QED
      BY <2>1, RowParts DEF TypeInv, TypeOK
  <1>4. /\ row'.revision = row.revision + 1 /\ row'.folded = Append(row.folded, Event)
        /\ row'.inline = Append(row.inline, Event) /\ row'.count = row.count
    BY <1>1, <1>3, RowParts
  <1>5. LinesFit'
    <2>1. \A s \in Lines' : s \in Lines \/ s = Append(row.folded, Event)
      BY <1>1, <1>4 DEF Lines
    <2> QED
      BY <1>1, <1>2, <1>3, <2>1, LinesTyped, LinesGrow
  <1>6. RowFits'
    <2>1. Append(journal \o row.inline, Event) = journal \o Append(row.inline, Event)
      BY <1>3, AppendOfConcat
    <2>2. Exists'
      BY <1>3, <1>4 DEF Exists
    <2> QED
      BY <1>1, <1>2, <1>4, <2>1, <2>2 DEF RowFits
  <1>7. ASSUME NEW h \in Holders PROVE CopyFits(h)' /\ ReadFits(h)'
    <2>1. copy[h].revision \in Nat /\ copy[h].revision <= row.revision
      BY <1>1, NumbersTyped DEF NoneAhead
    <2>2. CopyFits(h)'
      <3>1. copy[h].revision < row'.revision /\ row'.revision \in Nat
        BY <1>3, <1>4, <2>1
      <3> QED
        BY <1>1, <2>1, <3>1 DEF IInv, CopyFits
    <2>3. ReadFits(h)'
      <3> SUFFICES ASSUME reading[h] /= NoRow PROVE ReadFits(h)'
        BY <1>1 DEF ReadFits
      <3>1. /\ reading[h].revision \in Nat /\ reading[h].revision <= row.revision
            /\ \/ ToSet(reading[h].inline) \subseteq ToSet(journal)
               \/ Begins(reading[h].inline, row.inline)
        BY NumbersTyped DEF IInv, ReadFits
      <3>2. reading[h].inline \in Seq(Ids)
        BY RowParts DEF TypeInv, TypeOK
      <3>3. Begins(reading[h].inline, row.inline) => Begins(reading[h].inline, row'.inline)
        BY <1>3, <1>4, <3>2, BeginsAppend
      <3>4. reading[h].revision < row'.revision /\ Exists'
        BY <1>3, <1>4, <3>1 DEF Exists
      <3> QED
        BY <1>1, <1>3, <1>4, <3>1, <3>3, <3>4 DEF ReadFits
    <2> QED
      BY <2>2, <2>3
  <1>8. OneCreator'
    BY <1>3, <1>4 DEF OneCreator, Exists
  <1>9. ToSet(row.folded) \subseteq ToSet(row'.folded) /\ Event \in ToSet(row'.folded)
    <2>1. Begins(row.folded, row.folded)
      BY <1>3, LenProperties DEF Begins
    <2>2. Begins(row.folded, row'.folded) /\ row'.folded \in Seq(Ids)
      BY <1>3, <1>4, <2>1, BeginsAppend, AppendProperties
    <2>3. Len(row.folded) + 1 \in DOMAIN row'.folded /\ row'.folded[Len(row.folded) + 1] = Event
      BY <1>3, <1>4, AppendProperties, LenProperties
    <2> QED
      BY <1>3, <2>2, <2>3, ElementsOfBegin DEF ToSet
  <1>10. AcknowledgedStays'
    <2>1. acked \subseteq ToSet(row.folded)
      BY <1>2, AcknowledgedFolded DEF IInv
    <2> QED
      BY <1>1, <1>5, <1>6, <1>9, <2>1, HistoryNext DEF AcknowledgedStays
  <1> QED
    BY <1>1, <1>3, <1>4, <1>5, <1>6, <1>7, <1>8, <1>9, <1>10 DEF IInv

LEMMA MoveFits ==
    ASSUME Quiet, TypeInv, TypeInv', IInv, Migrate \/ Rollback
    PROVE  IInv' /\ row'.folded = row.folded /\ acked' = acked
  <1>1. LinesFit /\ RowFits /\ History = row.folded
    BY HistoryIsFolded DEF IInv
  <1>2. row \in Row /\ row.revision \in Nat /\ row.folded \in Seq(Ids) /\ row.inline \in Seq(Ids)
    BY RowParts DEF TypeInv, TypeOK
  <1>3. /\ Exists /\ UNCHANGED <<copy, reading, made, acked>>
        /\ row'.revision = row.revision /\ row'.folded = row.folded
    BY <1>2, RowParts DEF Migrate, Rollback
  <1>4. LinesFit'
    <2>1. \A s \in Lines' : s \in Lines
      BY <1>3 DEF Lines
    <2> QED
      BY <1>1, <1>3, <2>1, LinesKept
  <1>5. OneCreator' /\ Exists'
    BY <1>3 DEF OneCreator, Exists
  <1>6. CASE Migrate
    <2>1. journal' = row.folded /\ row'.inline = <<>> /\ row'.count = Len(row.folded)
      BY <1>1, <1>2, <1>6, RowParts DEF Migrate
    <2>2. RowFits'
      BY <1>2, <1>3, <1>5, <2>1, ConcatEmptySeq DEF RowFits
    <2>3. \A h \in Holders : CopyFits(h)'
      BY <1>3, <2>1 DEF IInv, CopyFits, Exists
    <2>4. \A h \in Holders : ReadFits(h)'
      <3>1. ToSet(row.inline) \subseteq ToSet(journal') /\ ToSet(journal) \subseteq ToSet(journal')
        BY <1>1, <2>1, ElementsOfFolded
      <3>2. ASSUME NEW h \in Holders, Begins(reading[h].inline, row.inline)
            PROVE  ToSet(reading[h].inline) \subseteq ToSet(row.inline)
        <4>1. reading[h].inline \in Seq(Ids) /\ row.inline \in Seq(Ids)
          BY RowParts DEF TypeInv, TypeOK
        <4> QED
          BY <3>2, <4>1, ElementsOfBegin
      <3> QED
        BY <1>3, <2>1, <3>1, <3>2 DEF IInv, ReadFits, Exists
    <2> QED
      BY <1>1, <1>3, <1>4, <1>5, <2>2, <2>3, <2>4, HistoryNext DEF IInv, AcknowledgedStays
  <1>7. CASE Rollback
    <2>1. journal' = <<>> /\ row'.inline = row.folded /\ row'.count = 0 /\ Settled
      BY <1>1, <1>2, <1>7, RowParts DEF Rollback
    <2>2. RowFits'
      BY <1>2, <1>3, <1>5, <2>1, ConcatEmptySeq, EmptySeq DEF RowFits
    <2>3. Begins(row.folded, row.folded)
      BY <1>2, LenProperties DEF Begins
    <2>4. ASSUME NEW h \in Holders PROVE CopyFits(h)'
      <3>1. copy[h].revision \in Nat
        BY NumbersTyped
      <3>2. copy[h].revision >= row.revision => Begins(row.folded, copy[h].events)
        <4>1. copy[h].events \in Seq(Ids)
          BY LinesTyped
        <4> QED
          BY <1>1, <1>2, <2>1, <3>1, <4>1, PrefixBegins DEF Settled
      <3> QED
        BY <1>3, <2>1, <2>3, <3>2 DEF IInv, CopyFits, Exists
    <2>5. \A h \in Holders : ReadFits(h)'
      BY <1>3, <2>1 DEF Settled, ReadFits
    <2> QED
      BY <1>1, <1>3, <1>4, <1>5, <2>2, <2>4, <2>5, HistoryNext DEF IInv, AcknowledgedStays
  <1> QED
    BY <1>3, <1>6, <1>7

\* What a step does to the history.
Extends ==
    /\ Begins(row.folded, row'.folded) /\ Len(row'.folded) > Len(row.folded)
    /\ acked' \in {acked, acked \cup {Event}} /\ Event \in ToSet(row'.folded) /\ Event \in Ids

Keeps == row'.folded = row.folded /\ acked' = acked

\* The invariant is kept, and a step extends the history or keeps it.
LEMMA StepFits ==
    ASSUME Quiet, TypeInv, TypeInv', IInv, [Next]_vars
    PROVE  IInv' /\ (Extends \/ Keeps)
  <1>1. ASSUME NEW h \in Holders, Create(h) PROVE IInv' /\ Keeps
    <2>1. row.folded = <<>> /\ row'.folded = <<>>
      BY <1>1 DEF Create, IInv, RowFits, NoRow
    <2> QED
      BY <1>1, <2>1, CreateFits DEF Create, Keeps
  <1>2. ASSUME NEW h \in Holders, Commit(h) PROVE IInv' /\ Extends
    <2>1. Event \in Ids
      BY <1>2, ToWriteTyped DEF Commit
    <2> QED
      BY <1>2, <2>1, CommitFits DEF Extends
  <1>3. ASSUME NEW h \in Holders, FlushFails(h) PROVE IInv' /\ Keeps
    BY <1>3, FlushFailsFits DEF FlushFails, Keeps
  <1>4. ASSUME NEW h \in Holders, CommitFails(h) PROVE IInv' /\ Keeps
    BY <1>4, CommitFailsFits DEF CommitFails, Keeps
  <1>5. ASSUME NEW h \in Holders, ReducerRefuses(h) PROVE IInv' /\ Keeps
    BY <1>5, ReducerRefusesFits DEF ReducerRefuses, Keeps
  <1>6. ASSUME NEW h \in Holders, ReadRow(h) PROVE IInv' /\ Keeps
    BY <1>6, ReadRowFits DEF ReadRow, Keeps
  <1>7. ASSUME NEW h \in Holders, ReadJournal(h) PROVE IInv' /\ Keeps
    BY <1>7, ReadJournalFits DEF ReadJournal, Keeps
  <1>8. ASSUME NEW h \in Holders, Restart(h) PROVE IInv' /\ Keeps
    BY <1>8, RestartFits DEF Restart, Keeps
  <1>9. CASE OldCommit
    <2>1. row.folded \in Seq(Ids)
      BY RowParts DEF TypeInv, TypeOK
    <2>2. Begins(row.folded, row.folded)
      BY <2>1, LenProperties DEF Begins
    <2> QED
      BY <1>9, <2>1, <2>2, OldCommitFits, BeginsAppend DEF Extends
  <1>10. CASE Migrate \/ Rollback
    BY <1>10, MoveFits DEF Keeps
  <1>11. CASE UNCHANGED vars
    <2>1. UNCHANGED <<row, journal, copy, reading, made, acked>>
      BY <1>11 DEF vars
    <2>2. LinesFit' /\ RowFits'
      BY <2>1 DEF IInv, LinesFit, Lines, RowFits, Exists
    <2>3. \A h \in Holders : CopyFits(h)' /\ ReadFits(h)'
      BY <2>1 DEF IInv, CopyFits, ReadFits, Exists
    <2>4. OneCreator' /\ AcknowledgedStays'
      BY <2>1 DEF IInv, OneCreator, AcknowledgedStays, History, Exists
    <2> QED
      BY <2>1, <2>2, <2>3, <2>4 DEF IInv, Keeps
  <1> QED
    BY <1>1, <1>2, <1>3, <1>4, <1>5, <1>6, <1>7, <1>8, <1>9, <1>10, <1>11 DEF Next

LEMMA Invariance ==
    ASSUME Quiet
    PROVE  Spec => [](TypeInv /\ IInv)
  <1>1. TypeInv /\ IInv /\ [Next]_vars => (TypeInv /\ IInv)'
    BY TypeNext, StepFits
  <1> QED
    BY <1>1, TypeInit, InitFits, PTL DEF Spec

(* The fields of a stored mission reflect exactly the events that are stored *)
(* and event_count counts the journalled ones (_write, load_projection), also *)
(* next to older code that appends to the row.                               *)
THEOREM SnapshotReplays ==
    ASSUME Quiet
    PROVE  Spec => []SnapshotIsReplay
  <1>1. TypeInv /\ IInv => SnapshotIsReplay
    BY HistoryIsFolded DEF IInv, SnapshotIsReplay, RowFits
  <1> QED
    BY <1>1, Invariance, PTL

(* A controller that is at the revision of the row and absorbed nothing that *)
(* failed holds what the row and the journal hold, though it may have read   *)
(* the two at different times (get_controller, rebase).                      *)
THEOREM CleanCopiesAreCommitted ==
    ASSUME Quiet
    PROVE  Spec => []CleanCopyIsCommitted
  <1>1. ASSUME TypeInv, IInv PROVE CleanCopyIsCommitted
    <2> SUFFICES ASSUME NEW h \in Holders, Exists, copy[h].revision = row.revision, ~ copy[h].dirty
                 PROVE  copy[h].events = History /\ copy[h].folded = row.folded
      BY DEF CleanCopyIsCommitted
    <2>1. History = row.folded /\ row.revision \in Nat
      BY <1>1, HistoryIsFolded, NumbersTyped DEF IInv
    <2>2. copy[h].events = row.folded /\ copy[h].folded = copy[h].events
      BY <1>1, <2>1 DEF IInv, CopyFits
    <2> QED
      BY <2>1, <2>2
  <1> QED
    BY <1>1, Invariance, PTL

(* What _write relies on when it compares one event only: whenever a copy    *)
(* passes that check, the journal is the beginning of its list of events.    *)
THEOREM LastEventSuffices ==
    ASSUME Quiet
    PROVE  Spec => []LastCheckSuffices
  <1>1. ASSUME TypeInv, IInv PROVE LastCheckSuffices
    <2> SUFFICES ASSUME NEW h \in Holders, made < MaxEvents, Fits(ToWrite(h))
                 PROVE  Begins(journal, ToWrite(h).events)
      BY DEF LastCheckSuffices, ToWrite
    <2>1. Begins(row.folded, ToWrite(h).events)
      BY <1>1, FittingExtends DEF IInv
    <2>2. ToWrite(h).events \in Seq(Ids)
      BY <1>1, ToWriteIs, CopyParts
    <2> QED
      BY <1>1, <2>1, <2>2, JournalBegins DEF IInv
  <1> QED
    BY <1>1, Invariance, PTL

(* An event whose commit returned stays in the history, through failed       *)
(* transactions, restarts, torn reads and moves between the two layouts.     *)
THEOREM AcknowledgedEventsStay ==
    ASSUME Quiet
    PROVE  Spec => []AcknowledgedStays
  <1>1. IInv => AcknowledgedStays
    BY DEF IInv
  <1> QED
    BY <1>1, Invariance, PTL

\* What the refinement needs of Begins.
LEMMA BeginsIsPrefix ==
    ASSUME NEW s \in Seq(Ids), NEW t \in Seq(Ids), Begins(s, t), Len(t) > Len(s)
    PROVE  IsStrictPrefix(s, t)
  <1> DEFINE n == Len(s)
             u == SubSeq(t, 1, n)
  <1>1. n \in Nat /\ Len(t) \in Nat /\ n <= Len(t) /\ \A i \in 1..n : s[i] = t[i]
    BY LenProperties DEF Begins
  <1>2. SubSeq(s, 1, n) = s
    BY SubSeqFull
  <1>3. \A i \in 1..n : t[i] \in Ids
    BY <1>1, ElementOfSeq
  <1>4. u \in Seq(Ids) /\ Len(u) = n /\ \A i \in 1..n : u[i] = t[i]
    <2>1. 1 \in Int /\ n \in Int
      BY <1>1
    <2>2. /\ u \in Seq(Ids) /\ Len(u) = IF 1 <= n THEN n - 1 + 1 ELSE 0
          /\ \A i \in 1..(n - 1 + 1) : u[i] = t[1 + i - 1]
      <3> HIDE DEF n
      <3> QED
        BY <2>1, <1>3, SubSeqProperties
    <2>3. n - 1 + 1 = n /\ \A i \in 1..n : 1 + i - 1 = i
      BY <1>1
    <2>4. Len(u) = n
      BY <1>1, <2>2
    <2> HIDE DEF u, n
    <2> QED
      BY <2>2, <2>3, <2>4
  <1> HIDE DEF u
  <1>5. u = s
    BY <1>1, <1>4, SeqEqual
  <1>6. s /= t
    BY <1>1
  <1> QED
    BY <1>1, <1>2, <1>5, <1>6 DEF IsStrictPrefix, IsPrefix, u

(* The store implements ArcJournal: the history only grows, an event is in   *)
(* it once, none is overtaken by a later commit, and one whose commit        *)
(* returned is never lost (commit_event, save_mission, event_migration.py).  *)
THEOREM RefinesJournal ==
    ASSUME Quiet
    PROVE  Spec => ImplementsJournal
  <1>1. Init => Journal!Init
    <2> SUFFICES ASSUME Init PROVE Journal!Init
      OBVIOUS
    <2>1. History = row.folded /\ acked = {}
      BY TypeInit, InitFits, HistoryIsFolded DEF IInv, Init
    <2>2. row.folded = <<>> \/ row.folded = <<0>>
      BY DEF Init, NoRow, LegacyRow
    <2>3. 0 \in Ids
      BY StoreAssumption DEF Ids
    <2> QED
      BY <2>1, <2>2, <2>3 DEF Journal!Init
  <1>2. ASSUME TypeInv, TypeInv', IInv, IInv', [Next]_vars
        PROVE  [Journal!Next]_<<History, acked>>
    <2>1. History = row.folded /\ History' = row'.folded
      BY <1>2, HistoryIsFolded, HistoryNext DEF IInv
    <2>2. CASE Keeps
      BY <2>1, <2>2 DEF Keeps
    <2>3. CASE Extends
      <3>1. row.folded \in Seq(Ids) /\ row'.folded \in Seq(Ids)
        BY <1>2, RowParts DEF TypeInv, TypeOK
      <3>2. IsStrictPrefix(row.folded, row'.folded)
        BY <2>3, <3>1, BeginsIsPrefix DEF Extends
      <3>3. IsInjective(row'.folded)
        <4>1. row'.folded \in Lines'
          BY DEF Lines
        <4>2. Agree(row'.folded, row'.folded)
          BY <1>2, <4>1 DEF IInv, LinesFit
        <4>3. DOMAIN row'.folded = 1..Len(row'.folded)
          BY <3>1, LenProperties
        <4> QED
          BY <4>2, <4>3 DEF Agree, IsInjective
      <3>4. acked' \in {acked} \cup {acked \cup {e} : e \in ToSet(row'.folded)}
        BY <2>3 DEF Extends
      <3>5. Journal!Extend
        BY <2>1, <3>2, <3>3, <3>4
           DEF Journal!Extend, Journal!IsStrictPrefix, Journal!IsPrefix, Journal!IsInjective,
               Journal!ToSet, IsStrictPrefix, IsPrefix, IsInjective, ToSet
      <3> QED
        BY <3>5 DEF Journal!Next
    <2> QED
      BY <1>2, <2>2, <2>3, StepFits
  <1> QED
    BY <1>1, <1>2, Invariance, PTL DEF Spec, ImplementsJournal, Journal!Spec
=============================================================================
