-------------------------- MODULE TagPagingProofs --------------------------
(***************************************************************************)
(* What a reader who pages through the tags can rely on, for any number of *)
(* tags, any page size and any changes between the pages.                  *)
(*                                                                         *)
(* The argument counts.  A row's rank is the number of listed rows older   *)
(* than it.  While no row leaves the listing ranks only grow, so a row     *)
(* that is still to come stays beyond the offset; while none joins it they *)
(* only fall, so a row that was given stays before it.                     *)
(***************************************************************************)
EXTENDS TagPaging, FiniteSetTheorems, TLAPS

Older(x) == {y \in Listed : tags[y].created < tags[x].created}
Rank(x) == Cardinality(Older(x))

\* What was listed at first is still listed, and was given or is yet to come.
StillToCome ==
  scan.state # "idle" /\ ~left /\ ~tied =>
    /\ scan.first \subseteq Listed
    /\ \A x \in scan.first :
         x \in scan.got \/ (scan.state = "reading" /\ Rank(x) >= scan.offset)

\* What was given lies before the offset.
AlreadyPassed ==
  ~joined /\ ~tied =>
    /\ ~repeated
    /\ scan.state = "reading" =>
         \A x \in scan.got \cap Listed : Rank(x) < scan.offset

ScanInv == TypeOK /\ StillToCome /\ AlreadyPassed

-----------------------------------------------------------------------------
(***************************************************************************)
(* Ranks and pages                                                         *)
(***************************************************************************)

\* The listing and what it is made of are finite.
LEMMA ListedFinite == IsFiniteSet(Listed) /\ Listed \subseteq TagIds
<1>1. Listed \in SUBSET TagIds
  BY DEF Listed
<1> QED
  BY <1>1, FiniteAssumption, FS_Subset

\* A rank is a number, and no greater than the listing is long.
LEMMA RankType ==
  ASSUME NEW x
  PROVE  /\ IsFiniteSet(Older(x))
         /\ Rank(x) \in Nat /\ Cardinality(Listed) \in Nat
         /\ Rank(x) <= Cardinality(Listed)
<1>1. Older(x) \in SUBSET Listed
  BY DEF Older
<1>2. IsFiniteSet(Listed)
  BY ListedFinite
<1>3. IsFiniteSet(Older(x)) /\ Cardinality(Older(x)) <= Cardinality(Listed)
  BY <1>1, <1>2, FS_Subset
<1> QED
  BY <1>2, <1>3, FS_CardinalityType DEF Rank

LEMMA RanksFinite == \A x : IsFiniteSet(Older(x)) /\ Rank(x) \in Nat
  BY RankType

\* Rows that come first, whatever their order among themselves, are those whose
\* rank is below their number.
LEMMA OldestByRank ==
  ASSUME TypeOK, ~Tied,
         NEW s \in SUBSET Listed, Oldest(s),
         NEW x \in Listed
  PROVE  x \in s <=> Rank(x) < Cardinality(s)
<1>1. IsFiniteSet(s) /\ Cardinality(s) \in Nat
  BY ListedFinite, FS_Subset, FS_CardinalityType
<1>2. \A y \in Listed : tags[y].created \in Nat
  BY DEF TypeOK, Row, Times, Listed
<1>3. ASSUME x \in s
      PROVE  Rank(x) < Cardinality(s)
  <2>1. Older(x) \subseteq s \ {x}
    BY <1>2, <1>3 DEF Older, Oldest
  <2>2. IsFiniteSet(s \ {x}) /\ Cardinality(s \ {x}) = Cardinality(s) - 1
    BY <1>1, <1>3, FS_RemoveElement
  <2>3. Cardinality(Older(x)) <= Cardinality(s \ {x})
    BY <2>1, <2>2, FS_Subset
  <2> QED
    BY <1>1, <2>2, <2>3, RankType DEF Rank
<1>4. ASSUME x \notin s
      PROVE  Cardinality(s) <= Rank(x)
  <2>1. \A y \in s : tags[y].created < tags[x].created
    BY <1>2, <1>4 DEF Oldest, Tied
  <2>2. s \in SUBSET Older(x)
    BY <2>1 DEF Older
  <2> QED
    BY <2>2, RankType, FS_Subset DEF Rank
<1> QED
  BY <1>1, <1>3, <1>4, RankType

\* A page is the rows whose rank lies between the offset and the next one; only
\* a full page leaves rows behind.
LEMMA PageByRank ==
  ASSUME TypeOK, ~Tied,
         NEW offset \in Nat, NEW page \in Pages(offset)
  PROVE  /\ page \subseteq Listed
         /\ \A x \in page : offset <= Rank(x) /\ Rank(x) < offset + Limit
         /\ \A x \in Listed : Rank(x) >= offset /\ x \notin page =>
              Cardinality(page) = Limit /\ Rank(x) >= offset + Limit
<1>1. PICK skipped \in SUBSET (Listed \ page) :
        /\ Cardinality(skipped) = IF offset <= Cardinality(Listed) THEN offset
                                   ELSE Cardinality(Listed)
        /\ \/ Cardinality(page) = Limit
           \/ Cardinality(page) < Limit /\ page = Listed \ skipped
        /\ Oldest(skipped) /\ Oldest(skipped \cup page)
  BY DEF Pages, PassedOver
<1>2. page \in SUBSET Listed
  BY DEF Pages
<1>3. /\ IsFiniteSet(page) /\ Cardinality(page) \in Nat
      /\ IsFiniteSet(skipped) /\ Cardinality(skipped) \in Nat
      /\ Cardinality(Listed) \in Nat
  BY <1>2, ListedFinite, FS_Subset, FS_CardinalityType
<1>4. Cardinality(skipped \cup page) = Cardinality(skipped) + Cardinality(page)
  <2>1. skipped \cap page = {}
    OBVIOUS
  <2>2. Cardinality(skipped \cup page) =
          Cardinality(skipped) + Cardinality(page) - Cardinality(skipped \cap page)
    BY <1>3, FS_Union
  <2>3. Cardinality(skipped \cap page) = 0
    BY <2>1, FS_EmptySet
  <2> QED
    BY <1>3, <2>2, <2>3
<1>5. skipped \in SUBSET Listed /\ skipped \cup page \in SUBSET Listed
  BY <1>2
<1>6. \A x \in Listed : Rank(x) \in Nat /\ Rank(x) < Cardinality(Listed)
  <2>1. Oldest(Listed) /\ Listed \in SUBSET Listed
    BY DEF Oldest
  <2> QED
    BY <2>1, OldestByRank, RankType
<1>7. ASSUME NEW x \in page
      PROVE  offset <= Rank(x) /\ Rank(x) < offset + Limit
  <2>1. x \in Listed /\ x \notin skipped
    BY <1>2
  <2>2. Cardinality(skipped) <= Rank(x)
    BY <1>1, <1>3, <1>5, <1>6, <2>1, OldestByRank
  <2>3. Rank(x) < Cardinality(skipped) + Cardinality(page)
    BY <1>1, <1>4, <1>5, <2>1, OldestByRank
  <2> QED
    BY <1>1, <1>3, <1>6, <2>1, <2>2, <2>3, LimitAssumption
<1>8. ASSUME NEW x \in Listed, Rank(x) >= offset, x \notin page
      PROVE  Cardinality(page) = Limit /\ Rank(x) >= offset + Limit
  <2>1. Cardinality(skipped) = offset
    BY <1>1, <1>3, <1>6, <1>8
  <2>2. x \notin skipped
    BY <1>1, <1>3, <1>5, <1>6, <1>8, <2>1, OldestByRank
  <2>3. Cardinality(page) = Limit
    BY <1>1, <1>8, <2>2
  <2>4. Cardinality(skipped \cup page) <= Rank(x)
    BY <1>1, <1>3, <1>4, <1>5, <1>6, <1>8, <2>2, OldestByRank
  <2> QED
    BY <1>4, <2>1, <2>3, <2>4
<1> QED
  BY <1>2, <1>7, <1>8

-----------------------------------------------------------------------------
(***************************************************************************)
(* Types                                                                   *)
(***************************************************************************)

\* Everything but reading is a change of the table.
TableStep ==
  \E t \in TagIds :
    \/ Commit(t) \/ Remove(t)
    \/ \E value \in Values : Begin(t, value) \/ SetValue(t, value)

LEMMA NextSteps == Next <=> TableStep \/ StartScan \/ ReadPage
  BY DEF Next, TableStep

\* What a step does to the table: a row's time is set once, and a row that was
\* there stays there or is gone.
LEMMA TableStepTypes ==
  ASSUME TypeOK, TableStep
  PROVE  /\ tags' \in [TagIds -> Row] /\ clock' \in Times
         /\ \A t \in TagIds : tags[t].state \in {"live", "gone"} =>
              tags'[t].state \in {"live", "gone"}
         /\ \A t \in TagIds : tags[t].state = "live" /\ tags'[t].state = "live" =>
              tags'[t].created = tags[t].created
         /\ Watch
<1>1. PICK t \in TagIds :
        \/ Commit(t) \/ Remove(t)
        \/ \E value \in Values : Begin(t, value) \/ SetValue(t, value)
  BY DEF TableStep
<1>2. \A state \in {"none", "open", "live", "gone"} : Bare(state) \in Row
  BY WantedAssumption, MaxTimeAssumption DEF Bare, Row, Times
<1>3. CASE Commit(t)
  BY <1>3 DEF Commit, TypeOK, Row
<1>4. CASE Remove(t)
  <2>1. tags' = [tags EXCEPT ![t] = Bare("gone")]
    BY <1>4 DEF Remove
  <2>2. Bare("gone") \in Row /\ Bare("gone").state = "gone"
    BY <1>2 DEF Bare
  <2> QED
    BY <1>4, <2>1, <2>2 DEF Remove, TypeOK
<1>5. ASSUME NEW value \in Values, Begin(t, value)
      PROVE  /\ tags' \in [TagIds -> Row] /\ clock' \in Times
             /\ \A u \in TagIds : tags[u].state \in {"live", "gone"} => tags'[u] = tags[u]
             /\ Watch
  BY <1>5 DEF Begin, TypeOK, Row
<1>6. ASSUME NEW value \in Values, SetValue(t, value)
      PROVE  /\ tags' \in [TagIds -> Row] /\ clock' \in Times
             /\ \A u \in TagIds : /\ tags'[u].state = tags[u].state
                                  /\ tags'[u].created = tags[u].created
             /\ Watch
  BY <1>6 DEF SetValue, TypeOK, Row
<1> QED
  BY <1>1, <1>3, <1>4, <1>5, <1>6

\* A page is made of listed rows.
LEMMA PageListed ==
  ASSUME NEW offset, NEW page \in Pages(offset)
  PROVE  page \subseteq Listed
  BY DEF Pages

LEMMA TypeInit == Init => TypeOK
<1> SUFFICES ASSUME Init
             PROVE  TypeOK
  OBVIOUS
<1>1. Bare("none") \in Row /\ Bare("none").state = "none"
  BY WantedAssumption, MaxTimeAssumption DEF Bare, Row, Times
<1>2. tags \in [TagIds -> Row] /\ clock \in Times
  BY <1>1, MaxTimeAssumption DEF Init, Times
<1> QED
  BY <1>2 DEF Init, TypeOK, Scan

LEMMA TypeNext == TypeOK /\ [Next]_vars => TypeOK'
<1> SUFFICES ASSUME TypeOK, [Next]_vars
             PROVE  TypeOK'
  OBVIOUS
<1>1. CASE TableStep
  BY <1>1, TableStepTypes DEF TypeOK, Watch, Scan
<1>2. CASE StartScan
  <2>1. Listed \subseteq {t \in TagIds : tags[t].state \in {"live", "gone"}}
    BY DEF Listed
  <2> QED
    BY <1>2, <2>1 DEF StartScan, TypeOK, Scan, table
<1>3. CASE ReadPage
  <2>1. PICK page \in Pages(scan.offset) :
          /\ scan' = [scan EXCEPT !.offset = @ + Limit, !.got = @ \cup page,
                                  !.state = IF Cardinality(page) < Limit THEN "done" ELSE @]
          /\ repeated' = (repeated \/ page \cap scan.got # {})
    BY <1>3 DEF ReadPage
  <2>2. page \subseteq {t \in TagIds : tags[t].state \in {"live", "gone"}}
    BY PageListed DEF Listed
  <2>3. scan' \in Scan /\ scan'.first = scan.first /\ scan'.got = scan.got \cup page
    <3>1. scan \in Scan /\ scan.got \cup page \in SUBSET TagIds
      BY <2>2 DEF TypeOK, Scan
    <3>2. scan.offset + Limit \in Nat
      BY <3>1, LimitAssumption DEF Scan
    <3> QED
      BY <2>1, <3>1, <3>2 DEF Scan
  <2> QED
    BY <1>3, <2>1, <2>2, <2>3 DEF ReadPage, TypeOK, table
<1>4. CASE UNCHANGED vars
  BY <1>4 DEF TypeOK, vars, table, history
<1> QED
  BY <1>1, <1>2, <1>3, <1>4, NextSteps

-----------------------------------------------------------------------------
(***************************************************************************)
(* The scan                                                                *)
(***************************************************************************)

\* While no row leaves the listing ranks grow, while none joins it they fall.
LEMMA RanksMove ==
  ASSUME TypeOK, TypeOK', TableStep
  PROVE  /\ ~left' => ~left /\ Listed \subseteq Listed' /\ \A x \in Listed : Rank(x)' >= Rank(x)
         /\ ~joined' => ~joined /\ Listed' \subseteq Listed /\ \A x \in Listed' : Rank(x)' <= Rank(x)
<1>1. \A x \in Listed \cap Listed' : tags'[x].created = tags[x].created
  BY TableStepTypes DEF Listed
<1>2. Watch
  BY TableStepTypes
<1>3. \A x : /\ IsFiniteSet(Older(x)) /\ IsFiniteSet(Older(x)')
             /\ Rank(x) \in Nat /\ Rank(x)' \in Nat
  <2>1. (\A x : IsFiniteSet(Older(x)) /\ Rank(x) \in Nat)'
    BY RanksFinite, PTL
  <2> QED
    BY <2>1, RanksFinite
<1>4. ASSUME ~left'
      PROVE  ~left /\ Listed \subseteq Listed' /\ \A x \in Listed : Rank(x)' >= Rank(x)
  <2>1. ~left /\ Listed \subseteq Listed'
    BY <1>2, <1>4 DEF Watch
  <2>2. \A x \in Listed : Older(x) \in SUBSET (Older(x)')
    BY <1>1, <2>1 DEF Older
  <2> QED
    BY <1>3, <2>1, <2>2, FS_Subset DEF Rank
<1>5. ASSUME ~joined'
      PROVE  ~joined /\ Listed' \subseteq Listed /\ \A x \in Listed' : Rank(x)' <= Rank(x)
  <2>1. ~joined /\ Listed' \subseteq Listed
    BY <1>2, <1>5 DEF Watch
  <2>2. \A x \in Listed' : Older(x)' \in SUBSET Older(x)
    BY <1>1, <2>1 DEF Older
  <2> QED
    BY <1>3, <2>1, <2>2, FS_Subset DEF Rank
<1> QED
  BY <1>4, <1>5

LEMMA ScanInit == Init => StillToCome /\ AlreadyPassed
  BY DEF Init, StillToCome, AlreadyPassed

LEMMA ScanStartScan ==
  ASSUME TypeOK, StartScan
  PROVE  (StillToCome /\ AlreadyPassed)'
<1>1. /\ scan' = [state |-> "reading", offset |-> 0, first |-> Listed, got |-> {}]
      /\ Listed' = Listed /\ ~repeated'
      /\ \A x : Rank(x)' = Rank(x)
  BY DEF StartScan, table, Listed, Rank, Older
<1>2. \A x : Rank(x) \in Nat
  BY RankType
<1> QED
  BY <1>1, <1>2 DEF StillToCome, AlreadyPassed

LEMMA ScanTableStep ==
  ASSUME TypeOK, TypeOK', StillToCome, AlreadyPassed, TableStep
  PROVE  (StillToCome /\ AlreadyPassed)'
<1>1. UNCHANGED <<scan, tied, repeated>>
  BY TableStepTypes DEF Watch
<1>2. scan.offset \in Nat
  BY DEF TypeOK, Scan
<1>3. \A x : Rank(x) \in Nat /\ Rank(x)' \in Nat
  <2>1. (\A x : IsFiniteSet(Older(x)) /\ Rank(x) \in Nat)'
    BY RanksFinite, PTL
  <2> QED
    BY <2>1, RanksFinite
<1>4. StillToCome'
  BY <1>1, <1>2, <1>3, RanksMove DEF StillToCome
<1>5. AlreadyPassed'
  BY <1>1, <1>2, <1>3, RanksMove DEF AlreadyPassed
<1> QED
  BY <1>4, <1>5

LEMMA ScanReadPage ==
  ASSUME TypeOK, StillToCome, AlreadyPassed, ReadPage
  PROVE  (StillToCome /\ AlreadyPassed)'
<1>1. PICK page \in Pages(scan.offset) :
        /\ scan' = [scan EXCEPT !.offset = @ + Limit, !.got = @ \cup page,
                                !.state = IF Cardinality(page) < Limit THEN "done" ELSE @]
        /\ repeated' = (repeated \/ page \cap scan.got # {})
  BY DEF ReadPage
<1>2. /\ scan.state = "reading" /\ UNCHANGED <<joined, left>>
      /\ tied' = (tied \/ Tied)
      /\ Listed' = Listed /\ \A x : Rank(x)' = Rank(x)
  BY DEF ReadPage, table, Listed, Rank, Older
<1>3. scan.offset \in Nat /\ Limit \in Nat \ {0} /\ scan \in Scan
  BY LimitAssumption DEF TypeOK, Scan
<1>4. /\ scan'.offset = scan.offset + Limit /\ scan'.first = scan.first
      /\ scan'.got = scan.got \cup page
      /\ scan'.state = IF Cardinality(page) < Limit THEN "done" ELSE "reading"
  BY <1>1, <1>2, <1>3 DEF Scan
<1>5. \A x : Rank(x) \in Nat
  BY RankType
<1>6. ASSUME ~Tied
      PROVE  /\ page \subseteq Listed
             /\ \A x \in page : scan.offset <= Rank(x) /\ Rank(x) < scan.offset + Limit
             /\ \A x \in Listed : Rank(x) >= scan.offset /\ x \notin page =>
                  Cardinality(page) = Limit /\ Rank(x) >= scan.offset + Limit
  BY <1>3, <1>6, PageByRank
<1>7. StillToCome'
  <2> SUFFICES ASSUME ~left', ~tied'
               PROVE  /\ scan'.first \subseteq Listed'
                      /\ \A x \in scan'.first :
                           \/ x \in scan'.got
                           \/ scan'.state = "reading" /\ Rank(x)' >= scan'.offset
    BY DEF StillToCome
  <2>1. /\ scan.first \subseteq Listed
        /\ \A x \in scan.first : x \in scan.got \/ Rank(x) >= scan.offset
    BY <1>2 DEF StillToCome
  <2>2. ASSUME NEW x \in scan.first, x \notin scan.got, x \notin page
        PROVE  scan'.state = "reading" /\ Rank(x)' >= scan'.offset
    <3>1. Cardinality(page) = Limit /\ Rank(x) >= scan.offset + Limit
      BY <1>2, <1>6, <2>1, <2>2
    <3> QED
      BY <1>2, <1>3, <1>4, <3>1
  <2> QED
    BY <1>2, <1>4, <2>1, <2>2
<1>8. AlreadyPassed'
  <2> SUFFICES ASSUME ~joined', ~tied'
               PROVE  /\ ~repeated'
                      /\ \A x \in scan'.got \cap Listed' : Rank(x)' < scan'.offset
    BY DEF AlreadyPassed
  <2>1. ~repeated /\ \A x \in scan.got \cap Listed : Rank(x) < scan.offset
    BY <1>2 DEF AlreadyPassed
  <2>2. page \cap scan.got = {}
    <3>1. ~Tied
      BY <1>2
    <3>2. ASSUME NEW x \in page \cap scan.got
          PROVE  FALSE
      <4>1. x \in Listed /\ Rank(x) >= scan.offset
        BY <1>3, <1>5, <1>6, <3>1, <3>2
      <4> QED
        BY <1>3, <1>5, <2>1, <3>2, <4>1
    <3> QED
      BY <3>2
  <2>3. \A x \in scan.got \cap Listed : Rank(x) < scan.offset + Limit
    BY <1>3, <1>5, <2>1
  <2> QED
    BY <1>1, <1>2, <1>4, <1>6, <2>1, <2>2, <2>3
<1> QED
  BY <1>7, <1>8

LEMMA ScanNext == ScanInv /\ [Next]_vars => ScanInv'
<1> SUFFICES ASSUME ScanInv, [Next]_vars
             PROVE  ScanInv'
  OBVIOUS
<1>1. TypeOK /\ StillToCome /\ AlreadyPassed /\ TypeOK'
  BY TypeNext DEF ScanInv
<1>2. CASE TableStep
  BY <1>1, <1>2, ScanTableStep DEF ScanInv
<1>3. CASE StartScan
  BY <1>1, <1>3, ScanStartScan DEF ScanInv
<1>4. CASE ReadPage
  BY <1>1, <1>4, ScanReadPage DEF ScanInv
<1>5. CASE UNCHANGED vars
  BY <1>1, <1>5 DEF ScanInv, StillToCome, AlreadyPassed, Rank, Older, Listed,
                    vars, table, history
<1> QED
  BY <1>2, <1>3, <1>4, <1>5, NextSteps

-----------------------------------------------------------------------------
\* The listing, the clock and the reader keep their types, and the reader only
\* knows rows that were committed.
THEOREM PagingTypeCorrect == Spec => []TypeOK
<1>1. Init => TypeOK
  BY TypeInit
<1>2. TypeOK /\ [Next]_vars => TypeOK'
  BY TypeNext
<1> QED
  BY <1>1, <1>2, PTL DEF Spec

LEMMA Scanned == Spec => []ScanInv
<1>1. Init => ScanInv
  BY TypeInit, ScanInit DEF ScanInv
<1>2. ScanInv /\ [Next]_vars => ScanInv'
  BY ScanNext
<1> QED
  BY <1>1, <1>2, PTL DEF Spec

\* A reader who goes through the pages of ListBySubject or Search misses no row
\* that was there from the beginning to the end, whatever is inserted meanwhile
\* and in whatever order the inserts commit.
THEOREM NoneSkipped == Spec => []NothingSkipped
<1>1. ScanInv => NothingSkipped
  BY DEF ScanInv, StillToCome, NothingSkipped
<1> QED
  BY <1>1, Scanned, PTL

\* A reader who goes through the pages gets no row twice as long as none joins
\* the listing, whatever is deleted meanwhile.
THEOREM NoneTwice == Spec => []NothingTwice
<1>1. ScanInv => NothingTwice
  BY DEF ScanInv, AlreadyPassed, NothingTwice
<1> QED
  BY <1>1, Scanned, PTL
=============================================================================
