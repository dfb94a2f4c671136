----------------------------- MODULE TagPaging -----------------------------
(***************************************************************************)
(* GET /tags and GET /entities/{uuid}/tags read the tags in pages, ordered *)
(* by created_at, each page by a query of its own.  A reader asks for one  *)
(* page after the other while tags come, change and go.                    *)
(*                                                                         *)
(* created_at is now(), the time the inserting transaction began: tags can *)
(* appear in another order than they are listed in, and two may share a    *)
(* time.  Only the rows the reader has access to are modelled.             *)
(***************************************************************************)
EXTENDS Naturals, FiniteSets

CONSTANTS
  TagIds, Values,
  Wanted,   \* the values the filter lets through; all of them without one
  Limit,    \* the page size, after its default and its cap
  MaxTime   \* bound on the clock

ASSUME WantedAssumption == Wanted \subseteq Values /\ Values # {}
ASSUME LimitAssumption == Limit \in Nat \ {0}
ASSUME FiniteAssumption == IsFiniteSet(TagIds)
ASSUME MaxTimeAssumption == MaxTime \in Nat

VARIABLES
  tags, clock,
  scan,           \* the reader: how far it is, and what it was given
  joined, left,   \* whether a row came into, or went out of, the listing
  tied,           \* whether a page was cut from rows of one created_at
  repeated        \* whether a row was given twice

table == <<tags, clock>>
history == <<joined, left, tied, repeated>>
vars == <<table, scan, history>>

Times == 0..MaxTime
Row == [state : {"none", "open", "live", "gone"}, created : Times, value : Values]
\* A row that is not there has no columns to speak of.
Bare(state) == [state |-> state, created |-> 0, value |-> CHOOSE value \in Values : TRUE]

Scan == [state : {"idle", "reading", "done"}, offset : Nat,
         first : SUBSET TagIds,   \* what was listed when it began
         got : SUBSET TagIds]

TypeOK ==
  /\ tags \in [TagIds -> Row]
  /\ clock \in Times
  /\ scan \in Scan
  /\ scan.got \cup scan.first \subseteq {t \in TagIds : tags[t].state \in {"live", "gone"}}
  /\ {joined, left, tied, repeated} \subseteq BOOLEAN

\* Fault: the query sees rows that are not committed.
ListedUncommitted ==
  {t \in TagIds : tags[t].state \in {"open", "live"} /\ tags[t].value \in Wanted}

\* The rows a query sees, in whatever order.
Listed == {t \in TagIds : tags[t].state = "live" /\ tags[t].value \in Wanted}

Init ==
  /\ tags = [t \in TagIds |-> Bare("none")]
  /\ clock = 0
  /\ scan = [state |-> "idle", offset |-> 0, first |-> {}, got |-> {}]
  /\ joined = FALSE /\ left = FALSE /\ tied = FALSE /\ repeated = FALSE

-----------------------------------------------------------------------------
Watch ==
  /\ joined' = (joined \/ Listed' \ Listed # {})
  /\ left' = (left \/ Listed \ Listed' # {})
  /\ UNCHANGED <<scan, tied, repeated>>

\* A request begins to create a tag; its row is not there for others yet.
Begin(t, value) ==
  /\ tags[t].state = "none"
  /\ clock' \in {clock, clock + 1} \cap Times
  /\ tags' = [tags EXCEPT ![t] = [state |-> "open", created |-> clock', value |-> value]]
  /\ Watch

Commit(t) ==
  /\ tags[t].state = "open"
  /\ tags' = [tags EXCEPT ![t].state = "live"]
  /\ clock' = clock /\ Watch

SetValue(t, value) ==
  /\ tags[t].state = "live"
  /\ tags' = [tags EXCEPT ![t].value = value]
  /\ clock' = clock /\ Watch

\* A tag is deleted, or its creation is rolled back.
Remove(t) ==
  /\ tags[t].state \in {"open", "live"}
  /\ tags' = [tags EXCEPT ![t] = Bare("gone")]
  /\ clock' = clock /\ Watch

-----------------------------------------------------------------------------
StartScan ==
  /\ scan.state # "reading"
  /\ scan' = [state |-> "reading", offset |-> 0, first |-> Listed, got |-> {}]
  /\ joined' = FALSE /\ left' = FALSE /\ tied' = FALSE /\ repeated' = FALSE
  /\ UNCHANGED table

\* No row outside s is older than one of s.
Oldest(s) == \A x \in s, y \in Listed \ s : tags[x].created <= tags[y].created

\* Fault: a page begins with the last row of the page before.
OneLess(offset) ==
  IF offset \in 1..Cardinality(Listed) THEN offset - 1
  ELSE IF offset = 0 THEN 0 ELSE Cardinality(Listed)

\* Fault: a page begins one row too late.
OneMore(offset) ==
  IF offset \in 1..(Cardinality(Listed) - 1) THEN offset + 1
  ELSE IF offset = 0 THEN 0 ELSE Cardinality(Listed)

\* How many rows OFFSET passes over.
PassedOver(offset) == IF offset <= Cardinality(Listed) THEN offset ELSE Cardinality(Listed)

\* The pages that ORDER BY created_at LIMIT .. OFFSET may answer: rows of one
\* created_at come in any order.
Pages(offset) ==
  {page \in SUBSET Listed :
     \E skipped \in SUBSET (Listed \ page) :
       /\ Cardinality(skipped) = PassedOver(offset)
       /\ \/ Cardinality(page) = Limit
          \/ Cardinality(page) < Limit /\ page = Listed \ skipped
       /\ Oldest(skipped) /\ Oldest(skipped \cup page)}

\* Whether ORDER BY created_at leaves the order of some rows open.
Tied == \E x, y \in Listed : x # y /\ tags[x].created = tags[y].created

\* The reader goes on until a page is not full.
ReadPage ==
  /\ scan.state = "reading"
  /\ \E page \in Pages(scan.offset) :
       /\ scan' = [scan EXCEPT !.offset = @ + Limit, !.got = @ \cup page,
                               !.state = IF Cardinality(page) < Limit THEN "done" ELSE @]
       /\ repeated' = (repeated \/ page \cap scan.got # {})
  /\ tied' = (tied \/ Tied)
  /\ UNCHANGED <<table, joined, left>>

Next ==
  \/ \E t \in TagIds :
       \/ Commit(t) \/ Remove(t)
       \/ \E value \in Values : Begin(t, value) \/ SetValue(t, value)
  \/ StartScan \/ ReadPage

Spec == Init /\ [][Next]_vars

-----------------------------------------------------------------------------
\* A scan during which no row left the listing gives every row that was listed
\* when it began, however many rows came in between.  Rows of one created_at
\* are an exception: a page may end in the middle of them.
NothingSkipped ==
  scan.state = "done" /\ ~left /\ ~tied => scan.first \subseteq scan.got

\* A scan during which no row came into the listing gives no row twice, even if
\* rows are deleted meanwhile.
NothingTwice == ~joined /\ ~tied => ~repeated
=============================================================================
