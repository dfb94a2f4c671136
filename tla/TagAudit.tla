------------------------------ MODULE TagAudit ------------------------------
(***************************************************************************)
(* What the observers of the tag service can rely on: the audit trail      *)
(* written inside the transactions, and the notices given after commit.    *)
(***************************************************************************)
EXTENDS TagService

CONSTANT SeedRow  \* the row every tag of SeedTags starts with
ASSUME SeedRowAssumption == SeedRow \in Row

\* Tags older than the trail all start alike, so that it can be replayed.
AuditInit == Init /\ \A t \in SeedTags : tags[t] = SeedRow
AuditSpec == AuditInit /\ [][Next]_vars
FairAuditSpec == AuditSpec /\ Fairness

First(t) == IF t \in SeedTags THEN SeedRow ELSE NoTag

\* The row a reader of the trail derives after one more entry.
Replayed(row, e) ==
  CASE e.op = "value" -> [row EXCEPT !.value = e.after]
    [] e.op = "color" -> [row EXCEPT !.color = e.after]
    [] OTHER -> e.after

\* What a trail says a tag was, before its first entry and after each one.
Replay(first, trail) ==
  LET row[n \in 0..Len(trail)] == IF n = 0 THEN first ELSE Replayed(row[n - 1], trail[n])
  IN  row

History(t) == Replay(First(t), audit[t])

\* Reading a tag's audit entries in order gives the tag as it is stored: no
\* committed change is missing from the trail, none is listed that did not
\* commit, and no update undoes the column another one committed while it ran.
AuditReplay ==
  \A t \in TagIds : History(t)[Len(audit[t])] = tags[t]

\* A post-commit observer only ever hears of states the tag really was in: the
\* snapshot it is given is a row that some prefix of the trail describes.
CommittedNotices ==
  \A t \in TagIds : \E n \in 0..Len(audit[t]) : cache[t] = History(t)[n]

\* The part of a row that an entry of this operation is about.
Part(op, row) == IF op \in {"value", "color"} THEN row[op] ELSE row

\* What an entry says was there before was there at some time before the entry,
\* though maybe not right before it (see ChainedBefore): the fetch of the change
\* never sees what did not commit, nor anything of another tag.  Only a creation
\* finds no tag.
GenuineBefore ==
  \A t \in TagIds : \A i \in DOMAIN audit[t] : \E n \in 0..(i - 1) :
    /\ audit[t][i].op = "create" <=> History(t)[n] = NoTag
    /\ audit[t][i].before = Part(audit[t][i].op, History(t)[n])

\* A trail tells one life: it begins with the creation, unless the tag is older
\* than the trail, and a deletion is final, since only deletions that ran at the
\* same time can follow it.
OneLife ==
  \A t \in TagIds : \A i \in DOMAIN audit[t] :
    /\ audit[t][i].op = "create" <=> i = 1 /\ t \notin SeedTags
    /\ \A j \in 1..(i - 1) : audit[t][j].op = "delete" => audit[t][i].op = "delete"

\* The value an entry says it replaced is the one the entries before it left:
\* the trail is a chain.
ChainedBefore ==
  \A t \in TagIds : \A i \in DOMAIN audit[t] :
    audit[t][i].before = Part(audit[t][i].op, History(t)[i - 1])

\* A tag is deleted once: a second DELETE finds no row and is refused.
DeletedOnce ==
  \A t \in TagIds : \A i, j \in DOMAIN audit[t] :
    audit[t][i].op = "delete" /\ audit[t][j].op = "delete" => i = j

\* A mutation whose tag disappeared is masked as forbidden: with no failure of
\* the database, no request is answered with an internal error.
MissIsMasked == \A r \in Requests : reply[r] # "internal"

\* Under a one-of-domain policy no insert adds a second tag to a tuple that
\* holds a tag admitted under that policy.
NoSecondUnderPolicy ==
  [][\A t \in TagIds :
       tags[t] = NoTag /\ tags'[t] # NoTag /\ policy[tags'[t].purpose]
       => \A u \in Live \cap guarded : Tuple(tags[u]) # Tuple(tags'[t])]_vars
=============================================================================
