----------------------------- MODULE TagRegistry -----------------------------
(***************************************************************************)
(* What the tags tables promise to the callers of the service, with every  *)
(* operation a single step: no transactions, no locks, no policy lookup    *)
(* that can be out of date.  TagService is checked to implement it.        *)
(***************************************************************************)
CONSTANTS TagIds,   \* entity ids a tag row can be stored under
          Rows,     \* [owner, subject, purpose, value, color] of a tag
          NoTag     \* the value of an id that has no row

VARIABLES tags,     \* the tags table
          gone,     \* entities.archived_at is set
          guarded   \* tags inserted under the one-of-domain check

registryVars == <<tags, gone, guarded>>

Live == {t \in TagIds : tags[t] # NoTag}

\* The key of the one-of-domain rule: (owner_id, subject_id, purpose).
Tuple(row) == <<row.owner, row.subject, row.purpose>>

Init ==
  /\ tags \in [TagIds -> Rows \cup {NoTag}]
  /\ gone = {}
  /\ guarded = {}

\* A tag created without the check: its purpose allows several tags.
CreateFree(t) ==
  /\ t \notin Live \cup gone
  /\ \E row \in Rows : tags' = [tags EXCEPT ![t] = row]
  /\ UNCHANGED <<gone, guarded>>

\* A tag created under the check: no other tag that passed the check may
\* hold the same tuple.
CreateGuarded(t) ==
  /\ t \notin Live \cup gone
  /\ \E row \in Rows :
       /\ \A u \in Live \cap guarded : Tuple(tags[u]) # Tuple(row)
       /\ tags' = [tags EXCEPT ![t] = row]
  /\ guarded' = guarded \cup {t}
  /\ UNCHANGED gone

\* An update replaces one column of a live tag and leaves its identity alone.
SetValue(t) ==
  /\ t \in Live
  /\ \E row \in Rows : tags' = [tags EXCEPT ![t].value = row.value]
  /\ UNCHANGED <<gone, guarded>>

SetColor(t) ==
  /\ t \in Live
  /\ \E row \in Rows : tags' = [tags EXCEPT ![t].color = row.color]
  /\ UNCHANGED <<gone, guarded>>

\* A deleted tag leaves the table and its entity stays archived for good.
Delete(t) ==
  /\ t \in Live
  /\ tags' = [tags EXCEPT ![t] = NoTag]
  /\ gone' = gone \cup {t}
  /\ UNCHANGED guarded

Next ==
  \E t \in TagIds :
    \/ CreateFree(t)
    \/ CreateGuarded(t)
    \/ SetValue(t)
    \/ SetColor(t)
    \/ Delete(t)

Spec == Init /\ [][Next]_registryVars
=============================================================================
