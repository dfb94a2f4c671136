-------------------------- MODULE TagRefinementProofs --------------------------
(***************************************************************************)
(* TagService implements TagRegistry, for every value of its constants:    *)
(* each of its steps is one whole operation on one tag, or one the         *)
(* registry cannot see.                                                    *)
(***************************************************************************)
EXTENDS TagServiceProofs

LEMMA InitImplements ==
  ASSUME Init
  PROVE  Registry!Init
  BY SubsetAssumption DEF Init, Registry!Init

\* A step that touches neither the tags nor the archive.
LEMMA UnseenStep ==
  ASSUME [Next]_vars, UNCHANGED <<tags, archived, guarded>>
  PROVE  UNCHANGED Registry!registryVars
  BY DEF Registry!registryVars

\* What a commit does to the tables is one operation of the registry; the second
\* of two deletions changes nothing.
LEMMA PersistImplements ==
  ASSUME IInv, NEW r \in Requests, pc[r] = "written", Persist(r)
  PROVE  [Registry!Next]_(Registry!registryVars)
  <1> USE DEF IInv, Safe, Typed, TypeOK
  <1> DEFINE x == tx[r]
             c == call[r]
  <1>1. x \in Tx /\ x.id \in TagIds /\ c \in Calls /\ InTx(r)
    BY TxType DEF InTx
  <1>2. /\ tags' = [tags EXCEPT ![x.id] = x.row]
        /\ archived' = IF c.op = "delete" THEN archived \cup {x.id} ELSE archived
        /\ guarded' = IF x.checked THEN guarded \cup {x.id} ELSE guarded
    BY DEF Persist
  <1>3. c.op = "create" <=> owner[x.id] = NoOwner
    BY <1>1 DEF IdsOwned
  <1>4. CASE c.op = "create"
    <2>1. x.row \in Row
      BY <1>4 DEF TxShape
    <2>2. x.id \notin Registry!Live \cup archived
      BY <1>1, <1>3, <1>4 DEF IdsOwned, ArchivedExactlyDeleted, Registry!Live
    <2>3. archived' = archived
      BY <1>2, <1>4
    <2>4. CASE ~x.checked
      <3>1. Registry!CreateFree(x.id)
        BY <1>2, <2>1, <2>2, <2>3, <2>4 DEF Registry!CreateFree
      <3>2. QED
        BY <1>1, <3>1 DEF Registry!Next
    <2>5. CASE x.checked
      <3>1. \A u \in Registry!Live \cap guarded : Registry!Tuple(tags[u]) # Registry!Tuple(x.row)
        BY <2>5 DEF TuplesLocked, Live, Registry!Live, Tuple, Registry!Tuple
      <3>2. Registry!CreateGuarded(x.id)
        BY <1>2, <2>1, <2>2, <2>3, <2>5, <3>1 DEF Registry!CreateGuarded
      <3>3. QED
        BY <1>1, <3>2 DEF Registry!Next
    <2>6. QED
      BY <2>4, <2>5
  <1>5. CASE c.op \in {"value", "color"}
    <2>1. /\ tags[x.id] \in Row /\ x.row = Updated(c, tags[x.id])
          /\ x.row \in Row /\ ~x.checked
      BY <1>5 DEF RowsLocked, TxShape
    <2>2. x.id \in Registry!Live /\ UNCHANGED <<archived, guarded>>
      BY <1>1, <1>2, <1>5, <2>1, NullAssumption DEF Registry!Live
    <2>3. CASE c.op = "value"
      <3>1. tags' = [tags EXCEPT ![x.id].value = x.row.value]
        <4>1. x.row = [tags[x.id] EXCEPT !.value = x.row.value]
          <5>1. x.row = [tags[x.id] EXCEPT !.value = c.value]
            BY <2>1, <2>3 DEF Updated
          <5>2. x.row.value = c.value
            BY <2>1, <5>1 DEF Row
          <5>3. QED
            BY <5>1, <5>2
        <4>2. QED
          BY <1>2, <4>1
      <3>2. Registry!SetValue(x.id)
        BY <2>1, <2>2, <3>1 DEF Registry!SetValue
      <3>3. QED
        BY <1>1, <3>2 DEF Registry!Next
    <2>4. CASE c.op = "color"
      <3>1. tags' = [tags EXCEPT ![x.id].color = x.row.color]
        <4>1. x.row = [tags[x.id] EXCEPT !.color = x.row.color]
          <5>1. x.row = [tags[x.id] EXCEPT !.color = c.color]
            BY <2>1, <2>4 DEF Updated
          <5>2. x.row.color = c.color
            BY <2>1, <5>1 DEF Row
          <5>3. QED
            BY <5>1, <5>2
        <4>2. QED
          BY <1>2, <4>1
      <3>2. Registry!SetColor(x.id)
        BY <2>1, <2>2, <3>1 DEF Registry!SetColor
      <3>3. QED
        BY <1>1, <3>2 DEF Registry!Next
    <2>5. QED
      BY <1>5, <2>3, <2>4
  <1>6. CASE c.op = "delete"
    <2>1. x.row = NoTag /\ ~x.checked
      BY <1>6 DEF TxShape
    <2>2. tags' = [tags EXCEPT ![x.id] = NoTag] /\ archived' = archived \cup {x.id} /\ guarded' = guarded
      BY <1>2, <1>6, <2>1
    <2>3. CASE tags[x.id] # NoTag
      <3>1. Registry!Delete(x.id)
        BY <1>1, <2>2, <2>3 DEF Registry!Delete, Registry!Live
      <3>2. QED
        BY <1>1, <3>1 DEF Registry!Next
    <2>4. CASE tags[x.id] = NoTag
      <3>1. x.id \in archived
        BY <1>1, <1>3, <1>6, <2>4 DEF ArchivedExactlyDeleted
      <3>2. tags' = tags /\ archived' = archived
        BY <1>1, <2>2, <2>4, <3>1
      <3>3. QED
        BY <2>2, <3>2 DEF Registry!registryVars
    <2>5. QED
      BY <2>3, <2>4
  <1>7. QED
    BY <1>4, <1>5, <1>6 DEF TxShape

LEMMA NextImplements == IInv /\ [Next]_vars => [Registry!Next]_(Registry!registryVars)
  <1> SUFFICES ASSUME IInv, [Next]_vars PROVE [Registry!Next]_(Registry!registryVars)
    OBVIOUS
  <1>1. ASSUME NEW r \in Requests, Commit(r) \/ LoseCommitReply(r)
        PROVE  [Registry!Next]_(Registry!registryVars)
    <2>1. pc[r] = "written" /\ Persist(r)
      BY <1>1 DEF Commit, LoseCommitReply
    <2>2. QED
      BY <2>1, PersistImplements
  <1>2. ASSUME NEW r \in Requests,
               \/ Arrive(r) \/ Read(r) \/ BeginCreate(r) \/ PassCheck(r) \/ Conflict(r)
               \/ Fetch(r) \/ Update(r) \/ UpdateGone(r) \/ Delete(r) \/ Notify(r)
               \/ FailTx(r) \/ Crash(r)
        PROVE  UNCHANGED <<tags, archived, guarded>>
    BY <1>2 DEF Arrive, Reject, Admit, Read, BeginCreate, PassCheck, Conflict, Fetch, Update,
                UpdateGone, Delete, Notify, FailTx, Crash, db
  <1>3. ASSUME NEW p \in MutablePolicies, SetPolicy(p)
        PROVE  UNCHANGED <<tags, archived, guarded>>
    BY <1>3 DEF SetPolicy, db
  <1>4. CASE UNCHANGED <<tags, archived, guarded>>
    BY <1>4, UnseenStep
  <1>5. QED
    BY <1>1, <1>2, <1>3, <1>4, UnseenStep DEF Next, ChangeGrant, Rest, Step, Fail, vars, db

\* A caller of the service who sees only the tables cannot tell it from a
\* registry whose every operation is a single step.
THEOREM ServiceImplementsRegistry == Spec => Refines
  <1>1. Init => Registry!Init
    BY InitImplements
  <1>2. QED
    BY <1>1, Invariance, NextImplements, PTL DEF Spec, Refines, Registry!Spec
================================================================================
