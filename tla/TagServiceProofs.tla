--------------------------- MODULE TagServiceProofs ---------------------------
(***************************************************************************)
(* Proofs about TagService, for every value of its constants.              *)
(***************************************************************************)
EXTENDS TagService, TLAPS

-------------------------------------------------------------------------------
(* The inductive invariant *)

\* A call in progress passed validation.
Validated ==
  \A r \in Requests :
    call[r] # Nil =>
      /\ ~BadInput(call[r])
      /\ call[r].op = "create" => call[r].subject # Invalid

\* What a transaction holds at each of its statements.
TxShape ==
  \A r \in Requests :
    /\ pc[r] = "checking" =>
         /\ call[r].op = "create"
         /\ tx[r].row \in Row /\ tx[r].checked
    /\ pc[r] = "fetched" =>
         /\ call[r].op \in {"value", "color", "delete"}
         /\ tx[r].seen \in Row /\ ~tx[r].checked
    /\ pc[r] = "written" =>
         \/ call[r].op = "create" /\ tx[r].row \in Row
         \/ /\ call[r].op \in {"value", "color"}
            /\ tx[r].seen \in Row /\ tx[r].row \in Row /\ ~tx[r].checked
         \/ call[r].op = "delete" /\ tx[r].row = NoTag /\ ~tx[r].checked

\* A tag id belongs to the entity row that was inserted with it: an open create
\* has an id of its own, the others work on ids whose entity is committed.
IdsOwned ==
  /\ \A t \in TagIds : tags[t] # NoTag => owner[t] # NoOwner
  /\ \A t \in guarded : owner[t] # NoOwner
  /\ \A r \in Requests : InTx(r) =>
       (call[r].op = "create" <=> owner[tx[r].id] = NoOwner)
  /\ \A r, s \in Requests :
       /\ r # s /\ InTx(r) /\ InTx(s)
       /\ call[r].op = "create" /\ call[s].op = "create"
       => tx[r].id # tx[s].id

\* Row locks: two written transactions never share an id, and nobody deletes
\* or moves a row that a written update is about to replace.
RowsLocked ==
  /\ \A r, s \in Requests :
       r # s /\ pc[r] = "written" /\ pc[s] = "written" => tx[r].id # tx[s].id
  /\ \A r \in Requests :
       pc[r] = "written" /\ call[r].op \in {"value", "color"} =>
         /\ tags[tx[r].id] \in Row
         /\ tx[r].row = Updated(call[r], tags[tx[r].id])
         /\ Tuple(tx[r].row) = Tuple(tags[tx[r].id])

\* Tuple locks: an insert that passed the check is alone on its tuple among the
\* tags and the inserts that passed it.
TuplesLocked ==
  \A r \in Requests : pc[r] = "written" /\ tx[r].checked =>
    /\ \A t \in guarded \cap Live : Tuple(tags[t]) # Tuple(tx[r].row)
    /\ \A s \in Requests \ {r} : ~HoldsTupleLock(s, tx[r].row)

Typed == TypeOK /\ Validated /\ TxShape

Safe == IdsOwned /\ RowsLocked /\ TuplesLocked /\ GuardedExclusive /\ ArchivedExactlyDeleted

IInv == Typed /\ Safe

-------------------------------------------------------------------------------
(* Typing *)

\* What the shape of a call says of its fields.
LEMMA CallFields ==
  ASSUME NEW c \in Calls
  PROVE  /\ c.op \in Ops /\ c.actor \in Actors
         /\ c.op \in {"create", "value", "color", "delete", "read"}
         /\ c.op = "create" =>
              /\ c.subject \in Subjects \cup {Invalid} /\ c.purpose \in Purposes
              /\ c.value \in Values \cup {Invalid} /\ c.color \in Colors \cup {Invalid}
         /\ c.op # "create" => c.target \in Targets
         /\ c.op = "value" => c.value \in Values \cup {Invalid}
         /\ c.op = "color" => c.color \in Colors \cup {Invalid}
  BY DEF Calls

\* A validated create describes a row.
LEMMA NewRowType ==
  ASSUME NEW c \in Calls, c.op = "create", ~BadInput(c), c.subject # Invalid
  PROVE  NewRow(c) \in Row
  BY CallFields DEF NewRow, Row, BadInput

\* A validated update yields a row, and one of the same tuple.
LEMMA UpdatedType ==
  ASSUME NEW c \in Calls, c.op \in {"value", "color"}, ~BadInput(c), NEW row \in Row
  PROVE  Updated(c, row) \in Row /\ Tuple(Updated(c, row)) = Tuple(row)
  <1>1. CASE c.op = "value"
    BY <1>1, CallFields DEF Updated, Row, BadInput, Tuple
  <1>2. CASE c.op = "color"
    BY <1>2, CallFields DEF Updated, Row, BadInput, Tuple
  <1>3. QED
    BY <1>1, <1>2

\* A call that is answered, or whose process died, has neither arguments nor a
\* transaction; what is left of the typing invariant is untouched.
LEMMA AnswerTyped ==
  ASSUME Typed, NEW r \in Requests, NEW a \in Answers, Answer(r, a)
  PROVE  /\ pc' \in [Requests -> Labels]
         /\ call' \in [Requests -> Calls \cup {Nil}]
         /\ tx' \in [Requests -> Tx \cup {Nil}]
         /\ reply' \in [Requests -> Answers]
         /\ \A s \in Requests : call'[s] = Nil <=> pc'[s] \in {"idle", "done", "crashed"}
         /\ \A s \in Requests : tx'[s] # Nil <=> (InTx(s)' \/ pc'[s] = "committed")
         /\ Validated' /\ TxShape'
  <1> USE DEF Typed, TypeOK
  <1>1. /\ pc' = [pc EXCEPT ![r] = "done"]
        /\ reply' = [reply EXCEPT ![r] = a]
        /\ call' = [call EXCEPT ![r] = Nil]
        /\ tx' = [tx EXCEPT ![r] = Nil]
    BY DEF Answer, Goto
  <1>2. pc' \in [Requests -> Labels] /\ reply' \in [Requests -> Answers]
    BY <1>1 DEF Labels
  <1>3. call' \in [Requests -> Calls \cup {Nil}] /\ tx' \in [Requests -> Tx \cup {Nil}]
    BY <1>1
  <1>4. \A s \in Requests : call'[s] = Nil <=> pc'[s] \in {"idle", "done", "crashed"}
    BY <1>1
  <1>5. \A s \in Requests : tx'[s] # Nil <=> (InTx(s)' \/ pc'[s] = "committed")
    BY <1>1 DEF InTx
  <1>6. Validated'
    BY <1>1 DEF Validated, BadInput
  <1>7. TxShape'
    BY <1>1 DEF TxShape
  <1>8. QED
    BY <1>2, <1>3, <1>4, <1>5, <1>6, <1>7

\* An answered request leaves TypeOK to the variables the answer does not touch.
LEMMA AnswerEnough ==
  ASSUME Typed, NEW r \in Requests, NEW a \in Answers, Answer(r, a), UNCHANGED <<policy, rights>>,
         /\ tags' \in [TagIds -> Row \cup {NoTag}]
         /\ owner' \in [TagIds -> Actors \cup {NoOwner}]
         /\ archived' \subseteq Targets
         /\ audit' \in [TagIds -> Seq(Entry)]
         /\ guarded' \subseteq TagIds
         /\ cache' \in [TagIds -> Row \cup {NoTag}]
  PROVE  Typed'
  BY AnswerTyped DEF Typed, TypeOK, rights

\* The transaction of a request that is in one.
LEMMA TxType ==
  ASSUME Typed, NEW r \in Requests, InTx(r) \/ pc[r] = "committed"
  PROVE  /\ tx[r] \in Tx /\ call[r] \in Calls
         /\ tx[r].id \in TagIds
         /\ tx[r].seen \in Row \cup {NoTag} /\ tx[r].row \in Row \cup {NoTag}
         /\ tx[r].checked \in BOOLEAN
  <1>1. tx[r] \in Tx
    BY DEF Typed, TypeOK
  <1>2. call[r] \in Calls
    BY DEF Typed, TypeOK, InTx
  <1>3. QED
    BY <1>1, <1>2 DEF Tx

\* What a commit writes is of the right types, its audit entry included.
LEMMA PersistTyped ==
  ASSUME Typed, NEW r \in Requests, pc[r] = "written", Persist(r)
  PROVE  /\ tags' \in [TagIds -> Row \cup {NoTag}]
         /\ owner' \in [TagIds -> Actors \cup {NoOwner}]
         /\ archived' \subseteq Targets
         /\ audit' \in [TagIds -> Seq(Entry)]
         /\ guarded' \subseteq TagIds
  <1> DEFINE c == call[r]
             x == tx[r]
             e == [op |-> c.op, request |-> r, by |-> c.actor,
                   before |-> Before(c, x), after |-> After(c, x)]
  <1>1. x \in Tx /\ c \in Calls /\ x.id \in TagIds /\ x.row \in Row \cup {NoTag}
    BY TxType DEF InTx
  <1>2. c.op \in Ops /\ c.actor \in Actors
    BY <1>1, CallFields
  <1>3. Before(c, x) \in Snapshot /\ After(c, x) \in Snapshot
    <2>1. CASE IsUpdate(c)
      <3>1. x.seen \in Row /\ x.row \in Row /\ c.op \in {"value", "color"}
        BY <2>1 DEF Typed, TxShape, IsUpdate
      <3>2. CASE c.op = "value"
        BY <2>1, <3>1, <3>2 DEF Before, After, Row, Snapshot
      <3>3. CASE c.op = "color"
        BY <2>1, <3>1, <3>3 DEF Before, After, Row, Snapshot
      <3>4. QED
        BY <3>1, <3>2, <3>3
    <2>2. CASE ~IsUpdate(c)
      BY <1>1, <2>2 DEF Before, After, Snapshot, Tx
    <2>3. QED
      BY <2>1, <2>2
  <1>4. e \in Entry
    BY <1>2, <1>3 DEF Entry
  <1>5. audit' = [audit EXCEPT ![x.id] = Append(audit[x.id], e)]
    BY DEF Persist
  <1>6. audit[x.id] \in Seq(Entry)
    BY <1>1 DEF Typed, TypeOK
  <1>7. Append(audit[x.id], e) \in Seq(Entry)
    BY <1>4, <1>6
  <1>8. audit' \in [TagIds -> Seq(Entry)]
    BY <1>5, <1>7 DEF Typed, TypeOK
  <1>9. QED
    BY <1>1, <1>2, <1>8 DEF Persist, Typed, TypeOK, Targets

LEMMA InitTyped == Init => Typed
  <1> SUFFICES ASSUME Init PROVE Typed
    OBVIOUS
  <1>1. tags \in [TagIds -> Row \cup {NoTag}]
    BY SubsetAssumption DEF Init
  <1>2. owner \in [TagIds -> Actors \cup {NoOwner}]
    <2>1. PICK rows \in [SeedTags -> Row] :
            tags = [t \in TagIds |-> IF t \in SeedTags THEN rows[t] ELSE NoTag]
      BY DEF Init
    <2>2. \A t \in SeedTags : tags[t].owner \in Actors
      BY <2>1, SubsetAssumption DEF Row
    <2>3. QED
      BY <2>2 DEF Init
  <1>3. audit \in [TagIds -> Seq(Entry)]
    BY DEF Init
  <1>4. TypeOK
    BY <1>1, <1>2, <1>3 DEF Init, TypeOK, Labels, Answers, InTx
  <1>5. QED
    BY <1>4 DEF Typed, Validated, TxShape, Init

LEMMA ArriveTyped ==
  ASSUME Typed, NEW r \in Requests, Arrive(r)
  PROVE  Typed'
  <1> USE DEF Typed, TypeOK
  <1>1. ASSUME NEW c \in Calls, Reject(r, c)
        PROVE  Typed'
    <2>1. PICK a \in {"invalid", "forbidden"} : Answer(r, a)
      BY <1>1 DEF Reject
    <2>2. QED
      BY <1>1, <2>1, AnswerEnough DEF Reject, db, rights, Answers
  <1>2. ASSUME NEW c \in Calls, Admit(r, c)
        PROVE  Typed'
    <2>1. /\ pc' = [pc EXCEPT ![r] = "admitted"] /\ call' = [call EXCEPT ![r] = c]
          /\ held' = [held EXCEPT ![r] = Allowing(c)]
          /\ UNCHANGED <<db, policy, grants, cache, tx, reply>> /\ pc[r] = "idle"
      BY <1>2 DEF Admit, Goto
    <2>6. held' \in [Requests -> SUBSET Grants]
      BY <2>1 DEF Allowing
    <2>2. TypeOK'
      BY <2>1, <2>6, NullAssumption DEF db, Labels, InTx
    <2>3. Validated'
      BY <1>2, <2>1 DEF Validated, Admit, Forbidden
    <2>4. TxShape'
      BY <2>1 DEF TxShape
    <2>5. QED
      BY <2>2, <2>3, <2>4
  <1>3. QED
    BY <1>1, <1>2 DEF Arrive

LEMMA BeginCreateTyped ==
  ASSUME Typed, NEW r \in Requests, BeginCreate(r)
  PROVE  Typed'
  <1> USE DEF Typed, TypeOK
  <1>1. call[r] \in Calls /\ call[r].op = "create" /\ call[r].purpose \in Purposes
    BY CallFields DEF BeginCreate
  <1>2. NewRow(call[r]) \in Row
    BY <1>1, NewRowType, NullAssumption DEF Validated
  <1>3. PICK t \in Fresh :
          tx' = [tx EXCEPT ![r] = [id |-> t, seen |-> NoTag, row |-> NewRow(call[r]),
                                   checked |-> policy[call[r].purpose]]]
    BY DEF BeginCreate
  <1>4. tx'[r] \in Tx /\ tx'[r].row \in Row /\ tx'[r].checked = policy[call[r].purpose]
    BY <1>1, <1>2, <1>3 DEF Tx, Fresh
  <1>5. /\ pc' = [pc EXCEPT ![r] = IF policy[call[r].purpose] THEN "checking" ELSE "written"]
        /\ UNCHANGED <<db, policy, rights, cache, call, reply>> /\ pc[r] = "admitted"
    BY DEF BeginCreate, Goto
  <1>6. TypeOK'
    BY <1>1, <1>3, <1>4, <1>5, NullAssumption DEF db, rights, Labels, InTx
  <1>7. Validated'
    BY <1>5 DEF Validated
  <1>8. TxShape'
    BY <1>1, <1>3, <1>4, <1>5 DEF TxShape
  <1>9. QED
    BY <1>6, <1>7, <1>8

LEMMA FetchTyped ==
  ASSUME Typed, NEW r \in Requests, Fetch(r)
  PROVE  Typed'
  <1> USE DEF Typed, TypeOK
  <1> DEFINE row == RowOf(call[r].target)
  <1>1. CASE row = NoTag
    <2>1. Answer(r, "forbidden") /\ UNCHANGED <<db, policy, rights, cache>>
      BY <1>1 DEF Fetch
    <2>2. QED
      BY <2>1, AnswerEnough DEF db, rights, Answers
  <1>2. CASE row # NoTag
    <2>1. /\ tx' = [tx EXCEPT ![r] = [id |-> call[r].target, seen |-> row, row |-> row,
                                      checked |-> FALSE]]
          /\ pc' = [pc EXCEPT ![r] = "fetched"] /\ pc[r] = "admitted"
          /\ call[r].op \in {"value", "color", "delete"}
          /\ UNCHANGED <<db, policy, rights, cache, call, reply>>
      BY <1>2 DEF Fetch, Goto
    <2>2. call[r].target \in TagIds /\ row \in Row
      BY <1>2 DEF RowOf
    <2>3. tx'[r] \in Tx /\ tx'[r].seen \in Row /\ ~tx'[r].checked
      BY <2>1, <2>2 DEF Tx
    <2>4. TypeOK'
      BY <2>1, <2>3, NullAssumption DEF db, rights, Labels, InTx
    <2>5. Validated'
      BY <2>1 DEF Validated
    <2>6. TxShape'
      BY <2>1, <2>3 DEF TxShape
    <2>7. QED
      BY <2>4, <2>5, <2>6
  <1>3. QED
    BY <1>1, <1>2

LEMMA WriteTyped ==
  ASSUME Typed, NEW r \in Requests, Update(r) \/ Delete(r)
  PROVE  Typed'
  <1> USE DEF Typed, TypeOK
  <1>1. tx[r] \in Tx /\ call[r] \in Calls /\ tx[r].id \in TagIds /\ pc[r] = "fetched"
    BY TxType DEF Update, Delete, InTx
  <1>2. PICK row \in Row \cup {NoTag} :
          /\ tx' = [tx EXCEPT ![r] = [tx[r] EXCEPT !.row = row]]
          /\ call[r].op \in {"value", "color"} => row \in Row
          /\ call[r].op \notin {"value", "color"} => call[r].op = "delete" /\ row = NoTag
    <2>1. CASE Update(r)
      <3>1. tags[tx[r].id] \in Row
        BY <1>1, <2>1 DEF Update
      <3>2. ~BadInput(call[r]) /\ call[r].op \in {"value", "color"}
        BY <1>1, <2>1, NullAssumption DEF Update, Validated
      <3>3. Updated(call[r], tags[tx[r].id]) \in Row
        BY <1>1, <3>1, <3>2, UpdatedType
      <3>4. QED
        BY <2>1, <3>2, <3>3 DEF Update
    <2>2. CASE Delete(r)
      BY <2>2 DEF Delete
    <2>3. QED
      BY <2>1, <2>2
  <1>3. /\ tx'[r] \in Tx /\ tx'[r].row = row
        /\ tx'[r].seen = tx[r].seen /\ tx'[r].checked = tx[r].checked
    BY <1>1, <1>2 DEF Tx
  <1>4. /\ pc' = [pc EXCEPT ![r] = "written"]
        /\ UNCHANGED <<db, policy, rights, cache, call, reply>>
    BY DEF Update, Delete, Goto
  <1>5. TypeOK'
    BY <1>1, <1>2, <1>3, <1>4, NullAssumption DEF db, rights, Labels, InTx
  <1>6. Validated'
    BY <1>4 DEF Validated
  <1>7. TxShape'
    BY <1>1, <1>2, <1>3, <1>4 DEF TxShape
  <1>8. QED
    BY <1>5, <1>6, <1>7

LEMMA CommitTyped ==
  ASSUME Typed, NEW r \in Requests, Commit(r)
  PROVE  Typed'
  <1> USE DEF Typed, TypeOK
  <1>1. /\ tags' \in [TagIds -> Row \cup {NoTag}]
        /\ owner' \in [TagIds -> Actors \cup {NoOwner}]
        /\ archived' \subseteq Targets
        /\ audit' \in [TagIds -> Seq(Entry)]
        /\ guarded' \subseteq TagIds
    BY PersistTyped DEF Commit
  <1>2. /\ pc' = [pc EXCEPT ![r] = "committed"] /\ pc[r] = "written"
        /\ UNCHANGED <<policy, rights, cache, call, tx, reply>>
    BY DEF Commit, Goto
  <1>3. TypeOK'
    BY <1>1, <1>2 DEF rights, Labels, InTx
  <1>4. Validated' /\ TxShape'
    BY <1>2 DEF Validated, TxShape
  <1>5. QED
    BY <1>3, <1>4

\* The steps that only move a request on, or only answer it.
LEMMA OtherTyped ==
  ASSUME Typed, NEW r \in Requests,
         \/ Read(r) \/ PassCheck(r) \/ Conflict(r) \/ UpdateGone(r) \/ Notify(r)
         \/ LoseCommitReply(r) \/ FailTx(r) \/ Crash(r)
  PROVE  Typed'
  <1> USE DEF Typed, TypeOK
  <1>1. CASE Read(r) \/ Conflict(r) \/ UpdateGone(r) \/ FailTx(r)
    <2>1. PICK a \in Answers : Answer(r, a)
      BY <1>1 DEF Read, Conflict, UpdateGone, FailTx, Answers
    <2>2. UNCHANGED <<db, policy, rights, cache>>
      BY <1>1 DEF Read, Conflict, UpdateGone, FailTx
    <2>3. QED
      BY <2>1, <2>2, AnswerEnough DEF db, rights
  <1>2. CASE PassCheck(r)
    <2>1. /\ pc' = [pc EXCEPT ![r] = "written"] /\ pc[r] = "checking"
          /\ UNCHANGED <<db, policy, rights, cache, call, tx, reply>>
      BY <1>2 DEF PassCheck, Goto
    <2>2. TypeOK'
      BY <2>1 DEF db, rights, Labels, InTx
    <2>3. Validated' /\ TxShape'
      BY <2>1 DEF Validated, TxShape
    <2>4. QED
      BY <2>2, <2>3
  <1>3. CASE Notify(r)
    <2>1. /\ Answer(r, "ok") /\ UNCHANGED <<db, policy, rights>>
          /\ cache' = [cache EXCEPT ![tx[r].id] = tx[r].row]
      BY <1>3 DEF Notify
    <2>2. cache' \in [TagIds -> Row \cup {NoTag}]
      BY <1>3, <2>1, TxType DEF Notify
    <2>3. QED
      BY <2>1, <2>2, AnswerEnough DEF db, rights, Answers
  <1>4. CASE LoseCommitReply(r)
    <2>1. Answer(r, "internal") /\ Persist(r) /\ pc[r] = "written" /\ UNCHANGED <<policy, rights, cache>>
      BY <1>4 DEF LoseCommitReply
    <2>2. QED
      BY <2>1, PersistTyped, AnswerEnough DEF Answers
  <1>5. CASE Crash(r)
    <2>1. /\ pc' = [pc EXCEPT ![r] = "crashed"]
          /\ call' = [call EXCEPT ![r] = Nil] /\ tx' = [tx EXCEPT ![r] = Nil]
          /\ UNCHANGED <<db, policy, rights, cache, reply>>
      BY <1>5 DEF Crash, Goto
    <2>2. TypeOK'
      BY <2>1 DEF db, rights, Labels, InTx
    <2>3. Validated' /\ TxShape'
      BY <2>1 DEF Validated, TxShape, BadInput
    <2>4. QED
      BY <2>2, <2>3
  <1>6. QED
    BY <1>1, <1>2, <1>3, <1>4, <1>5

LEMMA NextTyped == Typed /\ [Next]_vars => Typed'
  <1> SUFFICES ASSUME Typed, [Next]_vars PROVE Typed'
    OBVIOUS
  <1>1. ASSUME NEW r \in Requests, Arrive(r) PROVE Typed'
    BY <1>1, ArriveTyped
  <1>2. ASSUME NEW r \in Requests, Step(r) PROVE Typed'
    BY <1>2, BeginCreateTyped, FetchTyped, WriteTyped, CommitTyped, OtherTyped DEF Step
  <1>3. ASSUME NEW r \in Requests, Fail(r) PROVE Typed'
    BY <1>3, OtherTyped DEF Fail
  <1>4. ASSUME NEW p \in MutablePolicies, SetPolicy(p) PROVE Typed'
    <2>1. policy' \in [Purposes -> BOOLEAN] /\ UNCHANGED <<db, rights, cache, pc, call, tx, reply>>
      BY <1>4 DEF SetPolicy, Typed, TypeOK
    <2>2. QED
      BY <2>1 DEF Typed, TypeOK, Validated, TxShape, BadInput, InTx, db, rights
  <1>5. ASSUME NEW g \in Grants, ChangeGrant(g) PROVE Typed'
    <2>1. grants' \subseteq Grants /\ UNCHANGED <<db, policy, held, cache, pc, call, tx, reply>>
      BY <1>5 DEF ChangeGrant, Typed, TypeOK
    <2>2. QED
      BY <2>1 DEF Typed, TypeOK, Validated, TxShape, BadInput, InTx, db
  <1>6. CASE UNCHANGED vars
    BY <1>6 DEF vars, Typed, TypeOK, Validated, TxShape, BadInput, InTx
  <1>7. QED
    BY <1>1, <1>2, <1>3, <1>4, <1>5, <1>6 DEF Next, Rest

\* Every reachable state is well typed, and each request holds a transaction
\* exactly while it is between its first statement and its answer.
THEOREM TypeCorrect == Spec => []TypeOK
  <1>1. Spec => []Typed
    BY InitTyped, NextTyped, PTL DEF Spec
  <1>2. Typed => TypeOK
    BY DEF Typed
  <1>3. QED
    BY <1>1, <1>2, PTL

-------------------------------------------------------------------------------
(* Exclusive tuples, and deletion *)

LEMMA InitSafe == Init => Safe
  <1> SUFFICES ASSUME Init PROVE Safe
    OBVIOUS
  <1>1. Typed
    BY InitTyped
  <1>2. \A r \in Requests : pc[r] = "idle"
    BY DEF Init
  <1>3. guarded = {} /\ archived = {}
    BY DEF Init
  <1>4. \A t \in TagIds : tags[t] # NoTag <=> owner[t] # NoOwner
    <2>1. PICK rows \in [SeedTags -> Row] :
            tags = [t \in TagIds |-> IF t \in SeedTags THEN rows[t] ELSE NoTag]
      BY DEF Init
    <2>2. \A t \in SeedTags : tags[t] \in Row /\ tags[t].owner \in Actors
      BY <2>1, SubsetAssumption DEF Row
    <2>3. QED
      BY <2>1, <2>2, NullAssumption DEF Init
  <1>5. QED
    BY <1>2, <1>3, <1>4
       DEF Safe, IdsOwned, RowsLocked, TuplesLocked, GuardedExclusive, ArchivedExactlyDeleted, InTx

\* Nothing but r moved.
OnlyMoved(r) ==
  \A s \in Requests \ {r} : pc'[s] = pc[s] /\ tx'[s] = tx[s] /\ call'[s] = call[s]

\* A request that holds no transaction after a step that left the tables alone.
LEMMA OutOfTxSafe ==
  ASSUME IInv, NEW r \in Requests, OnlyMoved(r), UNCHANGED db, ~InTx(r)'
  PROVE  Safe'
  <1> USE DEF IInv, Safe, OnlyMoved, db, InTx
  <1>1. IdsOwned'
    BY DEF IdsOwned
  <1>2. RowsLocked'
    BY DEF RowsLocked
  <1>3. TuplesLocked'
    BY DEF TuplesLocked, HoldsTupleLock, Live
  <1>4. GuardedExclusive' /\ ArchivedExactlyDeleted'
    BY DEF GuardedExclusive, ArchivedExactlyDeleted, Live
  <1>5. QED
    BY <1>1, <1>2, <1>3, <1>4

\* The id of a new entity is nobody's, so no lock is in the way.
LEMMA BeginCreateSafe ==
  ASSUME IInv, NEW r \in Requests, BeginCreate(r)
  PROVE  Safe'
  <1> USE DEF IInv, Safe, Typed, TypeOK
  <1>1. PICK t \in Fresh :
          tx' = [tx EXCEPT ![r] = [id |-> t, seen |-> NoTag, row |-> NewRow(call[r]),
                                   checked |-> policy[call[r].purpose]]]
    BY DEF BeginCreate
  <1>2. /\ pc' = [pc EXCEPT ![r] = IF policy[call[r].purpose] THEN "checking" ELSE "written"]
        /\ UNCHANGED <<db, policy, rights, cache, call, reply>>
        /\ pc[r] = "admitted" /\ call[r].op = "create"
    BY DEF BeginCreate, Goto
  <1>3. /\ tx'[r].id = t /\ tx'[r].checked = policy[call[r].purpose]
        /\ t \in TagIds /\ owner[t] = NoOwner
        /\ \A s \in Requests : InTx(s) => tx[s].id # t
        /\ \A s \in Requests \ {r} : tx'[s] = tx[s] /\ pc'[s] = pc[s]
    BY <1>1, <1>2 DEF Fresh
  <1>4. IdsOwned'
    BY <1>2, <1>3 DEF IdsOwned, InTx, db
  <1>5. RowsLocked'
    BY <1>2, <1>3 DEF RowsLocked, InTx, db
  <1>6. TuplesLocked'
    BY <1>2, <1>3 DEF TuplesLocked, HoldsTupleLock, Live, db
  <1>7. GuardedExclusive' /\ ArchivedExactlyDeleted'
    BY <1>2 DEF GuardedExclusive, ArchivedExactlyDeleted, Live, db
  <1>8. QED
    BY <1>4, <1>5, <1>6, <1>7

\* An insert that passes the check finds its tuple free, and is its only holder.
LEMMA PassCheckSafe ==
  ASSUME IInv, NEW r \in Requests, PassCheck(r)
  PROVE  Safe'
  <1> USE DEF IInv, Safe, Typed, TypeOK
  <1>1. /\ pc' = [pc EXCEPT ![r] = "written"] /\ pc[r] = "checking"
        /\ UNCHANGED <<db, policy, rights, cache, call, tx, reply>>
        /\ TupleLockFree(r) /\ ~TupleTaken(r)
    BY DEF PassCheck, Goto
  <1>2. call[r].op = "create" /\ tx[r].id \in TagIds
    BY <1>1, TxType DEF TxShape, InTx
  <1>3. IdsOwned'
    BY <1>1 DEF IdsOwned, InTx, db
  <1>4. RowsLocked'
    <2>1. \A s \in Requests \ {r} : pc[s] = "written" => tx[s].id # tx[r].id
      BY <1>1, <1>2 DEF IdsOwned, InTx
    <2>2. QED
      BY <1>1, <1>2, <2>1 DEF RowsLocked, db
  <1>5. TuplesLocked'
    BY <1>1 DEF TuplesLocked, TupleLockFree, TupleTaken, HoldsTupleLock, Live, db
  <1>6. GuardedExclusive' /\ ArchivedExactlyDeleted'
    BY <1>1 DEF GuardedExclusive, ArchivedExactlyDeleted, Live, db
  <1>7. QED
    BY <1>3, <1>4, <1>5, <1>6

LEMMA FetchSafe ==
  ASSUME IInv, NEW r \in Requests, Fetch(r)
  PROVE  Safe'
  <1> USE DEF IInv, Safe, Typed, TypeOK
  <1> DEFINE row == RowOf(call[r].target)
  <1>1. CASE row = NoTag
    <2>1. Answer(r, "forbidden") /\ UNCHANGED <<db, policy, rights, cache>>
      BY <1>1 DEF Fetch
    <2>2. OnlyMoved(r) /\ ~InTx(r)'
      BY <2>1 DEF Answer, Goto, OnlyMoved, InTx
    <2>3. QED
      BY <2>1, <2>2, OutOfTxSafe
  <1>2. CASE row # NoTag
    <2>1. /\ tx' = [tx EXCEPT ![r] = [id |-> call[r].target, seen |-> row, row |-> row,
                                      checked |-> FALSE]]
          /\ pc' = [pc EXCEPT ![r] = "fetched"]
          /\ call[r].op \in {"value", "color", "delete"}
          /\ UNCHANGED <<db, policy, rights, cache, call, reply>>
      BY <1>2 DEF Fetch, Goto
    <2>2. call[r].target \in TagIds /\ owner[call[r].target] # NoOwner
      BY <1>2 DEF RowOf, IdsOwned
    <2>3. tx'[r].id = call[r].target /\ \A s \in Requests \ {r} : tx'[s] = tx[s]
      BY <2>1
    <2>4. IdsOwned'
      BY <2>1, <2>2, <2>3 DEF IdsOwned, InTx, db
    <2>5. RowsLocked'
      BY <2>1, <2>3 DEF RowsLocked, db
    <2>6. TuplesLocked'
      BY <2>1, <2>3 DEF TuplesLocked, HoldsTupleLock, Live, db
    <2>7. GuardedExclusive' /\ ArchivedExactlyDeleted'
      BY <2>1 DEF GuardedExclusive, ArchivedExactlyDeleted, Live, db
    <2>8. QED
      BY <2>4, <2>5, <2>6, <2>7
  <1>3. QED
    BY <1>1, <1>2

\* The row lock makes an updating or deleting transaction the only written one
\* on its id, and an update keeps the tuple of the row it found.
LEMMA WriteSafe ==
  ASSUME IInv, NEW r \in Requests, Update(r) \/ Delete(r)
  PROVE  Safe'
  <1> USE DEF IInv, Safe, Typed, TypeOK
  <1>1. /\ pc' = [pc EXCEPT ![r] = "written"] /\ pc[r] = "fetched"
        /\ UNCHANGED <<db, policy, rights, cache, call, reply>> /\ RowLockFree(r)
    BY DEF Update, Delete, Goto
  <1>2. tx[r] \in Tx /\ call[r] \in Calls /\ tx[r].id \in TagIds /\ ~tx[r].checked
    BY <1>1, TxType DEF TxShape, InTx
  <1>3. /\ \A s \in Requests \ {r} : tx'[s] = tx[s] /\ pc'[s] = pc[s]
        /\ tx'[r].id = tx[r].id /\ ~tx'[r].checked
    <2>1. PICK row : tx' = [tx EXCEPT ![r] = [tx[r] EXCEPT !.row = row]]
      BY DEF Update, Delete
    <2>2. tx'[r] = [tx[r] EXCEPT !.row = row] /\ \A s \in Requests \ {r} : tx'[s] = tx[s]
      BY <2>1
    <2>3. tx'[r].id = tx[r].id /\ tx'[r].checked = tx[r].checked
      BY <1>2, <2>2 DEF Tx
    <2>4. QED
      BY <1>1, <1>2, <2>2, <2>3
  <1>4. call[r].op \in {"value", "color"} =>
          /\ tags[tx[r].id] \in Row
          /\ tx'[r].row = Updated(call[r], tags[tx[r].id])
          /\ Tuple(tx'[r].row) = Tuple(tags[tx[r].id])
    <2>1. SUFFICES ASSUME call[r].op \in {"value", "color"}, Update(r)
                   PROVE  /\ tags[tx[r].id] \in Row
                          /\ tx'[r].row = Updated(call[r], tags[tx[r].id])
                          /\ Tuple(tx'[r].row) = Tuple(tags[tx[r].id])
      BY DEF Delete
    <2>2. tags[tx[r].id] \in Row /\ ~BadInput(call[r])
      BY <1>2, <2>1, NullAssumption DEF Update, Validated
    <2>3. tx'[r].row = Updated(call[r], tags[tx[r].id])
      BY <1>2, <2>1 DEF Update, Tx
    <2>4. QED
      BY <1>2, <2>1, <2>2, <2>3, UpdatedType, NullAssumption
  <1>5. IdsOwned'
    BY <1>1, <1>3 DEF IdsOwned, InTx, db
  <1>6. RowsLocked'
    BY <1>1, <1>3, <1>4 DEF RowsLocked, RowLockFree, db
  <1>7. TuplesLocked'
    BY <1>1, <1>3 DEF TuplesLocked, HoldsTupleLock, Live, db
  <1>8. GuardedExclusive' /\ ArchivedExactlyDeleted'
    BY <1>1 DEF GuardedExclusive, ArchivedExactlyDeleted, Live, db
  <1>9. QED
    BY <1>5, <1>6, <1>7, <1>8

\* The effect of a commit on the tables, seen from the committing transaction.
LEMMA PersistSafe ==
  ASSUME IInv, NEW r \in Requests, pc[r] = "written", Persist(r), OnlyMoved(r), ~InTx(r)'
  PROVE  Safe'
  <1> USE DEF IInv, Safe, Typed, TypeOK
  <1> DEFINE x == tx[r]
             c == call[r]
  <1>1. x \in Tx /\ x.id \in TagIds /\ c \in Calls /\ InTx(r) /\ c.actor \in Actors
    BY TxType, CallFields DEF InTx
  <1>2. /\ tags'[x.id] = x.row /\ \A t \in TagIds \ {x.id} : tags'[t] = tags[t]
        /\ owner'[x.id] = IF c.op = "create" THEN c.actor ELSE owner[x.id]
        /\ \A t \in TagIds \ {x.id} : owner'[t] = owner[t]
        /\ archived' = IF c.op = "delete" THEN archived \cup {x.id} ELSE archived
        /\ guarded' = IF x.checked THEN guarded \cup {x.id} ELSE guarded
    BY <1>1 DEF Persist
  <1>3. \/ c.op = "create" /\ x.row \in Row
        \/ c.op \in {"value", "color"} /\ x.row \in Row /\ ~x.checked
        \/ c.op = "delete" /\ x.row = NoTag /\ ~x.checked
    BY DEF TxShape
  <1>4. /\ c.op = "create" <=> owner[x.id] = NoOwner
        /\ owner'[x.id] # NoOwner
    BY <1>1, <1>2, NullAssumption DEF IdsOwned
  <1>5. \A s \in Requests \ {r} :
          /\ pc'[s] = pc[s] /\ tx'[s] = tx[s] /\ call'[s] = call[s]
          /\ InTx(s)' <=> InTx(s)
          /\ InTx(s) => tx[s].id \in TagIds
          /\ pc[s] = "written" => tx[s].id # x.id
          /\ InTx(s) /\ c.op = "create" /\ call[s].op = "create" => tx[s].id # x.id
          /\ InTx(s) /\ c.op = "create" /\ call[s].op # "create" => tx[s].id # x.id
    BY <1>1, <1>4, TxType DEF OnlyMoved, InTx, IdsOwned, RowsLocked
  <1>6. IdsOwned'
    <2>1. \A t \in TagIds : tags'[t] # NoTag => owner'[t] # NoOwner
      BY <1>2, <1>4 DEF IdsOwned
    <2>2. \A t \in guarded' : owner'[t] # NoOwner
      BY <1>1, <1>2, <1>4 DEF IdsOwned
    <2>3. \A s \in Requests : InTx(s)' => (call'[s].op = "create" <=> owner'[tx'[s].id] = NoOwner)
      BY <1>1, <1>2, <1>4, <1>5 DEF IdsOwned
    <2>4. \A s, u \in Requests :
            /\ s # u /\ InTx(s)' /\ InTx(u)'
            /\ call'[s].op = "create" /\ call'[u].op = "create"
            => tx'[s].id # tx'[u].id
      BY <1>5 DEF IdsOwned
    <2>5. QED
      BY <2>1, <2>2, <2>3, <2>4 DEF IdsOwned
  <1>7. RowsLocked'
    <2>1. \A s, u \in Requests :
            s # u /\ pc'[s] = "written" /\ pc'[u] = "written" => tx'[s].id # tx'[u].id
      BY <1>5 DEF RowsLocked, InTx
    <2>2. ASSUME NEW s \in Requests, pc'[s] = "written", call'[s].op \in {"value", "color"}
          PROVE  /\ tags'[tx'[s].id] \in Row
                 /\ tx'[s].row = Updated(call'[s], tags'[tx'[s].id])
                 /\ Tuple(tx'[s].row) = Tuple(tags'[tx'[s].id])
      <3>1. s # r /\ pc[s] = "written" /\ tx[s].id # x.id /\ tx[s].id \in TagIds
        BY <1>5, <2>2 DEF InTx
      <3>2. tags'[tx'[s].id] = tags[tx[s].id] /\ tx'[s].row = tx[s].row /\ call'[s] = call[s]
        BY <1>2, <1>5, <3>1
      <3>3. QED
        BY <2>2, <3>1, <3>2 DEF RowsLocked
    <2>3. QED
      BY <2>1, <2>2 DEF RowsLocked
  \* Who is live and guarded after the commit, and on which tuple.
  <1>8. ASSUME NEW t \in (guarded \cap Live)'
        PROVE  \/ t \in guarded \cap Live /\ Tuple(tags'[t]) = Tuple(tags[t])
               \/ t = x.id /\ x.checked /\ tags'[t] = x.row
    <2>1. CASE t # x.id
      BY <1>2, <2>1 DEF Live
    <2>2. CASE t = x.id /\ x.checked
      BY <1>2, <2>2
    <2>3. CASE t = x.id /\ ~x.checked
      <3>1. t \in guarded /\ owner[t] # NoOwner /\ x.row # NoTag
        BY <1>2, <2>3 DEF IdsOwned, Live
      <3>2. c.op \in {"value", "color"}
        BY <1>3, <1>4, <2>3, <3>1, NullAssumption
      <3>3. QED
        BY <1>1, <1>2, <2>3, <3>1, <3>2, NullAssumption DEF RowsLocked, Live
    <2>4. QED
      BY <2>1, <2>2, <2>3
  <1>9. TuplesLocked'
    <2> SUFFICES ASSUME NEW s \in Requests, pc'[s] = "written", tx'[s].checked
                 PROVE  /\ \A t \in (guarded \cap Live)' : Tuple(tags'[t]) # Tuple(tx'[s].row)
                        /\ \A u \in Requests \ {s} : ~HoldsTupleLock(u, tx[s].row)'
      BY DEF TuplesLocked
    <2>1. s # r /\ pc[s] = "written" /\ tx'[s] = tx[s] /\ tx[s].checked
      BY <1>5 DEF InTx
    <2>2. x.checked => Tuple(x.row) # Tuple(tx[s].row)
      BY <2>1 DEF TuplesLocked, HoldsTupleLock
    <2>3. \A t \in (guarded \cap Live)' : Tuple(tags'[t]) # Tuple(tx'[s].row)
      BY <1>8, <2>1, <2>2 DEF TuplesLocked
    <2>4. \A u \in Requests \ {s} : ~HoldsTupleLock(u, tx[s].row)'
      BY <1>5, <2>1 DEF TuplesLocked, HoldsTupleLock, InTx
    <2>5. QED
      BY <2>3, <2>4
  <1>10. GuardedExclusive'
    <2> SUFFICES ASSUME NEW t \in (guarded \cap Live)', NEW u \in (guarded \cap Live)', t # u
                 PROVE  Tuple(tags'[t]) # Tuple(tags'[u])
      BY DEF GuardedExclusive
    <2>1. x.checked => \A v \in guarded \cap Live : Tuple(tags[v]) # Tuple(x.row)
      BY DEF TuplesLocked
    <2>2. QED
      BY <1>8, <2>1 DEF GuardedExclusive
  <1>11. ArchivedExactlyDeleted'
    <2>1. \A t \in TagIds : t \in archived' <=> owner'[t] # NoOwner /\ tags'[t] = NoTag
      <3>1. \A t \in TagIds \ {x.id} : t \in archived' <=> owner'[t] # NoOwner /\ tags'[t] = NoTag
        BY <1>2 DEF ArchivedExactlyDeleted
      <3>2. x.id \in archived' <=> owner'[x.id] # NoOwner /\ tags'[x.id] = NoTag
        <4>1. CASE c.op = "create"
          BY <1>2, <1>3, <1>4, <4>1, NullAssumption DEF ArchivedExactlyDeleted
        <4>2. CASE c.op \in {"value", "color"}
          BY <1>2, <1>3, <4>2, NullAssumption DEF ArchivedExactlyDeleted, RowsLocked
        <4>3. CASE c.op = "delete"
          BY <1>2, <1>3, <1>4, <4>3
        <4>4. QED
          BY <1>3, <4>1, <4>2, <4>3
      <3>3. QED
        BY <3>1, <3>2
    <2>2. archived' \subseteq TagIds
      BY <1>1, <1>2 DEF ArchivedExactlyDeleted
    <2>3. QED
      BY <2>1, <2>2 DEF ArchivedExactlyDeleted
  <1>12. QED
    BY <1>6, <1>7, <1>9, <1>10, <1>11

LEMMA NextSafe == IInv /\ [Next]_vars => Safe'
  <1> SUFFICES ASSUME IInv, [Next]_vars PROVE Safe'
    OBVIOUS
  <1>1. ASSUME NEW r \in Requests, Arrive(r) PROVE Safe'
    <2>1. UNCHANGED db /\ OnlyMoved(r) /\ ~InTx(r)'
      BY <1>1 DEF Arrive, Reject, Admit, Answer, Goto, OnlyMoved, InTx, IInv, Typed, TypeOK
    <2>2. QED
      BY <2>1, OutOfTxSafe
  <1>2. ASSUME NEW r \in Requests,
               \/ Read(r) \/ Conflict(r) \/ UpdateGone(r) \/ Notify(r) \/ FailTx(r) \/ Crash(r)
        PROVE  Safe'
    <2>1. UNCHANGED db /\ OnlyMoved(r) /\ ~InTx(r)'
      BY <1>2 DEF Read, Conflict, UpdateGone, Notify, FailTx, Crash, Answer, Goto, OnlyMoved,
                  InTx, IInv, Typed, TypeOK
    <2>2. QED
      BY <2>1, OutOfTxSafe
  <1>3. ASSUME NEW r \in Requests, Commit(r) \/ LoseCommitReply(r) PROVE Safe'
    <2>1. pc[r] = "written" /\ Persist(r) /\ OnlyMoved(r) /\ ~InTx(r)'
      BY <1>3 DEF Commit, LoseCommitReply, Answer, Goto, OnlyMoved, InTx, IInv, Typed, TypeOK
    <2>2. QED
      BY <2>1, PersistSafe
  <1>4. ASSUME NEW p \in MutablePolicies, SetPolicy(p) PROVE Safe'
    BY <1>4 DEF SetPolicy, db, IInv, Safe, IdsOwned, RowsLocked, TuplesLocked, HoldsTupleLock,
                GuardedExclusive, ArchivedExactlyDeleted, Live, InTx
  <1>5. CASE UNCHANGED <<db, pc, call, tx>>
    BY <1>5 DEF db, IInv, Safe, IdsOwned, RowsLocked, TuplesLocked, HoldsTupleLock,
                GuardedExclusive, ArchivedExactlyDeleted, Live, InTx
  <1>6. QED
    BY <1>1, <1>2, <1>3, <1>4, <1>5, BeginCreateSafe, PassCheckSafe, FetchSafe, WriteSafe
       DEF Next, Rest, Step, Fail, ChangeGrant, vars, db

\* The strengthening of the safety properties holds of every reachable state:
\* each written transaction holds the locks its statements took.
THEOREM Invariance == Spec => []IInv
  <1>1. Init => IInv
    BY InitTyped, InitSafe DEF IInv
  <1>2. IInv /\ [Next]_vars => IInv'
    BY NextTyped, NextSafe DEF IInv
  <1>3. QED
    BY <1>1, <1>2, PTL DEF Spec

\* However inserts, deletions and policy changes interleave, two tags admitted
\* under the one-of-domain check are never live together on one tuple.
THEOREM OneOfDomainHolds == Spec => []GuardedExclusive
  <1>1. IInv => GuardedExclusive
    BY DEF IInv, Safe
  <1>2. QED
    BY <1>1, Invariance, PTL

\* A tag's row and its entity are always deleted and archived together, and
\* nothing else is ever archived.
THEOREM DeletionIsWhole == Spec => []ArchivedExactlyDeleted
  <1>1. IInv => ArchivedExactlyDeleted
    BY DEF IInv, Safe
  <1>2. QED
    BY <1>1, Invariance, PTL

-------------------------------------------------------------------------------
(* A policy that stays on *)

Stable(p) == p \notin MutablePolicies /\ policy[p]

\* Under a stable policy an insert waits for its commit alone on its tuple,
\* among all the tags and not only those that were checked.
AloneOnTuple(r) ==
  Stable(tx[r].row.purpose) =>
    /\ tx[r].checked
    /\ \A t \in Live : Tuple(tags[t]) # Tuple(tx[r].row)

PolicyKept ==
  /\ \A r \in Requests : pc[r] = "written" /\ call[r].op = "create" => AloneOnTuple(r)
  /\ StablePolicyHolds

\* Only the policies that may change do.
LEMMA StablePolicies ==
  ASSUME Typed, [Next]_vars
  PROVE  \A p \in Purposes : Stable(p)' <=> Stable(p)
  <1>1. ASSUME NEW p \in MutablePolicies, SetPolicy(p)
        PROVE  \A q \in Purposes : Stable(q)' <=> Stable(q)
    <2>1. PICK b \in BOOLEAN : policy' = [policy EXCEPT ![p] = b]
      BY <1>1 DEF SetPolicy
    <2>2. QED
      BY <1>1, <2>1 DEF Stable, Typed, TypeOK
  <1>2. CASE UNCHANGED policy
    BY <1>2 DEF Stable
  <1>3. ASSUME NEW r \in Requests, Arrive(r) \/ Step(r) \/ Fail(r)
        PROVE  UNCHANGED policy
    BY <1>3 DEF Arrive, Reject, Admit, Step, Read, BeginCreate, PassCheck, Conflict, Fetch, Update,
                UpdateGone, Delete, Commit, Notify, Fail, LoseCommitReply, FailTx, Crash
  <1>4. QED
    BY <1>1, <1>2, <1>3 DEF Next, ChangeGrant, Rest, vars

\* A step that leaves the tags alone and makes no unfit insert.
LEMMA TagsAlonePolicyKept ==
  ASSUME Typed, PolicyKept, [Next]_vars, UNCHANGED tags, NEW r \in Requests, OnlyMoved(r),
         pc'[r] = "written" /\ call'[r].op = "create" => AloneOnTuple(r)'
  PROVE  PolicyKept'
  <1>1. \A p \in Purposes : Stable(p)' <=> Stable(p)
    BY StablePolicies
  <1>2. \A t \in Live : tags[t].purpose \in Purposes
    BY DEF Live, Typed, TypeOK, Row
  <1>3. StablePolicyHolds'
    BY <1>1, <1>2 DEF PolicyKept, StablePolicyHolds, Stable, Live
  <1>4. ASSUME NEW s \in Requests \ {r}, pc'[s] = "written", call'[s].op = "create"
        PROVE  AloneOnTuple(s)'
    <2>1. pc[s] = "written" /\ call[s].op = "create" /\ tx'[s] = tx[s]
      BY <1>4 DEF OnlyMoved
    <2>2. tx[s].row \in Row /\ tx[s].row.purpose \in Purposes
      BY <2>1 DEF Typed, TxShape, Row
    <2>3. QED
      BY <1>1, <2>1, <2>2 DEF PolicyKept, AloneOnTuple, Live
  <1>5. QED
    BY <1>3, <1>4 DEF PolicyKept

LEMMA PersistPolicyKept ==
  ASSUME IInv, PolicyKept, [Next]_vars, NEW r \in Requests, pc[r] = "written", Persist(r),
         OnlyMoved(r), ~InTx(r)'
  PROVE  PolicyKept'
  <1> USE DEF IInv, Safe, Typed, TypeOK
  <1> DEFINE x == tx[r]
             c == call[r]
  <1>1. x \in Tx /\ x.id \in TagIds /\ InTx(r)
    BY TxType DEF InTx
  <1>2. tags'[x.id] = x.row /\ \A t \in TagIds \ {x.id} : tags'[t] = tags[t]
    BY <1>1 DEF Persist
  <1>3. \A p \in Purposes : Stable(p)' <=> Stable(p)
    BY StablePolicies
  <1>4. \A t \in Live' : tags'[t] \in Row /\ tags'[t].purpose \in Purposes
    BY <1>1, <1>2 DEF Live, Row, Tx
  \* Where a live row comes from: an insert, or a row of the same tuple.
  <1>5. ASSUME NEW t \in Live'
        PROVE  \/ t \in Live /\ Tuple(tags'[t]) = Tuple(tags[t])
               \/ t = x.id /\ tags'[t] = x.row /\ c.op = "create"
    <2>1. CASE t # x.id
      BY <1>2, <2>1 DEF Live
    <2>2. CASE t = x.id
      BY <1>1, <1>2, <2>2, NullAssumption DEF Live, TxShape, RowsLocked
    <2>3. QED
      BY <2>1, <2>2
  <1>6. StablePolicyHolds'
    <2> SUFFICES ASSUME NEW t \in Live', NEW u \in Live', t # u, t \notin SeedTags,
                        Tuple(tags'[t]) = Tuple(tags'[u]), Stable(tags[t].purpose)'
                 PROVE  FALSE
      BY DEF StablePolicyHolds, Stable
    <2>1. Stable(tags'[t].purpose) /\ tags'[t].purpose = tags'[u].purpose
      BY <1>3, <1>4 DEF Tuple
    <2>2. CASE t \in Live /\ u \in Live /\ Tuple(tags'[t]) = Tuple(tags[t])
                                  /\ Tuple(tags'[u]) = Tuple(tags[u])
      BY <2>1, <2>2 DEF PolicyKept, StablePolicyHolds, Stable, Tuple
    <2>3. CASE /\ c.op = "create"
               /\ \/ t = x.id /\ tags'[t] = x.row /\ u \in Live /\ Tuple(tags'[u]) = Tuple(tags[u])
                  \/ u = x.id /\ tags'[u] = x.row /\ t \in Live /\ Tuple(tags'[t]) = Tuple(tags[t])
      <3>1. Stable(x.row.purpose)
        BY <2>1, <2>3
      <3>2. \A v \in Live : Tuple(tags[v]) # Tuple(x.row)
        BY <2>3, <3>1 DEF PolicyKept, AloneOnTuple
      <3>3. QED
        BY <2>3, <3>2
    <2>4. QED
      BY <1>5, <2>2, <2>3
  <1>7. ASSUME NEW s \in Requests, pc'[s] = "written", call'[s].op = "create"
        PROVE  AloneOnTuple(s)'
    <2>1. s # r /\ pc[s] = "written" /\ call[s].op = "create" /\ tx'[s] = tx[s]
      BY <1>7 DEF OnlyMoved, InTx
    <2>2. tx[s].row \in Row /\ tx[s].row.purpose \in Purposes
      BY <2>1 DEF TxShape, Row
    <2> SUFFICES ASSUME Stable(tx[s].row.purpose)
                 PROVE  tx[s].checked /\ \A t \in Live' : Tuple(tags'[t]) # Tuple(tx[s].row)
      BY <1>3, <2>1, <2>2 DEF AloneOnTuple
    <2>3. tx[s].checked /\ \A t \in Live : Tuple(tags[t]) # Tuple(tx[s].row)
      BY <2>1 DEF PolicyKept, AloneOnTuple
    <2>4. c.op = "create" => Tuple(x.row) # Tuple(tx[s].row)
      <3>1. SUFFICES ASSUME c.op = "create", Tuple(x.row) = Tuple(tx[s].row) PROVE FALSE
        OBVIOUS
      <3>2. x.checked
        BY <3>1 DEF PolicyKept, AloneOnTuple, Tuple
      <3>3. QED
        BY <2>1, <2>3, <3>1, <3>2 DEF TuplesLocked, HoldsTupleLock
    <2>5. QED
      BY <1>5, <2>3, <2>4
  <1>8. QED
    BY <1>6, <1>7 DEF PolicyKept

LEMMA NextPolicyKept == IInv /\ PolicyKept /\ [Next]_vars => PolicyKept'
  <1> SUFFICES ASSUME IInv, PolicyKept, [Next]_vars PROVE PolicyKept'
    OBVIOUS
  <1> USE DEF IInv, Typed, TypeOK
  <1>1. ASSUME NEW r \in Requests,
               \/ Arrive(r) \/ Read(r) \/ Conflict(r) \/ Fetch(r) \/ UpdateGone(r)
               \/ Notify(r) \/ FailTx(r) \/ Crash(r)
        PROVE  PolicyKept'
    <2>1. UNCHANGED tags /\ OnlyMoved(r) /\ pc'[r] # "written"
      BY <1>1 DEF Arrive, Reject, Admit, Read, Conflict, Fetch, UpdateGone, Notify, FailTx, Crash,
                  Answer, Goto, OnlyMoved, db
    <2>2. QED
      BY <2>1, TagsAlonePolicyKept
  <1>2. ASSUME NEW r \in Requests, Update(r) \/ Delete(r) PROVE PolicyKept'
    <2>1. UNCHANGED tags /\ OnlyMoved(r) /\ call'[r].op # "create"
      BY <1>2 DEF Update, Delete, Goto, OnlyMoved, db
    <2>2. QED
      BY <2>1, TagsAlonePolicyKept
  <1>3. ASSUME NEW r \in Requests, BeginCreate(r) PROVE PolicyKept'
    <2>1. UNCHANGED <<tags, policy>> /\ OnlyMoved(r)
      BY <1>3 DEF BeginCreate, Goto, OnlyMoved, db
    <2>2. pc'[r] = "written" => ~policy[tx'[r].row.purpose]
      BY <1>3 DEF BeginCreate, Goto, NewRow
    <2>3. QED
      BY <2>1, <2>2, TagsAlonePolicyKept DEF AloneOnTuple, Stable
  <1>4. ASSUME NEW r \in Requests, PassCheck(r) PROVE PolicyKept'
    <2>1. UNCHANGED <<tags, tx>> /\ OnlyMoved(r) /\ tx[r].checked /\ ~TupleTaken(r)
      BY <1>4 DEF PassCheck, Goto, OnlyMoved, db, TxShape
    <2>2. AloneOnTuple(r)'
      BY <2>1 DEF AloneOnTuple, TupleTaken, Live
    <2>3. QED
      BY <2>1, <2>2, TagsAlonePolicyKept
  <1>5. ASSUME NEW r \in Requests, Commit(r) \/ LoseCommitReply(r) PROVE PolicyKept'
    <2>1. pc[r] = "written" /\ Persist(r) /\ OnlyMoved(r) /\ ~InTx(r)'
      BY <1>5 DEF Commit, LoseCommitReply, Answer, Goto, OnlyMoved, InTx
    <2>2. QED
      BY <2>1, PersistPolicyKept
  <1>6. CASE UNCHANGED <<tags, pc, call, tx>>
    <2>1. CASE Requests = {}
      <3>1. \A p \in Purposes : Stable(p)' <=> Stable(p)
        BY StablePolicies
      <3>2. \A t \in Live : tags[t].purpose \in Purposes
        BY DEF Live, Row
      <3>3. QED
        BY <1>6, <2>1, <3>1, <3>2 DEF PolicyKept, StablePolicyHolds, Stable, Live
    <2>2. ASSUME NEW r \in Requests PROVE PolicyKept'
      <3>1. OnlyMoved(r)
        BY <1>6 DEF OnlyMoved
      <3>2. pc[r] = "written" /\ call[r].op = "create" => AloneOnTuple(r)'
        <4>1. SUFFICES ASSUME pc[r] = "written", call[r].op = "create" PROVE AloneOnTuple(r)'
          OBVIOUS
        <4>2. tx[r].row.purpose \in Purposes /\ AloneOnTuple(r)
          BY <4>1 DEF TxShape, Row, PolicyKept
        <4>3. QED
          BY <1>6, <4>2, StablePolicies DEF AloneOnTuple, Live
      <3>3. QED
        BY <1>6, <3>1, <3>2, TagsAlonePolicyKept
    <2>3. QED
      BY <2>1, <2>2
  <1>7. QED
    BY <1>1, <1>2, <1>3, <1>4, <1>5, <1>6 DEF Next, Rest, Step, Fail, SetPolicy, ChangeGrant, vars, db

\* While the policy of a purpose stays on, whatever is created under it is the
\* only tag of its owner, subject and purpose.
THEOREM StablePolicy == Spec => []StablePolicyHolds
  <1>1. Init => PolicyKept
    BY SubsetAssumption DEF Init, PolicyKept, StablePolicyHolds, Live
  <1>2. Spec => []PolicyKept
    BY <1>1, Invariance, NextPolicyKept, PTL DEF Spec
  <1>3. PolicyKept => StablePolicyHolds
    BY DEF PolicyKept
  <1>4. QED
    BY <1>2, <1>3, PTL
===============================================================================
