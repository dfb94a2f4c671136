--------------------------- MODULE TagAuthorityProofs ---------------------------
(***************************************************************************)
(* Who may change a tag, for every value of the constants of TagService:   *)
(* grants come and go while requests are served, and a change is made only *)
(* by the owner or under a grant that stood when its call was admitted.    *)
(***************************************************************************)
EXTENDS TagServiceProofs

\* A grant allows an operation of an actor on a tag.
Covers(g, a, op, t) ==
  g.actor = a /\ g.operation = Permission(op) /\ g.target \in {t, Everything}

\* A call is one of the owner, or of an actor who held a grant for it at admission.
Entitled(r, c) ==
  \/ c.target = c.actor
  \/ c.target \in TagIds /\ owner[c.target] = c.actor
  \/ \E g \in held[r] : Covers(g, c.actor, c.op, c.target)

\* A call that changes a tag goes on naming the tag it was admitted for, and
\* with it the right it was admitted under.
CallsEntitled ==
  \A r \in Requests : call[r] # Nil /\ call[r].op # "create" =>
    /\ Entitled(r, call[r])
    /\ InTx(r) => tx[r].id = call[r].target

\* Only requests that were admitted are in the trail.
EntriesAdmitted ==
  \A t \in TagIds : \A i \in DOMAIN audit[t] : pc[audit[t][i].request] # "idle"

AuthorityInv == CallsEntitled /\ EntriesAdmitted /\ OnlyEntitledChange

-------------------------------------------------------------------------------
(* What no step takes away *)

\* A commit is the only step that writes an owner or an entry.
LEMMA OnlyCommitsWrite ==
  ASSUME [Next]_vars
  PROVE  \/ UNCHANGED <<owner, audit>>
         \/ \E r \in Requests : pc[r] = "written" /\ Persist(r)
  <1>1. ASSUME NEW r \in Requests,
               \/ Arrive(r) \/ Read(r) \/ BeginCreate(r) \/ PassCheck(r) \/ Conflict(r)
               \/ Fetch(r) \/ Update(r) \/ UpdateGone(r) \/ Delete(r) \/ Notify(r)
               \/ FailTx(r) \/ Crash(r)
        PROVE  UNCHANGED <<owner, audit>>
    BY <1>1 DEF Arrive, Reject, Admit, Read, BeginCreate, PassCheck, Conflict, Fetch, Update,
                UpdateGone, Delete, Notify, FailTx, Crash, db
  <1>2. QED
    BY <1>1 DEF Next, Rest, Step, Fail, Commit, LoseCommitReply, SetPolicy, ChangeGrant, vars, db

\* The owner of an entity is set once.
LEMMA OwnersLast ==
  ASSUME IInv, [Next]_vars
  PROVE  \A t \in TagIds : owner[t] # NoOwner => owner'[t] = owner[t]
  <1> USE DEF IInv, Safe, Typed, TypeOK
  <1>1. ASSUME NEW r \in Requests, pc[r] = "written", Persist(r)
        PROVE  \A t \in TagIds : owner[t] # NoOwner => owner'[t] = owner[t]
    <2>1. InTx(r) /\ tx[r].id \in TagIds
      BY <1>1, TxType DEF InTx
    <2>2. call[r].op = "create" => owner[tx[r].id] = NoOwner
      BY <2>1 DEF IdsOwned
    <2>3. QED
      BY <1>1, <2>1, <2>2 DEF Persist
  <1>2. QED
    BY <1>1, OnlyCommitsWrite

\* What a request was admitted under is recorded once, and it is admitted once.
LEMMA HeldLasts ==
  ASSUME IInv, [Next]_vars, NEW r \in Requests, pc[r] # "idle"
  PROVE  held'[r] = held[r] /\ pc'[r] # "idle"
  <1> USE DEF IInv, Typed, TypeOK
  <1>1. ASSUME NEW s \in Requests, NEW c \in Calls, Reject(s, c)
        PROVE  held'[r] = held[r] /\ pc'[r] # "idle"
    BY <1>1 DEF Reject, Answer, Goto, rights
  <1>2. ASSUME NEW s \in Requests, NEW c \in Calls, Admit(s, c)
        PROVE  held'[r] = held[r] /\ pc'[r] # "idle"
    BY <1>2 DEF Admit, Goto
  <1>3. ASSUME NEW s \in Requests, Step(s) \/ Fail(s)
        PROVE  held'[r] = held[r] /\ pc'[r] # "idle"
    <2>1. held' = held
      BY <1>3 DEF Step, Read, BeginCreate, PassCheck, Conflict, Fetch, Update, UpdateGone, Delete,
                  Commit, Notify, Fail, LoseCommitReply, FailTx, Crash, rights
    <2>2. \E label \in Labels \ {"idle"} : pc' = [pc EXCEPT ![s] = label]
      BY <1>3 DEF Step, Read, BeginCreate, PassCheck, Conflict, Fetch, Update, UpdateGone, Delete,
                  Commit, Notify, Fail, LoseCommitReply, FailTx, Crash, Answer, Goto, Labels
    <2>3. QED
      BY <2>1, <2>2
  <1>4. CASE UNCHANGED <<held, pc>>
    BY <1>4
  <1>5. QED
    BY <1>1, <1>2, <1>3, <1>4 DEF Next, Arrive, SetPolicy, ChangeGrant, Rest, vars, rights

-------------------------------------------------------------------------------
(* Calls under way *)

\* A right that stood at admission stands in the record, whatever is revoked.
LEMMA EntitlementLasts ==
  ASSUME IInv, [Next]_vars, NEW r \in Requests, pc[r] # "idle",
         NEW c \in Calls, c.op # "create", Entitled(r, c)
  PROVE  Entitled(r, c)'
  <1>1. held'[r] = held[r]
    BY HeldLasts
  <1>2. ASSUME c.target \in TagIds, owner[c.target] = c.actor
        PROVE  owner'[c.target] = c.actor
    <2>1. owner[c.target] # NoOwner
      BY <1>2, CallFields, NullAssumption
    <2>2. QED
      BY <1>2, <2>1, OwnersLast
  <1>3. QED
    BY <1>1, <1>2 DEF Entitled

\* The arguments of a request are set at its admission, which checks them.
LEMMA CallsKept ==
  ASSUME IInv, [Next]_vars, NEW r \in Requests, call'[r] # Nil
  PROVE  \/ call'[r] = call[r]
         \/ \E c \in Calls : Admit(r, c) /\ call'[r] = c
  <1> USE DEF IInv, Typed, TypeOK
  <1>1. ASSUME NEW s \in Requests, NEW c \in Calls, Reject(s, c) \/ Admit(s, c)
        PROVE  call'[r] = call[r] \/ (Admit(r, c) /\ call'[r] = c)
    BY <1>1 DEF Reject, Admit, Answer
  <1>2. ASSUME NEW s \in Requests, Step(s) \/ Fail(s) PROVE call'[r] = call[r]
    <2>1. call' = call \/ call' = [call EXCEPT ![s] = Nil]
      BY <1>2 DEF Step, Read, BeginCreate, PassCheck, Conflict, Fetch, Update, UpdateGone, Delete,
                  Commit, Notify, Fail, LoseCommitReply, FailTx, Crash, Answer
    <2>2. QED
      BY <2>1
  <1>3. CASE UNCHANGED call
    BY <1>3
  <1>4. QED
    BY <1>1, <1>2, <1>3 DEF Next, Arrive, SetPolicy, ChangeGrant, Rest, vars

\* A transaction works on the tag its call named: the fetch takes the id from
\* there, and no later statement changes it.
LEMMA TargetKept ==
  ASSUME IInv, CallsEntitled, [Next]_vars, NEW r \in Requests,
         call'[r] # Nil, call'[r].op # "create", InTx(r)'
  PROVE  tx'[r].id = call'[r].target
  <1> USE DEF IInv, Typed, TypeOK
  <1>1. ASSUME NEW s \in Requests \ {r}, Arrive(s) \/ Step(s) \/ Fail(s)
        PROVE  pc'[r] = pc[r] /\ call'[r] = call[r] /\ tx'[r] = tx[r]
    <2>1. CASE Arrive(s)
      BY <1>1, <2>1 DEF Arrive, Reject, Admit, Answer, Goto
    <2>2. CASE Step(s)
      <3>1. CASE Read(s) \/ BeginCreate(s) \/ PassCheck(s) \/ Conflict(s) \/ Fetch(s)
        BY <1>1, <3>1 DEF Read, BeginCreate, PassCheck, Conflict, Fetch, Answer, Goto
      <3>2. CASE Update(s) \/ UpdateGone(s) \/ Delete(s) \/ Commit(s) \/ Notify(s)
        BY <1>1, <3>2 DEF Update, UpdateGone, Delete, Commit, Notify, Answer, Goto
      <3>3. QED
        BY <2>2, <3>1, <3>2 DEF Step
    <2>3. CASE Fail(s)
      BY <1>1, <2>3 DEF Fail, LoseCommitReply, FailTx, Crash, Answer, Goto
    <2>4. QED
      BY <1>1, <2>1, <2>2, <2>3
  <1>2. CASE Fetch(r)
    <2>1. tx' = [tx EXCEPT ![r] = [id |-> call[r].target, seen |-> RowOf(call[r].target),
                                   row |-> RowOf(call[r].target), checked |-> FALSE]]
          /\ call' = call
      BY <1>2 DEF Fetch, Answer
    <2>2. QED
      BY <2>1
  <1>3. CASE Update(r) \/ Delete(r)
    <2>1. tx[r] \in Tx /\ InTx(r) /\ call' = call
      BY <1>3, TxType DEF Update, Delete, InTx
    <2>2. PICK row : tx' = [tx EXCEPT ![r] = [tx[r] EXCEPT !.row = row]]
      BY <1>3 DEF Update, Delete
    <2>3. tx'[r].id = tx[r].id
      BY <2>1, <2>2 DEF Tx
    <2>4. QED
      BY <2>1, <2>3 DEF CallsEntitled
  <1>4. CASE BeginCreate(r) \/ PassCheck(r)
    BY <1>4 DEF BeginCreate, PassCheck, TxShape
  <1>5. ASSUME \/ Arrive(r) \/ Read(r) \/ Conflict(r) \/ UpdateGone(r) \/ Commit(r) \/ Notify(r)
               \/ Fail(r)
        PROVE  FALSE
    BY <1>5 DEF Arrive, Reject, Admit, Read, Conflict, UpdateGone, Commit, Notify, Fail,
                LoseCommitReply, FailTx, Crash, Answer, Goto, InTx
  <1>6. ASSUME pc'[r] = pc[r], call'[r] = call[r], tx'[r] = tx[r]
        PROVE  tx'[r].id = call'[r].target
    BY <1>6 DEF CallsEntitled, InTx
  <1>7. QED
    BY <1>1, <1>2, <1>3, <1>4, <1>5, <1>6 DEF Next, Step, SetPolicy, ChangeGrant, Rest, vars

LEMMA NextEntitled == IInv /\ CallsEntitled /\ [Next]_vars => CallsEntitled'
  <1> SUFFICES ASSUME IInv, CallsEntitled, [Next]_vars,
                      NEW r \in Requests, call'[r] # Nil, call'[r].op # "create"
               PROVE  Entitled(r, call[r])' /\ (InTx(r)' => tx'[r].id = call'[r].target)
    BY DEF CallsEntitled
  <1>1. CASE call'[r] = call[r]
    <2>1. call[r] \in Calls /\ pc[r] # "idle"
      BY <1>1 DEF IInv, Typed, TypeOK
    <2>2. Entitled(r, call[r])
      BY <1>1 DEF CallsEntitled
    <2>3. \A c \in Calls : c.op # "create" /\ Entitled(r, c) => Entitled(r, c)'
      BY <2>1, EntitlementLasts
    <2>4. Entitled(r, call[r])'
      BY <1>1, <2>1, <2>2, <2>3 DEF Entitled
    <2>5. QED
      BY <2>4, TargetKept
  <1>2. ASSUME NEW c \in Calls, Admit(r, c), call'[r] = c
        PROVE  Entitled(r, call[r])'
    <2>1. Authorized(c) /\ held'[r] = Allowing(c) /\ owner' = owner
      BY <1>2 DEF Admit, Forbidden, db, IInv, Typed, TypeOK
    <2>2. Allowing(c) # {} => \E g \in held'[r] : Covers(g, c.actor, c.op, c.target)
      BY <2>1 DEF Allowing, Covers
    <2>3. QED
      BY <1>2, <2>1, <2>2 DEF Authorized, Entitled
  <1>3. QED
    BY <1>1, <1>2, CallsKept, TargetKept

-------------------------------------------------------------------------------
(* The trail *)

\* The entry a commit adds is by an actor who was entitled to the change.
LEMMA PersistEntitled ==
  ASSUME IInv, AuthorityInv, [Next]_vars, NEW r \in Requests, pc[r] = "written", Persist(r)
  PROVE  EntriesAdmitted' /\ OnlyEntitledChange'
  <1> USE DEF IInv, Safe, Typed, TypeOK
  <1> DEFINE x == tx[r]
             c == call[r]
             e == [op |-> c.op, request |-> r, by |-> c.actor,
                   before |-> Before(c, x), after |-> After(c, x)]
             Fine(f, t) == /\ pc'[f.request] # "idle"
                           /\ \/ f.by = owner'[t]
                              \/ \E g \in held'[f.request] : Covers(g, f.by, f.op, t)
  <1>1. x \in Tx /\ x.id \in TagIds /\ c \in Calls /\ InTx(r) /\ c.actor \in Actors /\ c # Nil
    BY TxType, CallFields DEF InTx
  <1>2. /\ audit'[x.id] = Append(audit[x.id], e)
        /\ \A t \in TagIds \ {x.id} : audit'[t] = audit[t]
        /\ owner'[x.id] = IF c.op = "create" THEN c.actor ELSE owner[x.id]
    BY <1>1 DEF Persist
  <1>3. Fine(e, x.id)
    <2>1. pc'[r] # "idle" /\ held'[r] = held[r]
      BY HeldLasts
    <2>2. CASE c.op = "create"
      BY <1>2, <2>1, <2>2
    <2>3. CASE c.op # "create"
      <3>1. Entitled(r, c) /\ c.target = x.id
        BY <1>1, <2>3 DEF AuthorityInv, CallsEntitled
      <3>2. c.actor # x.id
        BY <1>1, EntityAssumption
      <3>3. c.actor = owner'[x.id] \/ \E g \in held[r] : Covers(g, c.actor, c.op, x.id)
        BY <1>2, <2>3, <3>1, <3>2 DEF Entitled
      <3>4. QED
        BY <2>1, <3>3
    <2>4. QED
      BY <2>2, <2>3
  <1>4. ASSUME NEW t \in TagIds, NEW i \in DOMAIN audit[t] PROVE Fine(audit[t][i], t)
    <2>1. audit[t][i] \in Entry
      <3>1. audit[t] \in Seq(Entry)
        OBVIOUS
      <3>2. QED
        BY <3>1
    <2>2. audit[t][i].request \in Requests /\ audit[t][i].by \in Actors
      BY <2>1 DEF Entry
    <2>3. pc[audit[t][i].request] # "idle"
      BY DEF AuthorityInv, EntriesAdmitted
    <2>4. /\ pc'[audit[t][i].request] # "idle"
          /\ held'[audit[t][i].request] = held[audit[t][i].request]
      BY <2>2, <2>3, HeldLasts
    <2>5. \/ audit[t][i].by = owner[t]
          \/ \E g \in held[audit[t][i].request] : Covers(g, audit[t][i].by, audit[t][i].op, t)
      BY DEF AuthorityInv, OnlyEntitledChange, Covers
    <2>6. audit[t][i].by = owner[t] => owner'[t] = owner[t]
      BY <2>2, OwnersLast, NullAssumption
    <2>7. QED
      BY <2>4, <2>5, <2>6
  <1> HIDE DEF e
  <1>5. ASSUME NEW t \in TagIds, NEW i \in DOMAIN audit'[t] PROVE Fine(audit'[t][i], t)
    <2>1. CASE t # x.id
      <3>1. audit'[t] = audit[t]
        BY <1>2, <2>1
      <3>2. Fine(audit[t][i], t)
        BY <1>4, <3>1
      <3>3. QED
        BY <3>1, <3>2
    <2>2. CASE t = x.id
      <3>1. audit[t] \in Seq(Entry)
        OBVIOUS
      <3>2. i \in 1..(Len(audit[t]) + 1)
        BY <1>2, <2>2, <3>1
      <3>3. CASE i = Len(audit[t]) + 1
        <4>1. audit'[t][i] = e
          BY <1>2, <2>2, <3>1, <3>3
        <4>2. QED
          BY <1>3, <2>2, <4>1
      <3>4. CASE i # Len(audit[t]) + 1
        <4>1. i \in DOMAIN audit[t] /\ audit'[t][i] = audit[t][i]
          BY <1>2, <2>2, <3>1, <3>2, <3>4
        <4>2. QED
          BY <1>4, <4>1
      <3>5. QED
        BY <3>3, <3>4
    <2>3. QED
      BY <2>1, <2>2
  <1>6. EntriesAdmitted'
    BY <1>5 DEF EntriesAdmitted
  <1>7. OnlyEntitledChange'
    BY <1>5 DEF OnlyEntitledChange, Covers
  <1>8. QED
    BY <1>6, <1>7

\* A step that writes no entry leaves the record of every entry as it was.
LEMMA TrailEntitled ==
  ASSUME IInv, AuthorityInv, [Next]_vars, UNCHANGED <<owner, audit>>
  PROVE  EntriesAdmitted' /\ OnlyEntitledChange'
  <1>1. ASSUME NEW t \in TagIds, NEW i \in DOMAIN audit[t]
        PROVE  /\ audit[t][i].request \in Requests
               /\ pc'[audit[t][i].request] # "idle"
               /\ held'[audit[t][i].request] = held[audit[t][i].request]
    <2>1. audit[t] \in Seq(Entry)
      BY DEF IInv, Typed, TypeOK
    <2>2. audit[t][i] \in Entry
      BY <2>1
    <2>3. audit[t][i].request \in Requests
      BY <2>2 DEF Entry
    <2>4. pc[audit[t][i].request] # "idle"
      BY DEF AuthorityInv, EntriesAdmitted
    <2>5. QED
      BY <2>3, <2>4, HeldLasts
  <1>2. EntriesAdmitted'
    BY <1>1 DEF EntriesAdmitted
  <1>3. OnlyEntitledChange'
    BY <1>1 DEF AuthorityInv, OnlyEntitledChange
  <1>4. QED
    BY <1>2, <1>3

\* Every audited change was made by the owner, or by an actor who held a grant for
\* that operation on that tag, or on everything, when its call was admitted,
\* however grants are given and revoked and whoever else is served.
THEOREM ChangesAreEntitled == Spec => []OnlyEntitledChange
  <1>1. Init => AuthorityInv
    BY DEF Init, AuthorityInv, CallsEntitled, EntriesAdmitted, OnlyEntitledChange
  <1>2. IInv /\ AuthorityInv /\ [Next]_vars => AuthorityInv'
    BY NextEntitled, OnlyCommitsWrite, PersistEntitled, TrailEntitled DEF AuthorityInv
  <1>3. AuthorityInv => OnlyEntitledChange
    BY DEF AuthorityInv
  <1>4. QED
    BY <1>1, <1>2, <1>3, Invariance, PTL DEF Spec
===============================================================================
