------------------------------ MODULE TagService ------------------------------
(***************************************************************************)
(* The tag service and the tables it writes, under concurrent requests.    *)
(*                                                                         *)
(* One request is one call of a TagService method.  It is validated,       *)
(* resolved and authorised before its transaction; the transaction runs    *)
(* at READ COMMITTED, so each of its statements sees what is committed     *)
(* when that statement starts, and its own writes become visible to the    *)
(* others at Commit; post-commit observers run last, outside of it.        *)
(***************************************************************************)
EXTENDS Naturals, Sequences, FiniteSets

CONSTANTS
  Requests,         \* the calls of one behaviour, each made at most once
  Ops,              \* the operations the requests may ask for
  Actors,           \* entities that authenticate; any of them may own tags
  TagIds,           \* entity ids of type tag
  SeedTags,         \* the tags that exist before the first request
  Subjects,         \* entities that exist and can be tagged
  Purposes,
  MutablePolicies,  \* purposes whose policy is changed while requests run
  Grants,           \* the grants that may be given and revoked while requests run
  Values,
  Colors,           \* #RRGGBBAA, and the absent colour
  Invalid,          \* an input the code refuses: bad value or colour, unknown UUID
  NoTag,            \* no row
  NoOwner,          \* no entity
  Everything,       \* the target of a grant that names none
  Nil,              \* no call, no transaction
  Failures          \* what may go wrong: "tx", "commitReply", "crash"

ASSUME OpsAssumption == Ops \subseteq {"create", "value", "color", "delete", "read"}
ASSUME SubsetAssumption ==
  /\ SeedTags \subseteq TagIds
  /\ MutablePolicies \subseteq Purposes
ASSUME EntityAssumption == Actors \cap TagIds = {}

\* What an operation has to be allowed as; both updates are one permission.
Permission(op) == IF op \in {"value", "color"} THEN "update" ELSE op

\* A row of grants, group memberships resolved: an actor may do one thing to one
\* tag, or to every entity.
Grant == [actor: Actors, operation: {"read", "update", "delete"},
          target: TagIds \cup {Everything}]
ASSUME GrantsAssumption == Grants \subseteq Grant

\* A tags row; created_at and updated_at are left out.
Row == [owner: Actors, subject: Subjects, purpose: Purposes,
        value: Values, color: Colors]
-------------------------------------------------------------------------------
(* The calls *)

\* Any entity's UUID can be put in the path of a request.
Targets == TagIds \cup Actors

Calls ==
  {c \in [op: {"create"}, actor: Actors, subject: Subjects \cup {Invalid}, purpose: Purposes,
          value: Values \cup {Invalid}, color: Colors \cup {Invalid}]
         \cup [op: {"value"}, actor: Actors, target: Targets, value: Values \cup {Invalid}]
         \cup [op: {"color"}, actor: Actors, target: Targets, color: Colors \cup {Invalid}]
         \cup [op: {"delete", "read"}, actor: Actors, target: Targets]
     : c.op \in Ops}

\* What an audit entry keeps of one side of a change: a row, one column, or nothing.
Snapshot == Row \cup Values \cup Colors \cup {NoTag}
Entry == [op: Ops, request: Requests, by: Actors, before: Snapshot, after: Snapshot]

Tx == [id: TagIds, seen: Row \cup {NoTag}, row: Row \cup {NoTag}, checked: BOOLEAN]

ASSUME NullAssumption ==
  /\ NoTag \notin Row
  /\ NoOwner \notin Actors
  /\ Nil \notin Tx \cup Calls

VARIABLES
  tags,      \* tags table: id -> committed row
  owner,     \* entities.owner_id of the tag entities, NoOwner when there is none
  archived,  \* entities whose archived_at is set
  policy,    \* tag_purpose_policies.one_of_domain, FALSE when there is no row
  grants,    \* the grants in force (mod-authz)
  audit,     \* per tag entity, the entries observers committed with the changes
  guarded,   \* history: ids inserted under the one-of-domain check
  held,      \* history: per request, the grants that allowed it when it was admitted
  cache,     \* what a post-commit observer last heard of each tag
  pc,        \* per request, where its method is
  call,      \* per request, its arguments
  tx,        \* per request, its open transaction
  reply      \* per request, the answer

db == <<tags, owner, archived, audit, guarded>>
rights == <<grants, held>>
vars == <<tags, owner, archived, policy, grants, audit, guarded, held, cache, pc, call, tx, reply>>

Live == {t \in TagIds : tags[t] # NoTag}

\* GetTagByEntityUUID: an entity that is not a tag has no tags row.
RowOf(e) == IF e \in TagIds THEN tags[e] ELSE NoTag

Init ==
  /\ \E rows \in [SeedTags -> Row] :
       tags = [t \in TagIds |-> IF t \in SeedTags THEN rows[t] ELSE NoTag]
  /\ owner = [t \in TagIds |-> IF t \in SeedTags THEN tags[t].owner ELSE NoOwner]
  /\ archived = {}
  /\ policy \in [Purposes -> BOOLEAN]
  /\ grants \in SUBSET Grants
  /\ held = [r \in Requests |-> {}]
  /\ audit = [t \in TagIds |-> <<>>]
  /\ guarded = {}
  /\ cache = tags
  /\ pc = [r \in Requests |-> "idle"]
  /\ call = [r \in Requests |-> Nil]
  /\ tx = [r \in Requests |-> Nil]
  /\ reply = [r \in Requests |-> "none"]

-------------------------------------------------------------------------------
(* Before the transaction: validation, Resolve, Authorize *)

\* Create checks its purpose as it does its value, with the same outcome; one
\* input the code refuses stands for both.
BadInput(c) ==
  \/ c.op \in {"create", "value"} /\ c.value = Invalid
  \/ c.op \in {"create", "color"} /\ c.color = Invalid

\* EntityResolver.Resolve finds archived entities too.
Exists(e) == e \in Actors \/ owner[e] # NoOwner

\* Fault: the check is made against the actor's own entity, as Create's is.
AuthorizedAsSelf(c) == c.actor \in Actors

\* The rows of grants that allow a call; a create asks for none.
Allowing(c) ==
  {g \in grants : /\ g.actor = c.actor
                  /\ g.operation = Permission(c.op)
                  /\ g.target \in {c.target, Everything}}

\* The authorizer allows an actor its own entity, the entities it owns, through
\* entities.owner_id, which outlives the tags row, and what it was granted.
Authorized(c) ==
  \/ c.target = c.actor
  \/ c.target \in TagIds /\ owner[c.target] = c.actor
  \/ Allowing(c) # {}

\* A UUID that resolves to nothing and one the actor may not touch are
\* answered alike.  Create authorizes the actor against itself, so only its
\* subject can be refused here.
Forbidden(c) ==
  IF c.op = "create"
  THEN c.subject = Invalid
  ELSE ~Exists(c.target) \/ ~Authorized(c)

Goto(r, label) == pc' = [pc EXCEPT ![r] = label]

\* Fault: an error path returns without ending the transaction.
AnswerLeavingTx(r, answer) ==
  /\ Goto(r, "done")
  /\ reply' = [reply EXCEPT ![r] = answer]
  /\ call' = [call EXCEPT ![r] = Nil]
  /\ UNCHANGED tx

\* The method returns: its arguments and its transaction are gone.
Answer(r, answer) ==
  /\ Goto(r, "done")
  /\ reply' = [reply EXCEPT ![r] = answer]
  /\ call' = [call EXCEPT ![r] = Nil]
  /\ tx' = [tx EXCEPT ![r] = Nil]

Reject(r, c) ==
  /\ pc[r] = "idle"
  /\ \/ BadInput(c) /\ Answer(r, "invalid")
     \/ ~BadInput(c) /\ Forbidden(c) /\ Answer(r, "forbidden")
  /\ UNCHANGED <<db, policy, rights, cache>>

\* Resolve and Authorize are one step, taken when the grants are read: an entity
\* that exists goes on existing, so nothing can come between them.
Admit(r, c) ==
  /\ pc[r] = "idle"
  /\ ~BadInput(c) /\ ~Forbidden(c)
  /\ call' = [call EXCEPT ![r] = c]
  /\ held' = [held EXCEPT ![r] = Allowing(c)]
  /\ Goto(r, "admitted")
  /\ UNCHANGED <<db, policy, grants, cache, tx, reply>>

\* GetByUUID reads the row last: a deleted tag's entity still resolves.
Read(r) ==
  /\ pc[r] = "admitted" /\ call[r].op = "read"
  /\ Answer(r, IF RowOf(call[r].target) = NoTag THEN "notfound" ELSE "found")
  /\ UNCHANGED <<db, policy, rights, cache>>

-------------------------------------------------------------------------------
(* Create: the entity row, then the tags row behind its insert trigger *)

Tuple(row) == <<row.owner, row.subject, row.purpose>>

NewRow(c) == [owner |-> c.actor, subject |-> c.subject, purpose |-> c.purpose,
              value |-> c.value, color |-> c.color]

InTx(r) == pc[r] \in {"checking", "fetched", "written"}

\* Ids a new entity can get: never used, and not in an open transaction.
Fresh == {t \in TagIds : owner[t] = NoOwner /\ \A s \in Requests : InTx(s) => tx[s].id # t}

\* CreateEntityWithOwner, and the INSERT up to the policy lookup of its
\* trigger: a purpose that is not one-of-domain skips the lock and the check.
BeginCreate(r) ==
  /\ pc[r] = "admitted" /\ call[r].op = "create"
  /\ LET checked == policy[call[r].purpose] IN
     /\ \E t \in Fresh :
          tx' = [tx EXCEPT ![r] = [id |-> t, seen |-> NoTag, row |-> NewRow(call[r]),
                                   checked |-> checked]]
     /\ Goto(r, IF checked THEN "checking" ELSE "written")
  /\ UNCHANGED <<db, policy, rights, cache, call, reply>>

\* Fault: the lock is shared while checking and upgraded for the insert.
HoldsTupleLockWhileChecking(s, row) ==
  /\ pc[s] \in {"checking", "written"}
  /\ tx[s].checked
  /\ Tuple(tx[s].row) = Tuple(row)

\* pg_advisory_xact_lock on the tuple, held until the transaction ends.  Taking
\* it and the EXISTS that follows are one step: only the holder inserts under
\* the check, and what others commit meanwhile they could commit before it.
HoldsTupleLock(s, row) ==
  /\ pc[s] = "written"
  /\ tx[s].checked
  /\ Tuple(tx[s].row) = Tuple(row)

\* Fault: the EXISTS check alone, without the advisory lock.
NoTupleLock(r) == TRUE

TupleLockFree(r) == \A s \in Requests \ {r} : ~HoldsTupleLock(s, tx[r].row)

\* Fault: the check sees only tags inserted under the policy, as a partial
\* unique index would.
TupleTakenByGuarded(r) ==
  \E t \in Live \cap guarded : Tuple(tags[t]) = Tuple(tx[r].row)

TupleTaken(r) == \E t \in Live : Tuple(tags[t]) = Tuple(tx[r].row)

PassCheck(r) ==
  /\ pc[r] = "checking"
  /\ TupleLockFree(r)
  /\ ~TupleTaken(r)
  /\ Goto(r, "written")
  /\ UNCHANGED <<db, policy, rights, cache, call, tx, reply>>

\* unique_violation (23505) becomes ErrConflict.
Conflict(r) ==
  /\ pc[r] = "checking"
  /\ TupleLockFree(r)
  /\ TupleTaken(r)
  /\ Answer(r, "conflict")
  /\ UNCHANGED <<db, policy, rights, cache>>

-------------------------------------------------------------------------------
(* Update and delete: fetch without a lock, then write *)

Fetch(r) ==
  /\ pc[r] = "admitted" /\ call[r].op \in {"value", "color", "delete"}
  /\ LET row == RowOf(call[r].target) IN
     \/ row = NoTag /\ Answer(r, "forbidden")
     \/ /\ row # NoTag
        /\ tx' = [tx EXCEPT ![r] = [id |-> call[r].target, seen |-> row, row |-> row,
                                    checked |-> FALSE]]
        /\ Goto(r, "fetched")
        /\ UNCHANGED <<call, reply>>
  /\ UNCHANGED <<db, policy, rights, cache>>

\* Fault: rows are not locked between the write and the commit.
NoRowLock(r) == TRUE

\* The row locks of the tag and of its entity, held until the transaction ends.
RowLockFree(r) ==
  \A s \in Requests \ {r} : pc[s] = "written" => tx[s].id # tx[r].id

\* UPDATE tags: the columns it does not set keep their committed values, and
\* the identity columns cannot change (tags_reject_immutable_changes).
Updated(c, row) ==
  IF c.op = "value" THEN [row EXCEPT !.value = c.value] ELSE [row EXCEPT !.color = c.color]

\* Fault: an upsert of the row as it was fetched, which need not exist any more.
UpsertFetched(r) ==
  /\ pc[r] = "fetched" /\ call[r].op \in {"value", "color"}
  /\ RowLockFree(r)
  /\ tx' = [tx EXCEPT ![r].row = Updated(call[r], tx[r].seen)]
  /\ Goto(r, "written")
  /\ UNCHANGED <<db, policy, rights, cache, call, reply>>

\* Fault: the UPDATE sets every column, from the row as it was fetched.
UpdateAllColumns(r) ==
  /\ pc[r] = "fetched" /\ call[r].op \in {"value", "color"}
  /\ RowLockFree(r)
  /\ tags[tx[r].id] # NoTag
  /\ tx' = [tx EXCEPT ![r].row = Updated(call[r], tx[r].seen)]
  /\ Goto(r, "written")
  /\ UNCHANGED <<db, policy, rights, cache, call, reply>>

\* Fault: the post-commit observers are called inside the transaction.
UpdateAndNotify(r) ==
  /\ pc[r] = "fetched" /\ call[r].op \in {"value", "color"}
  /\ RowLockFree(r)
  /\ tags[tx[r].id] # NoTag
  /\ LET row == Updated(call[r], tags[tx[r].id]) IN
     /\ tx' = [tx EXCEPT ![r].row = row]
     /\ cache' = [cache EXCEPT ![tx[r].id] = row]
  /\ Goto(r, "written")
  /\ UNCHANGED <<db, policy, rights, call, reply>>

Update(r) ==
  /\ pc[r] = "fetched" /\ call[r].op \in {"value", "color"}
  /\ RowLockFree(r)
  /\ tags[tx[r].id] # NoTag
  /\ tx' = [tx EXCEPT ![r].row = Updated(call[r], tags[tx[r].id])]
  /\ Goto(r, "written")
  /\ UNCHANGED <<db, policy, rights, cache, call, reply>>

\* Fault: like the DELETE, the UPDATE does not look at the number of rows.
UpdateGoneUnnoticed(r) ==
  /\ pc[r] = "fetched" /\ call[r].op \in {"value", "color"}
  /\ tags[tx[r].id] = NoTag
  /\ Answer(r, "ok")
  /\ UNCHANGED <<db, policy, rights, cache>>

\* UPDATE ... RETURNING finds no row: pgx.ErrNoRows, wrapped, so not a miss.
UpdateGone(r) ==
  /\ pc[r] = "fetched" /\ call[r].op \in {"value", "color"}
  /\ tags[tx[r].id] = NoTag
  /\ Answer(r, "internal")
  /\ UNCHANGED <<db, policy, rights, cache>>

\* DELETE and ArchiveEntity; neither minds that the row is gone already.
Delete(r) ==
  /\ pc[r] = "fetched" /\ call[r].op = "delete"
  /\ RowLockFree(r)
  /\ tx' = [tx EXCEPT ![r].row = NoTag]
  /\ Goto(r, "written")
  /\ UNCHANGED <<db, policy, rights, cache, call, reply>>

-------------------------------------------------------------------------------
(* Observe, commit, notify *)

IsUpdate(c) == c.op \in {"value", "color"}

\* Fault: the snapshot before an update is taken of the row it has written.
BeforeAsWritten(c, x) ==
  IF IsUpdate(c) THEN x.row[c.op] ELSE x.seen

\* What Observe is handed: the whole row for create and delete, the one
\* column for an update, "before" being what the fetch saw.
Before(c, x) ==
  IF IsUpdate(c) THEN x.seen[c.op] ELSE x.seen

After(c, x) ==
  IF IsUpdate(c) THEN x.row[c.op] ELSE x.row

\* The effect of a committed transaction, the entry of its observer included.
Persist(r) ==
  LET c == call[r]
      x == tx[r] IN
  /\ tags' = [tags EXCEPT ![x.id] = x.row]
  /\ owner' = IF c.op = "create" THEN [owner EXCEPT ![x.id] = c.actor] ELSE owner
  /\ archived' = IF c.op = "delete" THEN archived \cup {x.id} ELSE archived
  /\ audit' = [audit EXCEPT ![x.id] =
                 Append(@, [op |-> c.op, request |-> r, by |-> c.actor,
                            before |-> Before(c, x), after |-> After(c, x)])]
  /\ guarded' = IF x.checked THEN guarded \cup {x.id} ELSE guarded

Commit(r) ==
  /\ pc[r] = "written"
  /\ Persist(r)
  /\ Goto(r, "committed")
  /\ UNCHANGED <<policy, rights, cache, call, tx, reply>>

\* The commit took place but its acknowledgement did not arrive: the method
\* returns the error, and the post-commit observers are not called.
LoseCommitReply(r) ==
  /\ "commitReply" \in Failures
  /\ pc[r] = "written"
  /\ Persist(r)
  /\ Answer(r, "internal")
  /\ UNCHANGED <<policy, rights, cache>>

\* Any statement, or an observer in the transaction, fails: what was open rolls
\* back.  The reads before a transaction, and those of GetByUUID, fail alike.
FailTx(r) ==
  /\ "tx" \in Failures
  /\ pc[r] = "admitted" \/ InTx(r)
  /\ Answer(r, "internal")
  /\ UNCHANGED <<db, policy, rights, cache>>

\* ObserveAfterCommit with the state after the change, then the answer.
Notify(r) ==
  /\ pc[r] = "committed"
  /\ cache' = [cache EXCEPT ![tx[r].id] = tx[r].row]
  /\ Answer(r, "ok")
  /\ UNCHANGED <<db, policy, rights>>

\* The process dies: the database rolls back what was open, nobody is
\* answered, and a notice not yet given never will be.
Crash(r) ==
  /\ "crash" \in Failures
  /\ pc[r] \notin {"idle", "done", "crashed"}
  /\ Goto(r, "crashed")
  /\ call' = [call EXCEPT ![r] = Nil]
  /\ tx' = [tx EXCEPT ![r] = Nil]
  /\ UNCHANGED <<db, policy, rights, cache, reply>>

\* TagPurposePolicyService.Upsert: one statement, which waits for no insert.
SetPolicy(p) ==
  /\ policy' \in {[policy EXCEPT ![p] = b] : b \in BOOLEAN}
  /\ UNCHANGED <<db, rights, cache, pc, call, tx, reply>>

\* A grant is given or revoked, or a group's members change (mod-authz).
ChangeGrant(g) ==
  /\ grants' \in {grants \cup {g}, grants \ {g}}
  /\ UNCHANGED <<db, policy, held, cache, pc, call, tx, reply>>

\* All requests are over; the system waits for calls this behaviour does not make.
Rest ==
  /\ \A r \in Requests : pc[r] \in {"done", "crashed"}
  /\ UNCHANGED vars

\* The next statement of a request that is being served.
Step(r) ==
  \/ Read(r)
  \/ BeginCreate(r)
  \/ PassCheck(r)
  \/ Conflict(r)
  \/ Fetch(r)
  \/ Update(r)
  \/ UpdateGone(r)
  \/ Delete(r)
  \/ Commit(r)
  \/ Notify(r)

Arrive(r) == \E c \in Calls : Reject(r, c) \/ Admit(r, c)

Fail(r) == LoseCommitReply(r) \/ FailTx(r) \/ Crash(r)

Next ==
  \/ \E r \in Requests : Arrive(r) \/ Step(r) \/ Fail(r)
  \/ \E p \in MutablePolicies : SetPolicy(p)
  \/ \E g \in Grants : ChangeGrant(g)
  \/ Rest

Spec == Init /\ [][Next]_vars

\* Requests run in goroutines of their own and Postgres grants its locks in
\* turn, so a request whose next statement can run does run it.  Nothing is
\* assumed of arrivals, failures or changes of policies and grants.
Fairness == \A r \in Requests : WF_vars(Step(r))

-------------------------------------------------------------------------------
(* Properties *)

Labels == {"idle", "admitted", "checking", "fetched", "written", "committed", "done", "crashed"}
Answers == {"none", "ok", "found", "invalid", "forbidden", "notfound", "conflict", "internal"}

\* Every variable holds a value of its kind, and a request is in a transaction
\* exactly while its label says so.
TypeOK ==
  /\ tags \in [TagIds -> Row \cup {NoTag}]
  /\ owner \in [TagIds -> Actors \cup {NoOwner}]
  /\ archived \subseteq Targets
  /\ policy \in [Purposes -> BOOLEAN]
  /\ grants \subseteq Grants
  /\ held \in [Requests -> SUBSET Grants]
  /\ audit \in [TagIds -> Seq(Entry)]
  /\ guarded \subseteq TagIds
  /\ cache \in [TagIds -> Row \cup {NoTag}]
  /\ pc \in [Requests -> Labels]
  /\ call \in [Requests -> Calls \cup {Nil}]
  /\ tx \in [Requests -> Tx \cup {Nil}]
  /\ reply \in [Requests -> Answers]
  /\ \A r \in Requests : call[r] = Nil <=> pc[r] \in {"idle", "done", "crashed"}
  /\ \A r \in Requests : tx[r] # Nil <=> (InTx(r) \/ pc[r] = "committed")

\* Two tags that both passed the one-of-domain check never live at the same
\* time on one (owner, subject, purpose), however the policy is changed while
\* their inserts run (tags_enforce_one_of_domain and its advisory lock).
GuardedExclusive ==
  \A t, u \in guarded \cap Live : t # u => Tuple(tags[t]) # Tuple(tags[u])

\* While the policy of a purpose stays on, a tag created under it never shares
\* its tuple with another live tag, one older than the policy included.
StablePolicyHolds ==
  \A t, u \in Live :
    /\ t # u /\ t \notin SeedTags
    /\ Tuple(tags[t]) = Tuple(tags[u])
    => tags[t].purpose \in MutablePolicies \/ ~policy[tags[t].purpose]

\* The archived entities are exactly the tag entities whose row was deleted: a
\* delete never does half of its work, no update brings a deleted tag back, and
\* a DELETE naming an entity that is not a tag archives nothing.
ArchivedExactlyDeleted ==
  archived = {t \in TagIds : owner[t] # NoOwner /\ tags[t] = NoTag}

\* The audit entries a request left behind.
EntriesOf(r) ==
  UNION {{<<t, i>> : i \in {j \in DOMAIN audit[t] : audit[t][j].request = r}} : t \in TagIds}

\* A caller can trust its answer: a refusal left no trace in the database, a
\* mutation answered ok left exactly one audit entry, and no request leaves two
\* (an internal error says nothing: the commit may have taken place).
AnswerIsTruthful ==
  \A r \in Requests :
    /\ Cardinality(EntriesOf(r)) <= 1
    /\ reply[r] \in {"invalid", "forbidden", "notfound", "conflict"} => EntriesOf(r) = {}
    /\ reply[r] = "ok" => EntriesOf(r) # {}

\* Every audited change was made by the owner of the tag, or by an actor who held
\* a grant for that operation on that very tag, or on everything, when its call
\* was admitted: a grant revoked before, or one for another tag or operation,
\* changes nothing.  One revoked while the call is served goes unnoticed.
OnlyEntitledChange ==
  \A t \in TagIds : \A i \in DOMAIN audit[t] :
    LET e == audit[t][i] IN
    \/ e.by = owner[t]
    \/ \E g \in held[e.request] :
         g.actor = e.by /\ g.operation = Permission(e.op) /\ g.target \in {t, Everything}

\* Every request that arrives is answered, or its process died: no request
\* waits for a lock for ever.
EveryRequestAnswered ==
  \A r \in Requests : pc[r] # "idle" ~> pc[r] \in {"done", "crashed"}

\* The service implements the registry: every step is one whole operation on
\* one tag, or nothing the registry can see.
Registry == INSTANCE TagRegistry WITH Rows <- Row, gone <- archived
Refines == Registry!Spec
===============================================================================
