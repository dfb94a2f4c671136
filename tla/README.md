# mod-tags in TLA+

TLA+ models, TLC runs and TLAPS proofs of the tags module: a Go service over
Postgres that lets an actor attach `purpose:value` tags with a colour to any
entity, an HTTP API in front of it and two React components on top.

## The system

| Part | State it keeps | Operations | What makes it correct |
|---|---|---|---|
| Tables and triggers (`src/model/migrations`, `src/model/queries`) | `tags`, `tag_purpose_policies`, `tag_templates`; the parent `entities` row of a tag is mod-core's | one SQL statement per query; the insert triggers check the type and the one-of-domain rule; an update trigger refuses to change identity columns | at most one tag per (owner, subject, purpose) for a one-of-domain purpose; identity never changes |
| `TagService` (`src/api/service/tag.go`) | none of its own; per call a transaction | `Create`, `GetByUUID`, `UpdateByUUID` (colour), `UpdateTagValue`, `DeleteByUUID`, `Search`, `ListBySubject` | changes are atomic with their audit entry, made only by who may make them, and reported truthfully; pages put together give the whole listing |
| `TagPurposePolicyService` | none | `Get`, `Upsert` of a policy, in process only | a change of policy does not break what was admitted under it |
| `TagTemplateService` | none | `List` (open read), `Upsert`, called in process by the startup hook of an app | seeding can be repeated, interrupted and done by several replicas; it touches the app's own templates only; unknown scopes are forgiven by `List` and refused by `Upsert`; no template outlives its app |
| HTTP handlers (`src/api/httpapi`) | none | decode, call the service, map errors to statuses | every outcome has one status; absent, null and string colours are told apart |
| `TagEditor`, `TagList` (`src/gui/src`) | the fetched list, the load state, the add form | fetch on a change of subject or purposes, add, remove, change colour or value | what is shown belongs to the subject and is not older than what was shown |
| `TagChip` | two popovers and their drafts | open, edit, apply, clear, cancel, remove | a draft nobody touched is the tag's own, and only what the user made is sent |
| mod-core (external) | `entities` with `owner_id`, `archived_at`; grants; the audit log | `txhelper.Run`, `Authorizer`, `entity.Resolver`, `ObserverGroup` | modelled from how `src/` uses it |

The parts interact by calls and through the database. A handler runs each HTTP
request in a goroutine of its own, so calls of `TagService` overlap and meet only
in Postgres: in the rows, in the row locks of `UPDATE` and `DELETE`, and in the
advisory lock of the trigger `tags_enforce_one_of_domain`. Resolution and
authorisation happen *before* the transaction, observers that audit a change run
*inside* it, and post-commit observers after it.

What is hard here is therefore: reads that are acted on after they went stale
(the policy a trigger read, the row a method fetched, the grant it was
allowed by); the order in which locks are taken; a row that disappears between two
statements; failures between the row, its entity and its audit entry; an
acknowledgement of a commit that does not arrive; pages cut from a listing that
moves; a seeding hook that dies half way or runs twice; and, in the browser, answers
that arrive out of order and drafts that outlive the tag they were made from. `PROJECT.json` lists each of these at its line.

## The modules

| Module | What it is |
|---|---|
| `TagRegistry` | the abstract specification of the service: what the tables promise, every operation a single step |
| `TagService` | the service and its tables under concurrent requests, with the safety, liveness and refinement properties |
| `TagAudit` | what observers see: the audit trail replayed, and the post-commit notices |
| `TagList` | the list of a subject's tags in the browser: props, the effect that fetches for them, the list shown |
| `TagEditor` | extends `TagList` with the chips' and the form's asynchronous handlers |
| `TagPaging` | a reader that asks for one page of the listing after the other while tags come and go |
| `TagTemplates` | the catalogue of templates, the hooks that seed it and a reader |
| `TagColor` | colours as digits: parsing and composing, and the gray of a tag without one |
| `TagChip` | extends `TagColor` with one chip, its popovers and drafts, under a host that renders it anew |
| `MCTagAudit`, `MCTagEditor`, `MCTagPaging`, `MCTagTemplates`, `MCTagChip` | constant definitions for TLC |
| `TagServiceProofs` | the inductive invariant and the safety theorems |
| `TagAuthorityProofs` | that a change is made by the owner or under a grant that stood when its call was admitted |
| `TagAuditProofs` | what the audit trail, the notices and the answers tell whoever reads them |
| `TagRefinementProofs` | that `TagService` implements `TagRegistry` |
| `TagEditorProofs` | the inductive invariants of the editor, and its safety theorems |
| `TagPagingProofs` | that pages lose and repeat nothing, by the ranks of rows |
| `TagTemplatesProofs` | the inductive invariant of the catalogue and its theorems |
| `TagChipProofs` | the theorems of the chip and the lemma on its colours |

### TagService and the code

One request `r` is one call of a service method. `pc[r]` says which statement
comes next; `tx[r]` is its open transaction.

| `pc` | in the code | actions that leave it |
|---|---|---|
| `idle` | the call has not arrived | `Reject` (validation, `Resolve` or `Authorize` refuses), `Admit` |
| `admitted` | `txhelper.Run` is about to be called | `Read`, `BeginCreate`, `Fetch` |
| `checking` | the trigger read the policy as on and waits for the advisory lock | `PassCheck`, `Conflict` |
| `fetched` | `GetTagByEntityUUID` returned the row, without a lock on it | `Update`, `UpdateGone`, `Delete` |
| `written` | the row is written and locked; the observer and `COMMIT` follow | `Commit`, `LoseCommitReply` |
| `committed` | `ObserveAfterCommit` follows | `Notify` |
| `done`, `crashed` | answered; its process died | none |

`FailTx` stands for any statement that fails before or inside the transaction, and
for an observer that fails in it,
`Crash` for the death of the process, `SetPolicy` for
`TagPurposePolicyService.Upsert`, which waits for no insert, and `ChangeGrant` for
whoever gives or revokes a grant.

The database runs at READ COMMITTED, so a statement reads what is committed when
it starts. A transaction's own writes stay in `tx[r]` and become visible in
`Persist`, together with the audit entry its observer wrote. Row locks are held
from `written` to the end of the transaction (`RowLockFree`), the advisory lock
by an insert that was checked (`HoldsTupleLock`). An update keeps the committed
value of the column it does not set (`Updated`), because `UPDATE tags SET value`
names one column only. `UPDATE ... RETURNING` of a row that is gone is an error
(`UpdateGone`), while `DELETE` of one is not (`Delete`).

Five variables have no column of their own: `guarded` remembers which tags were
inserted under the check, `held` which grants a request was admitted by, `cache` is what a post-commit observer last heard,
`audit` is mod-core's audit log as the observers write it, and `reply` is what
the caller was told.

Abstractions, and why they are sound:

- `Resolve` and `Authorize` are one step, taken when the grants are read. An entity
  that exists goes on existing and keeps its owner (`entities.owner_id` is immutable),
  so nothing that matters can come between.
- Taking the advisory lock and the `EXISTS` after it are one step. Only the holder
  inserts under the check, and an unchecked insert that commits in between could
  as well have committed before.
- Colliding hashes of the advisory lock would only make requests wait for each
  other; they are left out.
- The reads that only fill a reply (`GetEntityByID` of owner and subject, the
  `one_of_domain` of the reply) are left out, and so are timestamps. Their failure
  is `FailTx`.
- A request is one call, made at most once: a retry is another request.
- Subjects are not actors. The authorizer is external. It allows an actor its own
  entity, the entities it owns, and what the rows of `grants` allow, as
  `src/api/service/tag_grant_integration_test.go` sets them up (lines 409-426): a grant
  names an actor, an operation and a target or none, which is a grant on everything (688-704),
  and actor and target may be groups (706-740). `Grant` has the groups resolved: an
  actor, an operation, and one tag or everything. Grants and memberships are rows, so
  `ChangeGrant` gives and revokes them at any time; `Authorize` reads them once, before
  the transaction, and what is revoked after that goes unnoticed. Being a tag's subject
  grants nothing (675-686), although comments of `tag.go` (258, 275 and 502) still say so.
- A call without an actor is refused before anything else happens and is left out.
- The values of `purpose`, `value` and `color` are model values; `Invalid` stands
  for an input the validation refuses. `Create` checks its purpose as it does its value
  (`tag.go:161-166`), with the same outcome, so `BadInput` looks at the value only.

### TagRegistry

Five operations on `tags`, `gone` and `guarded`: `CreateFree`, `CreateGuarded`,
`SetValue`, `SetColor`, `Delete`. `TagService` maps `gone` to `archived` and
`Rows` to `Row`; each commit is one operation, and everything else (the second of
two deletions included) is a stuttering step.

### TagEditor, TagList and the code

`TagList.tsx:54-75` and `TagEditor.tsx:127-149` are the same effect. `render` counts the
changes of props, `fetch[n]` is the request the effect made for the `n`-th: `asked`,
`answered` or `failed` when the service is done with it, `none` before and after. The
`cancelled` flag that the effect's cleanup sets is `n # render`, since each change of
props cleans up after the one before. Mounting and the first run of the effect are one
step, so the load state `idle` does not appear.

A handler of the editor is an asynchronous function of one click; `op[h].stage` says
how far it is:

| stage | in the code | actions that leave it |
|---|---|---|
| `unused` | no click yet | `StartRemove`, `StartUpdate`, `StartAdd` |
| `sent` | `client.remove`, `updateColor`, `updateValue` or `create` is awaited | `Serve`, `Refuse` |
| `served` | the reply is on its way | `FinishUpdate`, `Refetch` |
| `failed` | the rejection is on its way | `FailChip`, `FailAdd` |
| `asked` | `fetchTags` awaits the list | `AnswerRefetch` |
| `listed`, `unlisted` | the list, or its failure, is on its way | `ShowRefetch`, `FailRefetch` |

The rest of `op[h]` is the closure: the subject, purposes and list of the render that
made the handler. React runs the code between two awaits without interruption, which
is why such a piece is one action.

Abstractions: a list is a function from ids to tags, without its order; a colour change
and a value change have the same shape and are one kind, `update`; the purpose, value
and server errors of the form are one flag; a list and `onChange`'s argument are the
same value at the same step, so `onChange` has no variable. The client is the only one
who changes the tags and owns them all, and the list has one page. A render with new
props and the effects it entails, with the cleanup of the one before, are one step,
`SetProps`, taken when the effects run: a handler that ends between the two has ended just
before, and a click in that moment, on what the old list still shows, is left out.
`undisturbed` and `stored` are history variables with no counterpart in the code; that an
id of `stored` is never given to a new tag is what UUIDs do.

`Acceptable` and `Applied` are the service as one call meets it: it refuses an update or
a removal of a tag that is gone and a second tag of a one-of-domain purpose, a new tag has
an id that never was used, and an update, which sends an id and one column (`api.ts:106-121`),
sets that column of the *stored* row and answers with the whole row (`tags.sql:25-37`). That
row, not the one on the screen, is what the handler merges into its list. The transactions
behind a call, and the calls of others, are the subject of `TagService`.

### TagPaging and the code

`Search` and `ListBySubject` run one query each, without a transaction around the pages,
so a page is one step (`ReadPage`) and everything may happen between two of them. Both
queries order by `created_at` alone: `Pages` is the set of all pages an ordering with ties
may answer. `created_at` defaults to `now()`, which is when the transaction *began*;
`Begin` sets it and `Commit` makes the row visible later, so rows may appear ahead of
others. `Wanted` is the filter by value: an update of a value can bring a row into the
listing or take it out. The filters by owner, subject and purpose select by columns that
never change, so they and the join on accessible ids only choose which rows there are.

The reader is external: it asks with a fixed limit, adds it to the offset, and stops at a
page that is not full. `Pagination` and its `Normalize` are a type of mod-core;
`Limit` is what it makes of the request. `joined`, `left`, `tied` and `repeated` are
history variables.

### TagTemplates and the code

An `Upsert` is three steps: the validation, the lookup of the scope
(`ResolveScope`, or `RefuseUpsert`) and one statement (`WriteTemplate`, or `RefuseWrite`),
without a transaction around them. A hook calls it once per seed; the hook is the
consuming app's, so that it stops at the first error and starts over with the app are
its own (`tag_template.go` names it as the caller). The table is a function of its key
because of its two unique indexes, and `Upserted` is `ON CONFLICT DO UPDATE` on the
scoped one. What a scope's UUID is known for is mod-core's: an app, an entity that is no
app, nothing, or an app that is gone, whose entity may remain. `ON DELETE CASCADE` is
`Without`; the foreign key is `Referenced`. `Upsert` looks for blank fields and for the nil
UUID, but not at lengths or at the form of a colour: those are left to the CHECKs of the table
(`0204_tag_templates.sql:5-8`), so a hook can be refused by its statement too. `Unstorable` are
the seeds they refuse. The nil UUID is refused as an unknown one is, and is not told apart
from it.

`alone` is a history variable. `SeedsStand` needs it: hooks of two releases that seed at
once may leave a mix of both, since every seed is a statement of its own.

### TagChip, TagColor and the code

The chip owns no tag: `HostRenders` is a render with a changed tag, `HostRemounts` the
editor taking its chips down while it loads (`TagEditor.tsx:253`). The effects of
`TagChip.tsx:50-59` run after the browser has shown the render; `pending` says which are
due. React runs due effects before the next render, so a click that is quicker than
`RunEffects` runs its handler first, with the drafts of the tag before, and then has its
drafts overwritten (`Drafted`); the host's next render waits for them. `touched` remembers
which drafts the user changed. `call` is what the last step called the host with.

A hex string is the sequence of its digits, so that slices, padding and radix are modelled
as they are; the case of its letters is left out. `pickerAlpha` is an integer of 0 to 255,
as the slider gives it.

## The runs

| Run | Instance | Properties | Distinct states |
|---|---|---|---|
| `service` | 2 requests of any kind, an owner and an actor with one grant that comes and goes, 2 purposes, one of them with a policy that changes, 1 seed tag, all failures | `TypeOK`, `ArchivedExactlyDeleted`, `AnswerIsTruthful`, `OnlyEntitledChange`, `AuditReplay`, `CommittedNotices`, `GenuineBefore`, `OneLife`, `GuardedExclusive`, `StablePolicyHolds`, `Refines`, `EveryRequestAnswered` | 306 668 |
| `paging` | 4 tags, pages of one row, a filter that lets one of two values through, clock 0 to 3 | `TypeOK`, `NothingSkipped`, `NothingTwice` | 859 693 |
| `templates` | 3 hooks: two releases of one app and one of another scope, with a seed whose label is blank and one a CHECK refuses; 1 reader, 1 global template | `TypeOK`, `NoOrphans`, `SeedsStand`, `ForeignStand`, `SeededIsListed` | 745 194 |
| `chip` | all callbacks, 3 colours of a tag, 2 picked colours and alphas, 2 values, 4 drafts | `TypeOK`, `UntouchedFollows`, `UntouchedColorStays`, `OnlyTypedValues` | 6 907 |
| `editor` | 2 clicks of any kind, 1 change of props, 2 subjects, 1 seed tag, all calls may fail or lose their reply | `TypeOK`, `CurrentIfUndisturbed`, `NothingInvented`, `NeverIdlyLoading`, `EffectShowsOwn`, `Responsive` | 400 098 |
| `policy_flip_race` | 2 creates, the policy changes | `NoSecondUnderPolicy`: violated | |
| `stale_before` | 2 updates of a value | `ChainedBefore`: violated | |
| `update_delete_race` | an update and a delete | `MissIsMasked`: violated | |
| `double_delete` | 2 deletes | `DeletedOnce`: violated | |
| `editor_overlap` | 2 clicks, no failures, fixed purposes | `ReportIsCurrent`: violated | |
| `editor_purpose` | 1 click, 1 change between two pairs of purposes | `WithinPurposes`: violated | |
| `chip_gray` | as `chip` | `GrayWithoutColor`: violated | |

What the properties say:

- `ArchivedExactlyDeleted`: the archived entities are the tag entities whose row
  was deleted, no more and no fewer. It fails if an update could bring a deleted
  row back. That the statements of one delete stand or fall together is the database's.
- `AnswerIsTruthful`: a refusal left no trace, an `ok` left one audit entry.
- `OnlyEntitledChange`: every audited change is by the owner of the tag, or by an actor who
  held a grant for that operation, on that tag or on everything, when its call was
  admitted. A grant revoked earlier, or one for another tag or operation, never does.
  One that is revoked while the call is served does: the code does not look again.
- `GuardedExclusive`: two tags that passed the check never live on one (owner,
  subject, purpose). `StablePolicyHolds` extends it to all tags, as long as the
  policy stays on.
- `AuditReplay`: reading the audit entries of a tag in order gives its stored row.
  `CommittedNotices`: a post-commit observer only hears of states some prefix of
  the trail describes. The order of the notices is not promised by the code: two
  requests may notify in the opposite order of their commits.
- `GenuineBefore`: what an entry says was there before was there earlier, if not
  right before (that is `ChainedBefore`, which the code does not ensure). `OneLife`: a
  trail begins with the creation, and only a deletion can follow a deletion (a second
  one does, see `double_delete`).
- `Refines`: the service implements the registry.
- `EveryRequestAnswered`: no request waits for ever.
- `CurrentIfUndisturbed`: once the editor shows a list and is quiet, the list is what
  the service has for the props in force, unless two handlers overlapped, a handler
  overlapped a change of props, or a reply was lost. A later change of props repairs it.
- `EffectShowsOwn`: only a handler may still show tags of props that are gone.
- `NothingInvented`: a tag on the screen, however old, was once stored like this under
  its id, whichever answers were late, failed or merged into older lists.
- `Responsive`: the list does not load for ever and the form does not stay disabled.
  `NeverIdlyLoading` is its half without fairness: an editor that loads has a call
  outstanding that will end the loading.
- `NothingSkipped`: pages lose a row only if some row left the listing during the scan,
  or two rows share a `created_at`. `NothingTwice`: a row comes twice only if some row came
  into the listing, or two share a `created_at`. The code prevents neither; the properties
  say exactly when a reader can rely on its pages.
- `NoOrphans`: no template is scoped to what is no app, although the scope is looked up
  before the statement. `SeedsStand`: a hook that ended with no other one of its app beside
  or after it left every seed in the catalogue. `ForeignStand`: a hook changes its own
  app's templates only. `SeededIsListed`: what was seeded is found by whoever lists it.
- `UntouchedFollows`: a draft that differs from the tag is the user's.
  `UntouchedColorStays`: opening and applying the colour of a tag that has one does not
  change it, digit for digit. `GrayWithoutColor`: the picker of a tag that has none starts
  from a gray, which the code does not do. `OnlyTypedValues`: a draft that only followed the
  tag is never sent.

Bounds. Every race this code has is one of two requests on one tag or one tuple, so two
requests of any kind meet in all of them; a third would only join a queue for the same lock,
and the theorems cover any number. One seed tag gives updates and deletes something to
overlap on from the start, and `TagIds` has one more id per request so that a
create never fails for want of one. One subject puts all creates of a purpose on
one tuple; a second purpose shows that the rule is per purpose. `MutablePolicies` bounds
which policies change, `Grants` which grants come and go: one suffices, as it is for one
operation and not for the other, on one tag and not on the others, and is there or not at
each admission and each commit. The seed tag starts as a fixed row, so that a trail has a
beginning. No symmetry is used, since the run checks liveness.

Two clicks are enough for the editor: what it keeps across handlers is one list, one
load state and one form, and a race on them needs two writers; the change of props adds
the effect as a third. One subject starts with a tag of a one-of-domain purpose and
the other with none, so that tags of the wrong subject are seen; the editor's two runs that expect
a violation start with two tags.

A page of one row puts a border between any two rows; four tags are enough for a row to be
read, one to leave, one to come and one to stand at the border. The clock can give every
tag a time of its own and may stand still, so that times are shared as well. The two
releases of `templates` agree on one seed and differ on another, which one of them spells
with spaces and which exists globally too; every UUID may turn out to be an app, another
entity, or unknown. The third hook has a seed whose label is blank, one that the table refuses and one
that is good, in any order. The colours of `chip` are none, a dark one that is almost transparent
(its alpha has a leading zero digit) and a light one; of the drafts one is blank and one is
a value with spaces around it.

Fairness. The `Fairness` of `TagService`, which `FairAuditSpec` adds to `AuditSpec`, is weak fairness of `Step(r)` for each request: each is
served by a goroutine of its own, and Postgres queues lock requests, so a
statement that can run does run. Nothing is assumed of arrivals, of failures, of
policy changes or of grants. Weak fairness is enough because whoever holds a lock is itself
about to commit: no request holds two locks another one could hold in the opposite
order.

The editor's `FairSpec` assumes that calls are answered, if only by a failure, and that
the continuations of settled promises run. Nothing is assumed of the user or the host.

Paging, seeding and the chip promise nothing that must happen: a reader, a hook and a user
may stop at any point, and their specifications assume no fairness.

`Rest` is the stuttering of a service with no calls left, so the deadlock
check stays on in every run.

## What the runs found

- `policy_flip_race`. The trigger reads the policy first and takes the lock only if
  it was on. An insert that read it as off can commit after the policy was turned on
  and after another insert was checked and admitted: the tuple then holds two tags.
- `stale_before`. The `before` of an update's audit entry is from a read without
  `FOR UPDATE`. Of two overlapping updates the second records the value before the
  first. The stored row is right and the trail still replays (`AuditReplay`).
- `update_delete_race`. The masking of a missing row holds for the fetch only: a tag
  deleted after it makes the `UPDATE` answer with an internal error.
- `double_delete`. Nobody looks at the row count of `DELETE`: two overlapping
  deletes both answer success and both leave a `delete` entry.
- `editor_overlap`. An update is merged into the list of the render that started it. Of
  two overlapping updates the one that ends last takes the other one's change off the
  screen and out of what `onChange` is told. With two updates of one tag the older value
  may stay, since nothing orders the replies.
- `editor_purpose`. A purpose selected or typed before the host changes to two or more
  other purposes stays in the form's state and is submitted, unchecked.
- `chip_gray`. `lib/color.ts:3` promises a neutral gray for an absent colour; `parseColor`
  pads it to black, and the effect that runs on mount replaces the gray the picker was
  initialised with. Apply on a tag without a colour makes it black.

Read while modelling, with no run: `TagChip.tsx:48-49` says "so reopening the popover always
reflects the current tag color", but Cancel, a second click on the label and a failed update
leave the colour draft as it was.
`contrastColor` ignores alpha: the label of a nearly transparent dark tag is white.
Listings order by `created_at` alone, with no second column to break ties, and the editor
and the list read the first page only; with two or more purposes they filter that page in
the browser. `TagEditor.tsx:88-93` says a fixed purpose has no `<FieldError>`, but line 307
renders one. The reply of `TagTemplateService.Upsert` always has `OneOfDomain` false.
In the editor, while the load state is `error` the editor goes on
showing the list it had, the previous subject's included, and takes the occupied
purposes from it; and `onChange` is not called when the fetch after a successful
mutation fails, whatever `TagEditor.tsx:28` says. Of the service: `src/api/openapi.fragment.yaml:131-132` says
callers without access receive 404 where the service answers 403; and
`src/README.md:30` states exclusivity per subject, where the code enforces it per
owner, subject and purpose.

## What is proved

For every value of the constants that meets the assumptions of `TagService`
(`OpsAssumption`, `SubsetAssumption`, `EntityAssumption`: actors and tags are
different entities, `GrantsAssumption`: grants are rows of their table, `NullAssumption`: the
null values are no real values), and for those
of `AuditSpec`, which is `Spec` with the seed tags starting as one row, of
`SeedRowAssumption`:

| Theorem | Statement |
|---|---|
| `TypeCorrect` | `Spec => []TypeOK` |
| `Invariance` | `Spec => []IInv` |
| `OneOfDomainHolds` | `Spec => []GuardedExclusive` |
| `DeletionIsWhole` | `Spec => []ArchivedExactlyDeleted` |
| `StablePolicy` | `Spec => []StablePolicyHolds` |
| `ChangesAreEntitled` | `Spec => []OnlyEntitledChange` |
| `AnswersAreTruthful` | `Spec => []AnswerIsTruthful` |
| `TrailReplays` | `AuditSpec => []AuditReplay` |
| `NoticesAreCommitted` | `AuditSpec => []CommittedNotices` |
| `BeforeIsGenuine` | `AuditSpec => []GenuineBefore` |
| `LivesAreOrderly` | `AuditSpec => []OneLife` |
| `ServiceImplementsRegistry` | `Spec => Refines` |

and of `TagEditor`, under the assumptions of `TagList` and `TagEditor` (the purposes a
host may pass are sets of purposes, the tags there are at first are tags, the null
values are no real values):

| Theorem | Statement |
|---|---|
| `EditorTypeCorrect` | `Spec => []TypeOK` |
| `EffectIsOwn` | `Spec => EffectShowsOwn` |
| `UndisturbedIsCurrent` | `Spec => []CurrentIfUndisturbed` |
| `ShownWasStored` | `Spec => []NothingInvented` |
| `LoadingEnds` | `Spec => []NeverIdlyLoading` |

The inductive invariant `IInv` of the service has a typing half (`TypeOK`, that calls
in progress were validated, and what `tx` holds at each label) and a locking half,
needed because the properties are broken only at a commit, by what was decided earlier:

- `IdsOwned`: an open create has an id of its own that nobody else can name;
- `RowsLocked`: two written transactions never share an id, and the row a written
  update is about to store is the committed row with one column replaced;
- `TuplesLocked`: an insert that passed the check is alone on its tuple among the
  guarded tags and among the inserts that passed it.

With these, the commit of one request cannot invalidate what another one checked.
`StablePolicy` adds that under a fixed policy the same holds among *all* live tags;
`ChangesAreEntitled` adds, by `AuthorityInv`, that a call goes on naming the tag, and its
transaction the id, for which it was admitted, and that `held` and the owner of an entity are
set once, so that what was checked is what the entry was written under; the refinement needs `RowsLocked` (an update is one column of a live row)
and `ArchivedExactlyDeleted` (the second deletion is invisible). `AnswersAreTruthful` has
an invariant of its own, `Recorded`: a request has no audit entry before its commit and
one after it, and is answered only when it is done; it needs `TypeOK` to know that a
commit appends to the trail of one tag.

The theorems on the trail share the invariant `TrailInv`. It says of each tag that its
trail replays to its row (`Replayable`), that what a transaction fetched, what a committed
one still has to tell its observers and what these heard last are rows the trail describes
(`Fetched`, `Written`, `Heard`), and that the tag of a trail with a deletion is gone
(`Final`). At a commit the row lock of `IInv` makes the new entry continue the trail. The replay is a recursive function, and that its equation has
exactly one solution would need an induction over the trail; as every trail was grown
by commits, `Determined` shows it along the steps instead, one entry at a time.

The editor's `IInv` says what the three properties do not: that the fetch in force asks
for the props in force and an answer holds only what was asked for (`FetchOwn`), and
what a handler that runs alone knows at each stage (`RunsAlone`): no fetch of the effect
is open beside it, the list it started from is current until it is served, and the
merged list is current after that. The step that needs most of it is `Serve` of an
update, where the service's list and the merged one move together (`MergedIsListed`).
`ShownWasStored` rests on `Known`: what the service has it has stored (`Kept`), and every
list, on the screen, on its way or in a closure, and every reply holds what was once stored
(`Seen`).

Of `TagPaging`, for every finite set of tags, every filter and every page size of at
least one:

| Theorem | Statement |
|---|---|
| `PagingTypeCorrect` | `Spec => []TypeOK` |
| `NoneSkipped` | `Spec => []NothingSkipped` |
| `NoneTwice` | `Spec => []NothingTwice` |

The rank of a row is the number of listed rows older than it. While nothing leaves the
listing a rank can only grow, while nothing joins it can only fall (`RanksMove`), and
without ties a page is the rows with ranks from its offset to its end (`PageByRank`). So the
invariant behind `NoneSkipped` says that a row of the first listing that was not read
has a rank of at least the offset, and the one behind `NoneTwice` that every row read has a
rank below it.

Of `TagTemplates`, for any scopes, hooks and seeds such that the seeds of one hook have
different keys, and whatever seeds the table refuses (`UnstorableAssumption`):

| Theorem | Statement |
|---|---|
| `TemplatesTypeCorrect` | `Spec => []TypeOK` |
| `NoTemplateIsOrphaned` | `Spec => []NoOrphans` |
| `SeedingIsWhole` | `Spec => []SeedsStand` |
| `ForeignTemplatesStand` | `Spec => ForeignStand` |
| `SeedsAreListed` | `Spec => SeededIsListed` |

The inductive invariant (`TemplatesInvariant`) says of a hook that is alone that what it
has written so far stands, and of a reader that asked for an app which is still there that
it asks with the app's scope.

Of `TagChip`, for any colours, values and drafts for which trimming is idempotent:

| Theorem | Statement |
|---|---|
| `ChipTypeCorrect` | `Spec => []TypeOK` |
| `DraftsFollow` | `Spec => []UntouchedFollows` |
| `ColorStays` | `Spec => UntouchedColorStays` |
| `ValuesAreTyped` | `Spec => OnlyTypedValues` |

`ColorStays` rests on `Compose` undoing `Parse` for all colours of eight digits.

Checked by TLC only: `EveryRequestAnswered` and `Responsive`, since liveness under fairness
is out of the prover's reach; of `Responsive`, `EditorTypeCorrect` (the Add button is
disabled only while an add runs) and `LoadingEnds` prove what is safety.

## Not modelled

- The HTTP handlers and the router. They keep no state and call one service method each;
  the decoding of absent, null and string colours is a table that unit tests cover, and the
  mapping of errors to statuses is mod-core's.
- Of `TagEditor`: the drafts of the add form other than its purpose, which no handler but
  its own reads; the routing of an error to banner, field or toast, which is a hook of
  another package; tags of other owners, and pages of the list request.
- Of the tables: the length and format CHECKs of `tags`, which the validation of the service
  implies (those of `tag_templates` it does not, see `Unstorable`); the type trigger, which every insert of the service satisfies; the count query, which
  nothing calls.
- The colour of a chip's label, which is computed from its background at each render and kept
  nowhere.
- The display renderer and the wiring, which keep no state; generated queries, which are
  modelled from their SQL; stories, the mock client, assets and scripts, which are
  development aids and no part of the running system.
