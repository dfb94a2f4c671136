------------------------------ MODULE TagEditor ------------------------------
(***************************************************************************)
(* The editor: the list of TagList, chips that remove or change a tag, and *)
(* a form that adds one.  Each click starts an asynchronous handler.  It   *)
(* keeps the subject, the purposes and the list of the render that made    *)
(* it, whatever has happened on the screen by the time its calls return.   *)
(***************************************************************************)
EXTENDS TagList

CONSTANTS
  MaxClicks,  \* bound on the handlers that are started
  Exclusive,  \* the one-of-domain purposes
  NoPurpose

ASSUME ExclusiveAssumption == Exclusive \subseteq Purposes
ASSUME NoPurposeAssumption == NoPurpose \notin Purposes

ASSUME MaxClicksAssumption == MaxClicks \in Nat

Handlers == 1..MaxClicks

VARIABLES
  addPurpose,    \* what the form's purpose field holds
  isSubmitting,
  formError,     \* whether preSubmitFieldError or submitError is set
  op,            \* op[h]: the handler's call, its stage and its closure
  undisturbed    \* history: since the last change of props made while no handler
                 \* ran, no two handlers ran at a time and no reply was lost

formVars == <<addPurpose, isSubmitting, formError>>
vars == <<listVars, formVars, op, undisturbed>>

InFlight == {"sent", "served", "failed", "asked", "listed", "unlisted"}

\* `row` is the tag to create; once the call is served it is the tag of the reply.
\* An update sends an id and a `value`, nothing else of the tag.
Op == [kind : {"add", "remove", "update"}, stage : InFlight,
       subject : Subjects, purposes : PurposeSets,
       id : TagIds \cup {NoTag}, row : Tag \cup {NoTag},
       value : Values \cup {NoTag}, list : Lists]
Unused == [stage |-> "unused"]
Ended == [stage |-> "ended"]

Running == {h \in Handlers : op[h].stage \in InFlight}
Quiet == Running = {}
Adding(h) == h \in Running /\ op[h].kind = "add"

\* Every variable has its type.  The Add button is disabled for exactly as long
\* as an add is running, and an error state has an error to show.
TypeOK ==
  /\ ListTypeOK
  /\ addPurpose \in Purposes \cup {NoPurpose}
  /\ formError \in BOOLEAN
  /\ op \in [Handlers -> Op \cup {Unused, Ended}]
  /\ undisturbed \in BOOLEAN
  /\ isSubmitting = (\E h \in Handlers : Adding(h))

\* The purpose the form starts with, and is reset to when the purposes change:
\* with several to select from, it keeps what it has.
ResetPurpose(ps, old) ==
  CASE ps = {} -> NoPurpose
    [] Cardinality(ps) = 1 -> CHOOSE p \in ps : TRUE
    [] OTHER -> old

Init ==
  /\ ListInit
  /\ addPurpose = ResetPurpose(purposes, NoPurpose)
  /\ isSubmitting = FALSE /\ formError = FALSE
  /\ op = [h \in Handlers |-> Unused]
  /\ undisturbed = TRUE

-----------------------------------------------------------------------------
ChangeProps ==
  \E s \in Subjects, ps \in PurposeSets :
    /\ SetProps(s, ps)
    /\ addPurpose' = IF ps = purposes THEN addPurpose ELSE ResetPurpose(ps, addPurpose)
    /\ undisturbed' = Quiet
    /\ UNCHANGED <<isSubmitting, formError, op>>

Load(n) ==
  /\ AnswerFetch(n) \/ DeliverFetch(n)
  /\ UNCHANGED <<formVars, op, undisturbed>>

Occupied == {tags[t].purpose : t \in DOMAIN tags} \cap Exclusive

\* The user types a purpose, or selects one of those offered.
PickPurpose(p) ==
  /\ Cardinality(purposes) # 1
  /\ p \in (IF purposes = {} THEN Purposes ELSE purposes \ Occupied) \cup {NoPurpose}
  /\ addPurpose' = p
  /\ UNCHANGED <<listVars, isSubmitting, formError, op, undisturbed>>

Call(kind, id, row, value) ==
  [kind |-> kind, stage |-> "sent", subject |-> subject, purposes |-> purposes,
   id |-> id, row |-> row, value |-> value,
   list |-> IF kind = "update" THEN tags ELSE NoList]

\* Handlers are numbered in the order of the clicks.
Send(h, call) ==
  /\ op[h] = Unused /\ \A g \in 1..(h - 1) : op[g] # Unused
  /\ op' = [op EXCEPT ![h] = call]
  /\ undisturbed' = (undisturbed /\ Quiet)

\* Chips are on the screen unless the list is loading.
StartRemove(h, t) ==
  /\ loadState # "loading" /\ t \in DOMAIN tags
  /\ Send(h, Call("remove", t, NoTag, NoTag))
  /\ UNCHANGED <<listVars, formVars>>

StartUpdate(h, t, v) ==
  /\ loadState # "loading" /\ t \in DOMAIN tags
  /\ Send(h, Call("update", t, NoTag, v))
  /\ UNCHANGED <<listVars, formVars>>

PurposeToSubmit ==
  IF Cardinality(purposes) = 1 THEN CHOOSE p \in purposes : TRUE ELSE addPurpose

CanSubmit == ~isSubmitting /\ loadState # "loading"

\* Fault: the form is marked as submitting before it is validated.
SubmitRefusedBusy ==
  /\ CanSubmit
  /\ isSubmitting' = TRUE /\ formError' = TRUE
  /\ UNCHANGED <<listVars, addPurpose, op, undisturbed>>

\* Submitting a form that is not filled in, or that asks for a second tag of a
\* one-of-domain purpose, calls nobody.
SubmitRefused ==
  /\ CanSubmit
  /\ \E blankValue \in BOOLEAN :
       blankValue \/ PurposeToSubmit \in Occupied \cup {NoPurpose}
  /\ formError' = TRUE
  /\ UNCHANGED <<listVars, addPurpose, isSubmitting, op, undisturbed>>

StartAdd(h, v) ==
  /\ CanSubmit
  /\ PurposeToSubmit \notin Occupied \cup {NoPurpose}
  /\ Send(h, Call("add", NoTag, TagOf(subject, PurposeToSubmit, v), NoTag))
  /\ isSubmitting' = TRUE /\ formError' = FALSE
  /\ UNCHANGED <<listVars, addPurpose>>

-----------------------------------------------------------------------------
\* Whether the service can do what a call asks for: the tag is there, or there
\* is none of a one-of-domain purpose yet.
Acceptable(o) ==
  IF o.kind = "add"
  THEN o.row.purpose \in Exclusive =>
         \A t \in DOMAIN Listed(o.row.subject, {}) : server[t].purpose # o.row.purpose
  ELSE server[o.id] # NoTag

\* The tag a call is about; a new one gets an id that never had a tag before.
FreshIds == TagIds \ {e[1] : e \in stored}
Target(o) == IF o.kind = "add" THEN CHOOSE t \in FreshIds : TRUE ELSE o.id

\* What the call makes of its tag: an update sets one column of the stored row.
After(o) ==
  CASE o.kind = "add" -> o.row
    [] o.kind = "update" -> [server[o.id] EXCEPT !.value = o.value]
    [] OTHER -> NoTag

Applied(o) == [server EXCEPT ![Target(o)] = After(o)]

MoveTo(h, stage) == op' = [op EXCEPT ![h].stage = stage]

\* The call succeeds; its reply may still be lost.  TagIds bounds the adds.
Serve(h) ==
  /\ op[h].stage = "sent"
  /\ Acceptable(op[h])
  /\ op[h].kind = "add" => FreshIds # {}
  /\ server' = Applied(op[h])
  /\ stored' = IF op[h].kind = "remove" THEN stored
               ELSE stored \cup {<<Target(op[h]), After(op[h])>>}
  /\ \/ /\ op' = [op EXCEPT ![h].stage = "served", ![h].row = After(op[h])]
        /\ UNCHANGED undisturbed
     \/ "reply" \in Failures /\ MoveTo(h, "failed") /\ undisturbed' = FALSE
  /\ UNCHANGED <<render, subject, purposes, tags, loadState, loadError, fetch,
                 formVars>>

\* The service refuses the call, or is not reached.
Refuse(h) ==
  /\ op[h].stage = "sent"
  /\ "mutate" \in Failures \/ ~Acceptable(op[h])
  /\ MoveTo(h, "failed")
  /\ UNCHANGED <<listVars, formVars, undisturbed>>

\* The tag of the reply is merged into the list the update's handler started from.
\* Here and in ShowRefetch the list that is shown is also the one passed to onChange.
Merged(o) == [t \in DOMAIN o.list |-> IF t = o.id THEN o.row ELSE o.list[t]]

FinishUpdate(h) ==
  /\ op[h].stage = "served" /\ op[h].kind = "update"
  /\ tags' = Merged(op[h])
  /\ op' = [op EXCEPT ![h] = Ended]
  /\ UNCHANGED <<server, stored, render, subject, purposes, loadState, loadError, fetch,
                 formVars, undisturbed>>

\* Fault: an update that failed stays on the screen.
FailChipKeeping(h) ==
  /\ op[h].stage = "failed" /\ op[h].kind \in {"update", "remove"}
  /\ loadError' = TRUE
  /\ tags' = IF op[h].kind = "update" /\ op[h].id \in DOMAIN tags
             THEN [tags EXCEPT ![op[h].id].value = op[h].value] ELSE tags
  /\ op' = [op EXCEPT ![h] = Ended]
  /\ UNCHANGED <<server, stored, render, subject, purposes, loadState, fetch,
                 formVars, undisturbed>>

FailChip(h) ==
  /\ op[h].stage = "failed" /\ op[h].kind \in {"update", "remove"}
  /\ loadError' = TRUE
  /\ op' = [op EXCEPT ![h] = Ended]
  /\ UNCHANGED <<server, stored, render, subject, purposes, tags, loadState, fetch,
                 formVars, undisturbed>>

FailAdd(h) ==
  /\ op[h].stage = "failed" /\ op[h].kind = "add"
  /\ isSubmitting' = FALSE /\ formError' = TRUE
  /\ op' = [op EXCEPT ![h] = Ended]
  /\ UNCHANGED <<listVars, addPurpose, undisturbed>>

\* After a remove or an add the handler fetches the list of its own subject and
\* purposes; an add clears the form first.
Refetch(h) ==
  /\ op[h].stage = "served" /\ op[h].kind \in {"add", "remove"}
  /\ loadState' = "loading" /\ loadError' = FALSE
  /\ addPurpose' = IF op[h].kind = "add" /\ Cardinality(op[h].purposes) # 1
                   THEN NoPurpose ELSE addPurpose
  /\ MoveTo(h, "asked")
  /\ UNCHANGED <<server, stored, render, subject, purposes, tags, fetch,
                 isSubmitting, formError, undisturbed>>

\* Fault: the refetch forgets the restriction to the purposes.
AnswerRefetchAll(h) ==
  /\ op[h].stage = "asked"
  /\ op' = [op EXCEPT ![h].stage = "listed", ![h].list = Listed(op[h].subject, {})]
  /\ UNCHANGED <<listVars, formVars, undisturbed>>

AnswerRefetch(h) ==
  /\ op[h].stage = "asked"
  /\ \/ op' = [op EXCEPT ![h].stage = "listed",
                         ![h].list = Listed(op[h].subject, op[h].purposes)]
     \/ "list" \in Failures /\ MoveTo(h, "unlisted")
  /\ UNCHANGED <<listVars, formVars, undisturbed>>

\* The refetched list is shown; nothing cancels it.
ShowRefetch(h) ==
  /\ op[h].stage = "listed"
  /\ tags' = op[h].list
  /\ loadState' = "ready"
  /\ isSubmitting' = (isSubmitting /\ op[h].kind # "add")
  /\ op' = [op EXCEPT ![h] = Ended]
  /\ UNCHANGED <<server, stored, render, subject, purposes, loadError, fetch,
                 addPurpose, formError, undisturbed>>

\* Fault: a failed refetch leaves the list loading.
FailRefetchSilently(h) ==
  /\ op[h].stage = "unlisted"
  /\ loadError' = TRUE
  /\ isSubmitting' = (isSubmitting /\ op[h].kind # "add")
  /\ op' = [op EXCEPT ![h] = Ended]
  /\ UNCHANGED <<server, stored, render, subject, purposes, tags, loadState, fetch,
                 addPurpose, formError, undisturbed>>

FailRefetch(h) ==
  /\ op[h].stage = "unlisted"
  /\ loadState' = "error" /\ loadError' = TRUE
  /\ isSubmitting' = (isSubmitting /\ op[h].kind # "add")
  /\ op' = [op EXCEPT ![h] = Ended]
  /\ UNCHANGED <<server, stored, render, subject, purposes, tags, fetch,
                 addPurpose, formError, undisturbed>>
-----------------------------------------------------------------------------
\* What the user starts.
Click(h) ==
  \/ \E t \in TagIds : StartRemove(h, t)
  \/ \E t \in TagIds, v \in Values : StartUpdate(h, t, v)
  \/ \E v \in Values : StartAdd(h, v)

\* What a handler that was started does, with the service's answers.
Proceed(h) ==
  \/ Serve(h) \/ Refuse(h)
  \/ FinishUpdate(h) \/ FailChip(h) \/ FailAdd(h)
  \/ Refetch(h) \/ AnswerRefetch(h) \/ ShowRefetch(h) \/ FailRefetch(h)

\* The user has gone and nothing is left to come.
Rest ==
  /\ Quiet /\ \A n \in Renders : fetch[n].status = "none"
  /\ UNCHANGED vars

Next ==
  \/ ChangeProps
  \/ \E n \in Renders : Load(n)
  \/ \E p \in Purposes \cup {NoPurpose} : PickPurpose(p)
  \/ SubmitRefused
  \/ \E h \in Handlers : Click(h) \/ Proceed(h)
  \/ Rest

Spec == Init /\ [][Next]_vars

\* Calls are answered and promises are resolved.  Users promise nothing.
Fairness ==
  /\ \A n \in Renders : WF_vars(Load(n))
  /\ \A h \in Handlers : WF_vars(Proceed(h))
FairSpec == Spec /\ Fairness

-----------------------------------------------------------------------------
\* A user who does one thing at a time sees the truth: once a list is shown and
\* no handler runs, it is what the service has for the props in force, whatever
\* calls failed and however the props changed before.
CurrentIfUndisturbed ==
  undisturbed /\ Quiet /\ loadState = "ready" => tags = Listed(subject, purposes)

\* The effect never puts up tags that the props in force do not ask for, even
\* if answers arrive late: only a handler may still do that.
EffectShowsOwn ==
  [][tags' # tags /\ UNCHANGED op =>
       \A t \in DOMAIN tags' :
         tags'[t].subject = subject /\ Allowed(purposes, tags'[t].purpose)]_vars

\* Nothing is invented: what the screen shows of a tag, the service has once stored
\* under its id, whichever answers were late, lost or merged into older lists.
NothingInvented == \A t \in DOMAIN tags : <<t, tags[t]>> \in stored

\* The editor never stays busy: it always comes back to a list or an error, with
\* the Add button enabled.
Responsive == []<>(loadState # "loading" /\ ~isSubmitting)

-----------------------------------------------------------------------------
\* While the editor says that it loads, some call is on its way whose end will
\* change that: no path through the handlers and the effect, cancelled fetches
\* included, leaves it waiting for nothing.
NeverIdlyLoading ==
  loadState = "loading" =>
    \/ fetch[render].status # "none"
    \/ \E h \in Running : op[h].stage \in {"asked", "listed", "unlisted"}

\* A mutation that succeeded reports the list as it then is, unless another one
\* is still running.
ReportIsCurrent ==
  [][\A h \in Handlers :
       /\ op[h].stage \in {"served", "listed"} /\ op'[h] = Ended
       /\ Running = {h}
       => tags' = Listed(op[h].subject, op[h].purposes)]_vars

\* The form only ever asks for a tag of the purposes it is restricted to.
WithinPurposes ==
  \A h \in Handlers : Adding(h) => Allowed(op[h].purposes, op[h].row.purpose)
==============================================================================
