--------------------------- MODULE TagEditorProofs ---------------------------
(***************************************************************************)
(* What the editor's list and form guarantee, for every number of handlers *)
(* and changes of props.                                                   *)
(***************************************************************************)
EXTENDS TagEditor, FiniteSetTheorems, TLAPS

\* A call names the tag it is about, and at most one add runs.
CallsMadeWell ==
  \A h \in Running :
    /\ op[h].kind = "add" => op[h].row \in Tag
    /\ op[h].kind \in {"update", "remove"} => op[h].id \in TagIds
    /\ op[h].kind = "update" =>
         /\ op[h].stage \in {"sent", "served", "failed"}
         /\ op[h].stage = "served" => op[h].row \in Tag
         /\ op[h].value \in Values
         /\ op[h].id \in DOMAIN op[h].list
OneAdd == \A g, h \in Handlers : Adding(g) /\ Adding(h) => g = h
TInv == TypeOK /\ CallsMadeWell /\ OneAdd

\* The fetch in force asks for the props in force, and an answer holds only tags
\* it asked for.
FetchOwn ==
  /\ fetch[render].subject = subject /\ fetch[render].purposes = purposes
  /\ \A n \in Renders : \A t \in DOMAIN fetch[n].list :
       /\ fetch[n].list[t].subject = fetch[n].subject
       /\ Allowed(fetch[n].purposes, fetch[n].list[t].purpose)

\* A handler that runs alone is about the props in force, and its part of the
\* list is up to date.
RunsAlone(h) ==
  /\ op[h].subject = subject /\ op[h].purposes = purposes
  /\ fetch[render].status = "none"
  /\ (op[h].stage \in {"asked", "listed", "unlisted"}) = (loadState = "loading")
  /\ op[h].stage = "listed" => op[h].list = Listed(subject, purposes)
  /\ loadState = "ready" =>
       /\ op[h].stage \in {"sent", "failed"} => tags = Listed(subject, purposes)
       /\ op[h].kind = "update" /\ op[h].stage = "sent" => op[h].list = tags
       /\ op[h].kind = "update" /\ op[h].stage = "served" =>
            Merged(op[h]) = Listed(subject, purposes)

Synchronised ==
  undisturbed =>
    /\ \A h \in Running : Running = {h} /\ RunsAlone(h)
    /\ Quiet /\ loadState = "ready" =>
         /\ tags = Listed(subject, purposes)
         /\ fetch[render].status = "none"
    /\ fetch[render].status # "none" => loadState = "loading"
    /\ fetch[render].status = "answered" => fetch[render].list = Listed(subject, purposes)

IInv == TInv /\ FetchOwn /\ Synchronised

------------------------------------------------------------------------------
(* Lists and calls *)

\* What it is to be a list.
LEMMA ListShape ==
  ASSUME NEW l
  PROVE  l \in Lists <=> DOMAIN l \in SUBSET TagIds /\ l \in [DOMAIN l -> Tag]
<1>1. ASSUME l \in Lists PROVE DOMAIN l \in SUBSET TagIds /\ l \in [DOMAIN l -> Tag]
  <2>1. PICK ids \in SUBSET TagIds : l \in [ids -> Tag]
    BY <1>1 DEF Lists
  <2> QED BY <2>1
<1>2. ASSUME DOMAIN l \in SUBSET TagIds, l \in [DOMAIN l -> Tag] PROVE l \in Lists
  BY <1>2 DEF Lists
<1> QED BY <1>1, <1>2

LEMMA NoListIsList == NoList \in Lists /\ DOMAIN NoList = {}
BY ListShape DEF NoList

\* An answer of the service is a list, and holds only what was asked for.
LEMMA ListedShape ==
  ASSUME server \in [TagIds -> Tag \cup {NoTag}], NEW s, NEW ps
  PROVE  /\ Listed(s, ps) \in Lists
         /\ \A t \in DOMAIN Listed(s, ps) :
              /\ Listed(s, ps)[t].subject = s
              /\ Allowed(ps, Listed(s, ps)[t].purpose)
<1>1. Listed(s, ps) \in [DOMAIN Listed(s, ps) -> Tag] /\ DOMAIN Listed(s, ps) \in SUBSET TagIds
  BY DEF Listed
<1> QED BY <1>1, ListShape DEF Listed

\* A handler runs while its record is a call.
LEMMA RunningOps ==
  ASSUME op \in [Handlers -> Op \cup {Unused, Ended}], NEW h \in Handlers
  PROVE  /\ h \in Running <=> op[h] \in Op
         /\ h \notin Running <=> op[h] \in {Unused, Ended}
BY DEF Running, Op, Unused, Ended, InFlight

\* A call that starts is one, and says which tag it is about.
LEMMA CallShape ==
  ASSUME TypeOK, NEW kind \in {"add", "remove", "update"},
         NEW id \in TagIds \cup {NoTag}, NEW row \in Tag \cup {NoTag},
         NEW value \in Values \cup {NoTag}, NEW call, call = Call(kind, id, row, value)
  PROVE  /\ call \in Op
         /\ call.kind = kind /\ call.stage = "sent"
         /\ call.subject = subject /\ call.purposes = purposes
         /\ call.id = id /\ call.row = row /\ call.value = value
         /\ kind = "update" => call.list = tags
BY NoListIsList DEF Call, Op, TypeOK, ListTypeOK, InFlight

\* The five things that can happen to a handler: it starts, moves to another
\* stage, gets the reply to its call, takes over a list, and ends.
LEMMA Started ==
  ASSUME op \in [Handlers -> Op \cup {Unused, Ended}], NEW h \in Handlers,
         NEW call \in Op, Send(h, call)
  PROVE  /\ op' \in [Handlers -> Op \cup {Unused, Ended}]
         /\ op'[h] = call /\ \A g \in Handlers \ {h} : op'[g] = op[g]
         /\ h \notin Running /\ Running' = Running \cup {h}
<1>1. op' = [op EXCEPT ![h] = call] /\ op[h] = Unused
  BY DEF Send
<1>2. op' \in [Handlers -> Op \cup {Unused, Ended}]
  BY <1>1
<1>3. op'[h] = call /\ \A g \in Handlers \ {h} : op'[g] = op[g]
  BY <1>1
<1>4. call.stage \in InFlight
  BY DEF Op
<1>5. Unused.stage \notin InFlight
  BY DEF Unused, InFlight
<1> QED BY <1>1, <1>2, <1>3, <1>4, <1>5 DEF Running

LEMMA Moved ==
  ASSUME op \in [Handlers -> Op \cup {Unused, Ended}], NEW h \in Running,
         NEW stage \in InFlight, MoveTo(h, stage)
  PROVE  /\ op' \in [Handlers -> Op \cup {Unused, Ended}]
         /\ \A g \in Handlers \ {h} : op'[g] = op[g]
         /\ Running' = Running
         /\ op'[h] \in Op /\ op'[h].stage = stage
         /\ op'[h].kind = op[h].kind /\ op'[h].subject = op[h].subject
         /\ op'[h].purposes = op[h].purposes /\ op'[h].id = op[h].id
         /\ op'[h].row = op[h].row /\ op'[h].value = op[h].value
         /\ op'[h].list = op[h].list
<1>1. h \in Handlers /\ op[h] \in Op
  BY RunningOps DEF Running
<1>2. op' = [op EXCEPT ![h] = [op[h] EXCEPT !.stage = stage]]
  BY DEF MoveTo
<1>3. /\ op'[h] = [op[h] EXCEPT !.stage = stage]
      /\ \A g \in Handlers \ {h} : op'[g] = op[g]
  BY <1>1, <1>2
<1>4. /\ op'[h] \in Op /\ op'[h].stage = stage
      /\ op'[h].kind = op[h].kind /\ op'[h].subject = op[h].subject
      /\ op'[h].purposes = op[h].purposes /\ op'[h].id = op[h].id
      /\ op'[h].row = op[h].row /\ op'[h].value = op[h].value
      /\ op'[h].list = op[h].list
  BY <1>1, <1>3 DEF Op
<1>5. op' \in [Handlers -> Op \cup {Unused, Ended}]
  BY <1>1, <1>2, <1>3, <1>4
<1>6. Running' = Running
  BY <1>3, <1>4 DEF Running
<1> QED BY <1>3, <1>4, <1>5, <1>6

LEMMA Replied ==
  ASSUME op \in [Handlers -> Op \cup {Unused, Ended}], NEW h \in Running,
         NEW row \in Tag \cup {NoTag},
         op' = [op EXCEPT ![h].stage = "served", ![h].row = row]
  PROVE  /\ op' \in [Handlers -> Op \cup {Unused, Ended}]
         /\ \A g \in Handlers \ {h} : op'[g] = op[g]
         /\ Running' = Running
         /\ op'[h] \in Op /\ op'[h].stage = "served" /\ op'[h].row = row
         /\ op'[h].kind = op[h].kind /\ op'[h].subject = op[h].subject
         /\ op'[h].purposes = op[h].purposes /\ op'[h].id = op[h].id
         /\ op'[h].value = op[h].value /\ op'[h].list = op[h].list
<1>1. h \in Handlers /\ op[h] \in Op
  BY RunningOps DEF Running
<1>2. /\ op'[h] = [op[h] EXCEPT !.stage = "served", !.row = row]
      /\ \A g \in Handlers \ {h} : op'[g] = op[g]
      /\ DOMAIN op' = Handlers /\ op' = [g \in Handlers |-> op'[g]]
  BY <1>1
<1>3. /\ op'[h] \in Op /\ op'[h].stage = "served" /\ op'[h].row = row
      /\ op'[h].kind = op[h].kind /\ op'[h].subject = op[h].subject
      /\ op'[h].purposes = op[h].purposes /\ op'[h].id = op[h].id
      /\ op'[h].value = op[h].value /\ op'[h].list = op[h].list
  BY <1>1, <1>2 DEF Op, InFlight
<1>4. op' \in [Handlers -> Op \cup {Unused, Ended}]
  BY <1>1, <1>2, <1>3
<1>5. Running' = Running
  BY <1>1, <1>2, <1>3 DEF Running, InFlight, Op
<1> QED BY <1>2, <1>3, <1>4, <1>5

LEMMA Took ==
  ASSUME op \in [Handlers -> Op \cup {Unused, Ended}], NEW h \in Running,
         NEW l \in Lists,
         op' = [op EXCEPT ![h].stage = "listed", ![h].list = l]
  PROVE  /\ op' \in [Handlers -> Op \cup {Unused, Ended}]
         /\ \A g \in Handlers \ {h} : op'[g] = op[g]
         /\ Running' = Running
         /\ op'[h] \in Op /\ op'[h].stage = "listed" /\ op'[h].list = l
         /\ op'[h].kind = op[h].kind /\ op'[h].subject = op[h].subject
         /\ op'[h].purposes = op[h].purposes /\ op'[h].id = op[h].id
         /\ op'[h].row = op[h].row
<1>1. h \in Handlers /\ op[h] \in Op
  BY RunningOps DEF Running
<1>2. /\ op'[h] = [op[h] EXCEPT !.stage = "listed", !.list = l]
      /\ \A g \in Handlers \ {h} : op'[g] = op[g]
      /\ DOMAIN op' = Handlers /\ op' = [g \in Handlers |-> op'[g]]
  BY <1>1
<1>3. /\ op'[h] \in Op /\ op'[h].stage = "listed" /\ op'[h].list = l
      /\ op'[h].kind = op[h].kind /\ op'[h].subject = op[h].subject
      /\ op'[h].purposes = op[h].purposes /\ op'[h].id = op[h].id
      /\ op'[h].row = op[h].row
  BY <1>1, <1>2 DEF Op, InFlight
<1>4. op' \in [Handlers -> Op \cup {Unused, Ended}]
  BY <1>1, <1>2, <1>3
<1>5. Running' = Running
  BY <1>1, <1>2, <1>3 DEF Running, InFlight, Op
<1> QED BY <1>2, <1>3, <1>4, <1>5

LEMMA Finished ==
  ASSUME op \in [Handlers -> Op \cup {Unused, Ended}], NEW h \in Running,
         op' = [op EXCEPT ![h] = Ended]
  PROVE  /\ op' \in [Handlers -> Op \cup {Unused, Ended}]
         /\ op'[h] = Ended /\ \A g \in Handlers \ {h} : op'[g] = op[g]
         /\ Running' = Running \ {h}
<1>1. h \in Handlers
  BY DEF Running
<1>2. op' \in [Handlers -> Op \cup {Unused, Ended}]
  BY <1>1
<1>3. op'[h] = Ended /\ \A g \in Handlers \ {h} : op'[g] = op[g]
  BY <1>1
<1>4. Ended.stage \notin InFlight
  BY DEF Ended, InFlight
<1> QED BY <1>1, <1>2, <1>3, <1>4 DEF Running

------------------------------------------------------------------------------
(* Typing *)

LEMMA StartTyping ==
  ASSUME TInv, NEW h \in Handlers, NEW call \in Op, Send(h, call),
         call.stage = "sent", call.kind = "add" => ~isSubmitting,
         call.kind = "add" => call.row \in Tag,
         call.kind \in {"update", "remove"} => call.id \in TagIds,
         call.kind = "update" => call.value \in Values /\ call.id \in DOMAIN call.list
  PROVE  /\ op' \in [Handlers -> Op \cup {Unused, Ended}]
         /\ CallsMadeWell' /\ OneAdd'
         /\ (\E g \in Handlers : Adding(g))' = (isSubmitting \/ call.kind = "add")
<1>1. op \in [Handlers -> Op \cup {Unused, Ended}] /\ CallsMadeWell /\ OneAdd
      /\ isSubmitting = (\E g \in Handlers : Adding(g))
  BY DEF TInv, TypeOK
<1>2. /\ op' \in [Handlers -> Op \cup {Unused, Ended}]
      /\ op'[h] = call /\ \A g \in Handlers \ {h} : op'[g] = op[g]
      /\ h \notin Running /\ Running' = Running \cup {h}
  BY <1>1, Started
<1>3. CallsMadeWell'
  BY <1>1, <1>2 DEF CallsMadeWell, Running
<1>4. \A g \in Handlers : Adding(g)' <=> IF g = h THEN call.kind = "add" ELSE Adding(g)
  BY <1>2 DEF Adding
<1>5. OneAdd' /\ (\E g \in Handlers : Adding(g))' = (isSubmitting \/ call.kind = "add")
  <2>1. ~Adding(h)
    BY <1>2 DEF Adding
  <2>2. OneAdd'
    BY <1>1, <1>4, <2>1 DEF OneAdd
  <2>3. (\E g \in Handlers : Adding(g)') <=> ((\E g \in Handlers : Adding(g)) \/ call.kind = "add")
    BY <1>4, <2>1
  <2> QED BY <1>1, <2>2, <2>3
<1> QED BY <1>2, <1>3, <1>5

LEMMA MoveTyping ==
  ASSUME TInv, NEW h \in Running, NEW stage \in InFlight, MoveTo(h, stage),
         op[h].kind = "update" => stage = "failed"
  PROVE  /\ op' \in [Handlers -> Op \cup {Unused, Ended}]
         /\ CallsMadeWell' /\ OneAdd'
         /\ (\E g \in Handlers : Adding(g))' = isSubmitting
<1>1. op \in [Handlers -> Op \cup {Unused, Ended}] /\ CallsMadeWell /\ OneAdd
      /\ isSubmitting = (\E g \in Handlers : Adding(g))
  BY DEF TInv, TypeOK
<1>2. /\ op' \in [Handlers -> Op \cup {Unused, Ended}]
      /\ \A g \in Handlers \ {h} : op'[g] = op[g]
      /\ Running' = Running
      /\ op'[h].stage = stage /\ op'[h].kind = op[h].kind
      /\ op'[h].id = op[h].id /\ op'[h].row = op[h].row
      /\ op'[h].value = op[h].value /\ op'[h].list = op[h].list
  BY <1>1, Moved
<1>3. CallsMadeWell'
  BY <1>1, <1>2 DEF CallsMadeWell, Running
<1>4. \A g \in Handlers : Adding(g)' <=> Adding(g)
  BY <1>2 DEF Adding
<1> QED BY <1>1, <1>2, <1>3, <1>4 DEF OneAdd

LEMMA ReplyTyping ==
  ASSUME TInv, NEW h \in Running, NEW row \in Tag \cup {NoTag}, op[h].stage = "sent",
         op[h].kind # "remove" => row \in Tag,
         op' = [op EXCEPT ![h].stage = "served", ![h].row = row]
  PROVE  /\ op' \in [Handlers -> Op \cup {Unused, Ended}]
         /\ CallsMadeWell' /\ OneAdd'
         /\ (\E g \in Handlers : Adding(g))' = isSubmitting
<1>1. op \in [Handlers -> Op \cup {Unused, Ended}] /\ CallsMadeWell /\ OneAdd
      /\ isSubmitting = (\E g \in Handlers : Adding(g))
  BY DEF TInv, TypeOK
<1>2. /\ op' \in [Handlers -> Op \cup {Unused, Ended}]
      /\ \A g \in Handlers \ {h} : op'[g] = op[g]
      /\ Running' = Running
      /\ op'[h].stage = "served" /\ op'[h].row = row /\ op'[h].kind = op[h].kind
      /\ op'[h].id = op[h].id /\ op'[h].value = op[h].value /\ op'[h].list = op[h].list
  BY <1>1, Replied
<1>3. CallsMadeWell'
  BY <1>1, <1>2 DEF CallsMadeWell, Running
<1>4. \A g \in Handlers : Adding(g)' <=> Adding(g)
  BY <1>2 DEF Adding
<1> QED BY <1>1, <1>2, <1>3, <1>4 DEF OneAdd

LEMMA TakeTyping ==
  ASSUME TInv, NEW h \in Running, NEW l \in Lists, op[h].stage = "asked",
         op' = [op EXCEPT ![h].stage = "listed", ![h].list = l]
  PROVE  /\ op' \in [Handlers -> Op \cup {Unused, Ended}]
         /\ CallsMadeWell' /\ OneAdd'
         /\ (\E g \in Handlers : Adding(g))' = isSubmitting
<1>1. op \in [Handlers -> Op \cup {Unused, Ended}] /\ CallsMadeWell /\ OneAdd
      /\ isSubmitting = (\E g \in Handlers : Adding(g))
  BY DEF TInv, TypeOK
<1>2. /\ op' \in [Handlers -> Op \cup {Unused, Ended}]
      /\ \A g \in Handlers \ {h} : op'[g] = op[g]
      /\ Running' = Running
      /\ op'[h].stage = "listed" /\ op'[h].kind = op[h].kind
      /\ op'[h].id = op[h].id /\ op'[h].row = op[h].row
  BY <1>1, Took
<1>3. CallsMadeWell'
  <2>1. op[h].kind # "update"
    BY <1>1 DEF CallsMadeWell
  <2> QED BY <1>1, <1>2, <2>1 DEF CallsMadeWell, Running
<1>4. \A g \in Handlers : Adding(g)' <=> Adding(g)
  BY <1>2 DEF Adding
<1> QED BY <1>1, <1>2, <1>3, <1>4 DEF OneAdd

LEMMA EndTyping ==
  ASSUME TInv, NEW h \in Running, op' = [op EXCEPT ![h] = Ended]
  PROVE  /\ op' \in [Handlers -> Op \cup {Unused, Ended}]
         /\ CallsMadeWell' /\ OneAdd'
         /\ (\E g \in Handlers : Adding(g))' = (isSubmitting /\ op[h].kind # "add")
<1>1. op \in [Handlers -> Op \cup {Unused, Ended}] /\ CallsMadeWell /\ OneAdd
      /\ isSubmitting = (\E g \in Handlers : Adding(g))
  BY DEF TInv, TypeOK
<1>2. /\ op' \in [Handlers -> Op \cup {Unused, Ended}]
      /\ \A g \in Handlers \ {h} : op'[g] = op[g]
      /\ Running' = Running \ {h}
  BY <1>1, Finished
<1>3. CallsMadeWell'
  BY <1>1, <1>2 DEF CallsMadeWell, Running
<1>4. \A g \in Handlers : Adding(g)' <=> (g # h /\ Adding(g))
  BY <1>2 DEF Adding
<1>5. OneAdd'
  BY <1>1, <1>4 DEF OneAdd
<1>6. (\E g \in Handlers : Adding(g)') <=> (isSubmitting /\ op[h].kind # "add")
  <2>1. h \in Handlers /\ (op[h].kind = "add" <=> Adding(h))
    BY DEF Adding, Running
  <2> QED BY <1>1, <1>4, <2>1 DEF OneAdd
<1> QED BY <1>2, <1>3, <1>5, <1>6

LEMMA ResetShape ==
  ASSUME NEW ps \in PurposeSets, NEW old \in Purposes \cup {NoPurpose}
  PROVE  /\ ResetPurpose(ps, old) \in Purposes \cup {NoPurpose}
         /\ Cardinality(ps) = 1 => (CHOOSE p \in ps : TRUE) \in Purposes
<1>1. ps \subseteq Purposes
  BY PurposeSetsAssumption
<1>2. Cardinality(ps) = 1 => ps # {}
  BY FS_EmptySet
<1>3. ASSUME ps # {} PROVE (CHOOSE p \in ps : TRUE) \in Purposes
  BY <1>1, <1>3
<1> QED BY <1>2, <1>3 DEF ResetPurpose

LEMMA TypingInit == Init => TInv
<1> SUFFICES ASSUME Init PROVE TInv
  OBVIOUS
<1> USE DEF Init, ListInit
<1>1. server \in [TagIds -> Tag \cup {NoTag}]
  BY SeedAssumption
<1>2. fetch \in [Renders -> Fetch]
  <2>1. Asked(subject, purposes) \in Fetch
        /\ [Asked(subject, purposes) EXCEPT !.status = "none"] \in Fetch
    BY NoListIsList DEF Asked, Fetch
  <2> QED BY <2>1
<1>3. Running = {}
  BY DEF Running, Unused, InFlight
<1>4. ListTypeOK
  <2>1. tags \in Lists
    BY NoListIsList
  <2>2. render \in Renders
    BY MaxRendersAssumption DEF Renders
  <2>3. subject \in Subjects /\ purposes \in PurposeSets
        /\ loadState = "loading" /\ loadError = FALSE
    OBVIOUS
  <2>4. stored \subseteq TagIds \X Tag
    BY SeedAssumption
  <2> HIDE DEF Init, ListInit
  <2> QED BY <1>1, <1>2, <2>1, <2>2, <2>3, <2>4 DEF ListTypeOK
<1>5. addPurpose \in Purposes \cup {NoPurpose}
  BY ResetShape
<1>6. TypeOK
  BY <1>3, <1>4, <1>5 DEF TypeOK, Adding
<1> QED BY <1>3, <1>6 DEF TInv, CallsMadeWell, OneAdd, Adding

\* What the effect and the host do keeps every type.
LEMMA TypingLoad ==
  ASSUME TInv, NEW n \in Renders, Load(n)
  PROVE  TInv'
<1>1. ListTypeOK /\ fetch \in [Renders -> Fetch] /\ NoList \in Lists
  BY NoListIsList DEF TInv, TypeOK, ListTypeOK
<1>2. ListTypeOK'
  <2>1. CASE AnswerFetch(n)
    <3>1. Listed(fetch[n].subject, fetch[n].purposes) \in Lists
      BY <1>1, ListedShape DEF ListTypeOK
    <3>2. fetch' \in [Renders -> Fetch]
      BY <1>1, <2>1, <3>1 DEF AnswerFetch, Fetch
    <3> QED BY <1>1, <2>1, <3>2 DEF AnswerFetch, ListTypeOK
  <2>2. CASE DeliverFetch(n)
    <3>1. fetch' \in [Renders -> Fetch]
      BY <1>1, <2>2 DEF DeliverFetch, DropFetch, ShowFetch, FailFetch, Settle, Fetch
    <3>2. fetch[n].list \in Lists
      BY <1>1 DEF Fetch
    <3> QED BY <1>1, <2>2, <3>1, <3>2
            DEF DeliverFetch, DropFetch, ShowFetch, FailFetch, ListTypeOK
  <2> QED BY <2>1, <2>2 DEF Load
<1> QED BY <1>2 DEF TInv, TypeOK, CallsMadeWell, OneAdd, Adding, Running, Load, formVars

LEMMA TypingHost ==
  ASSUME TInv, ChangeProps
  PROVE  TInv'
<1>1. PICK s \in Subjects, ps \in PurposeSets :
        /\ SetProps(s, ps)
        /\ addPurpose' = IF ps = purposes THEN addPurpose ELSE ResetPurpose(ps, addPurpose)
        /\ undisturbed' = Quiet
        /\ UNCHANGED <<isSubmitting, formError, op>>
  BY DEF ChangeProps
<1>2. ListTypeOK /\ fetch \in [Renders -> Fetch] /\ render \in 1..MaxRenders
  BY DEF TInv, TypeOK, ListTypeOK, Renders
<1>3. Asked(s, ps) \in Fetch
  BY NoListIsList DEF Asked, Fetch
<1>4. fetch' \in [Renders -> Fetch] /\ render' \in Renders
  BY <1>1, <1>2, <1>3, MaxRendersAssumption DEF SetProps, Renders
<1>5. ListTypeOK'
  BY <1>1, <1>2, <1>4 DEF SetProps, ListTypeOK
<1>6. addPurpose' \in Purposes \cup {NoPurpose}
  BY <1>1, ResetShape DEF TInv, TypeOK
<1>7. undisturbed' \in BOOLEAN
  BY <1>1 DEF Quiet
<1> QED BY <1>1, <1>5, <1>6, <1>7 DEF TInv, TypeOK, CallsMadeWell, OneAdd, Adding, Running

LEMMA TypingClick ==
  ASSUME TInv, NEW h \in Handlers, Click(h)
  PROVE  TInv'
<1>1. TypeOK /\ op \in [Handlers -> Op \cup {Unused, Ended}] /\ tags \in Lists
  BY DEF TInv, TypeOK, ListTypeOK
<1>2. tags \in [DOMAIN tags -> Tag] /\ DOMAIN tags \in SUBSET TagIds
  BY <1>1, ListShape
<1>3. undisturbed' \in BOOLEAN
  BY <1>1 DEF Click, StartRemove, StartUpdate, StartAdd, Send, TypeOK, Quiet
<1>4. CASE \E t \in TagIds : StartRemove(h, t)
  <2>1. PICK t \in TagIds : StartRemove(h, t)
    BY <1>4
  <2> DEFINE call == Call("remove", t, NoTag, NoTag)
  <2>2. call \in Op /\ call.stage = "sent" /\ call.kind = "remove" /\ call.id = t
    BY <1>1, CallShape
  <2>3. Send(h, call)
    BY <2>1 DEF StartRemove
  <2> HIDE DEF call
  <2>4. /\ op' \in [Handlers -> Op \cup {Unused, Ended}]
        /\ CallsMadeWell' /\ OneAdd'
        /\ (\E g \in Handlers : Adding(g))' = (isSubmitting \/ call.kind = "add")
    BY <2>2, <2>3, StartTyping
  <2> QED BY <1>1, <1>3, <2>1, <2>2, <2>4
          DEF StartRemove, TInv, TypeOK, ListTypeOK, listVars, formVars
<1>5. CASE \E t \in TagIds, v \in Values : StartUpdate(h, t, v)
  <2>1. PICK t \in TagIds, v \in Values : StartUpdate(h, t, v)
    BY <1>5
  <2> DEFINE call == Call("update", t, NoTag, v)
  <2>2. t \in DOMAIN tags /\ Send(h, call)
    BY <2>1 DEF StartUpdate
  <2>3. /\ call \in Op /\ call.stage = "sent" /\ call.kind = "update" /\ call.id = t
        /\ call.value = v /\ call.list = tags
    BY <1>1, CallShape
  <2> HIDE DEF call
  <2>4. /\ op' \in [Handlers -> Op \cup {Unused, Ended}]
        /\ CallsMadeWell' /\ OneAdd'
        /\ (\E g \in Handlers : Adding(g))' = (isSubmitting \/ call.kind = "add")
    BY <2>2, <2>3, StartTyping
  <2> QED BY <1>1, <1>3, <2>1, <2>3, <2>4
          DEF StartUpdate, TInv, TypeOK, ListTypeOK, listVars, formVars
<1>6. CASE \E v \in Values : StartAdd(h, v)
  <2>1. PICK v \in Values : StartAdd(h, v)
    BY <1>6
  <2> DEFINE row == TagOf(subject, PurposeToSubmit, v)
  <2> DEFINE call == Call("add", NoTag, row, NoTag)
  <2>2. PurposeToSubmit \in Purposes
    BY <1>1, <2>1, ResetShape DEF StartAdd, PurposeToSubmit, TypeOK, ListTypeOK
  <2>3. row \in Tag
    BY <1>1, <2>2 DEF Tag, TagOf, TypeOK, ListTypeOK
  <2>4. Send(h, call) /\ ~isSubmitting
    BY <2>1 DEF StartAdd, CanSubmit
  <2> HIDE DEF row
  <2>5. call \in Op /\ call.stage = "sent" /\ call.kind = "add" /\ call.row = row
    BY <1>1, <2>3, CallShape
  <2> HIDE DEF call
  <2>6. /\ op' \in [Handlers -> Op \cup {Unused, Ended}]
        /\ CallsMadeWell' /\ OneAdd'
        /\ (\E g \in Handlers : Adding(g))' = (isSubmitting \/ call.kind = "add")
    BY <2>3, <2>4, <2>5, StartTyping
  <2> QED BY <1>1, <1>3, <2>1, <2>5, <2>6
          DEF StartAdd, TInv, TypeOK, ListTypeOK, listVars
<1> QED BY <1>4, <1>5, <1>6 DEF Click

\* What a call that is served stores is a tag, under an id there is.
LEMMA ServedShape ==
  ASSUME TInv, NEW h \in Running, op[h].kind = "add" => FreshIds # {},
         Acceptable(op[h])
  PROVE  /\ Target(op[h]) \in TagIds
         /\ op[h].kind \in {"add", "remove", "update"}
         /\ op[h].kind # "remove" => After(op[h]) \in Tag
         /\ After(op[h]) \in Tag \cup {NoTag}
<1>1. /\ op[h] \in Op
      /\ op[h].kind = "add" => op[h].row \in Tag
      /\ op[h].kind = "update" => op[h].value \in Values
      /\ op[h].kind \in {"update", "remove"} => op[h].id \in TagIds
  BY RunningOps DEF TInv, TypeOK, CallsMadeWell, Running
<1>2. op[h].kind \in {"add", "remove", "update"}
  BY <1>1 DEF Op
<1>3. op[h].kind = "add" => (CHOOSE t \in FreshIds : TRUE) \in TagIds
  BY DEF FreshIds
<1>4. Target(op[h]) \in TagIds
  BY <1>1, <1>2, <1>3 DEF Target
<1>5. ASSUME op[h].kind = "update" PROVE After(op[h]) \in Tag
  <2>1. server[op[h].id] \in Tag
    BY <1>1, <1>5 DEF Acceptable, TInv, TypeOK, ListTypeOK
  <2>2. [server[op[h].id] EXCEPT !.value = op[h].value] \in Tag
    BY <1>1, <1>5, <2>1 DEF Tag
  <2> QED BY <1>5, <2>2 DEF After
<1>6. /\ op[h].kind = "add" => After(op[h]) \in Tag
      /\ op[h].kind = "remove" => After(op[h]) = NoTag
  BY <1>1 DEF After
<1> QED BY <1>2, <1>4, <1>5, <1>6

\* What the service stores stays a set of tags.
LEMMA AppliedShape ==
  ASSUME TInv, NEW h \in Running, op[h].kind = "add" => FreshIds # {},
         Acceptable(op[h])
  PROVE  /\ Applied(op[h]) \in [TagIds -> Tag \cup {NoTag}]
         /\ \A t \in TagIds : Applied(op[h])[t] =
              IF t = Target(op[h]) THEN After(op[h]) ELSE server[t]
<1>1. server \in [TagIds -> Tag \cup {NoTag}]
  BY DEF TInv, TypeOK, ListTypeOK
<1> QED BY <1>1, ServedShape DEF Applied

LEMMA MergedShape ==
  ASSUME TInv, NEW h \in Running, op[h].kind = "update", op[h].stage = "served"
  PROVE  Merged(op[h]) \in Lists
<1>1. op[h].list \in Lists /\ op[h].row \in Tag
  BY RunningOps DEF TInv, TypeOK, CallsMadeWell, Running, Op
<1>2. op[h].list \in [DOMAIN op[h].list -> Tag] /\ DOMAIN op[h].list \in SUBSET TagIds
  BY <1>1, ListShape
<1>3. /\ Merged(op[h]) \in [DOMAIN Merged(op[h]) -> Tag]
      /\ DOMAIN Merged(op[h]) \in SUBSET TagIds
  BY <1>1, <1>2 DEF Merged
<1> QED BY <1>3, ListShape

\* A handler takes a step only while it runs.
LEMMA ProceedRuns ==
  ASSUME NEW h \in Handlers, Proceed(h)
  PROVE  h \in Running
BY DEF Proceed, Serve, Refuse, FinishUpdate, FailChip, FailAdd, Refetch, AnswerRefetch,
       ShowRefetch, FailRefetch, Running, InFlight

LEMMA TypingProceed ==
  ASSUME TInv, NEW h \in Handlers, Proceed(h)
  PROVE  TInv'
<1> USE ProceedRuns
<1>1. TypeOK /\ ListTypeOK /\ h \in Running /\ op[h] \in Op
  BY RunningOps DEF TInv, TypeOK
<1>2. /\ CallsMadeWell
      /\ op[h].kind \in {"add", "remove", "update"} /\ op[h].list \in Lists
      /\ op[h].kind = "update" => op[h].stage \in {"sent", "served", "failed"}
  BY <1>1 DEF Op, TInv, CallsMadeWell
<1>3. \A stage \in {"served", "failed", "asked", "listed", "unlisted"} : stage \in InFlight
  BY DEF InFlight
<1>4. CASE Serve(h)
  <2>1. /\ Target(op[h]) \in TagIds /\ After(op[h]) \in Tag \cup {NoTag}
        /\ op[h].kind # "remove" => After(op[h]) \in Tag
        /\ Applied(op[h]) \in [TagIds -> Tag \cup {NoTag}]
    BY <1>1, <1>4, AppliedShape, ServedShape DEF Serve
  <2>2. /\ op' \in [Handlers -> Op \cup {Unused, Ended}]
        /\ CallsMadeWell' /\ OneAdd'
        /\ (\E g \in Handlers : Adding(g))' = isSubmitting
    <3>1. CASE MoveTo(h, "failed")
      BY <1>1, <1>3, <3>1, MoveTyping
    <3>2. CASE op' = [op EXCEPT ![h].stage = "served", ![h].row = After(op[h])]
      <4> DEFINE row == After(op[h])
      <4>1. op[h].stage = "sent"
        BY <1>4 DEF Serve
      <4> HIDE DEF row
      <4>2. op' = [op EXCEPT ![h].stage = "served", ![h].row = row]
            /\ row \in Tag \cup {NoTag} /\ (op[h].kind # "remove" => row \in Tag)
        BY <2>1, <3>2 DEF row
      <4> QED BY <1>1, <4>1, <4>2, ReplyTyping
    <3> QED BY <1>4, <3>1, <3>2 DEF Serve
  <2>3. server' \in [TagIds -> Tag \cup {NoTag}] /\ stored' \subseteq TagIds \X Tag
    BY <1>1, <1>4, <2>1 DEF Serve, ListTypeOK
  <2>4. UNCHANGED <<render, subject, purposes, tags, loadState, loadError, fetch, formVars>>
        /\ undisturbed' \in BOOLEAN
    BY <1>1, <1>4 DEF Serve, TypeOK
  <2> QED BY <1>1, <2>2, <2>3, <2>4 DEF TInv, TypeOK, ListTypeOK, formVars
<1>5. CASE Refuse(h)
  <2>1. MoveTo(h, "failed")
    BY <1>5 DEF Refuse
  <2>2. /\ op' \in [Handlers -> Op \cup {Unused, Ended}]
        /\ CallsMadeWell' /\ OneAdd'
        /\ (\E g \in Handlers : Adding(g))' = isSubmitting
    BY <1>1, <1>3, <2>1, MoveTyping
  <2> QED BY <1>1, <1>5, <2>2 DEF Refuse, TInv, TypeOK, ListTypeOK, listVars, formVars
<1>6. CASE Refetch(h)
  <2>1. MoveTo(h, "asked") /\ op[h].kind # "update"
    BY <1>6 DEF Refetch
  <2>2. /\ op' \in [Handlers -> Op \cup {Unused, Ended}]
        /\ CallsMadeWell' /\ OneAdd'
        /\ (\E g \in Handlers : Adding(g))' = isSubmitting
    BY <1>1, <1>3, <2>1, MoveTyping
  <2> QED BY <1>1, <1>6, <2>2 DEF Refetch, TInv, TypeOK, ListTypeOK
<1>7. CASE AnswerRefetch(h)
  <2>1. Listed(op[h].subject, op[h].purposes) \in Lists
    BY <1>1, ListedShape DEF ListTypeOK
  <2>2. op[h].kind # "update" /\ op[h].stage = "asked"
    BY <1>2, <1>7 DEF AnswerRefetch
  <2>3. /\ op' \in [Handlers -> Op \cup {Unused, Ended}]
        /\ CallsMadeWell' /\ OneAdd'
        /\ (\E g \in Handlers : Adding(g))' = isSubmitting
    <3>1. CASE MoveTo(h, "unlisted")
      BY <1>1, <1>3, <2>2, <3>1, MoveTyping
    <3>2. CASE op' = [op EXCEPT ![h].stage = "listed",
                                ![h].list = Listed(op[h].subject, op[h].purposes)]
      BY <1>1, <2>1, <2>2, <3>2, TakeTyping
    <3> QED BY <1>7, <3>1, <3>2 DEF AnswerRefetch
  <2> QED BY <1>1, <1>7, <2>3 DEF AnswerRefetch, TInv, TypeOK, ListTypeOK, listVars, formVars
<1>8. CASE FinishUpdate(h) \/ FailChip(h) \/ FailAdd(h) \/ ShowRefetch(h) \/ FailRefetch(h)
  <2>1. op' = [op EXCEPT ![h] = Ended]
    BY <1>8 DEF FinishUpdate, FailChip, FailAdd, ShowRefetch, FailRefetch
  <2>2. /\ op' \in [Handlers -> Op \cup {Unused, Ended}]
        /\ CallsMadeWell' /\ OneAdd'
        /\ (\E g \in Handlers : Adding(g))' = (isSubmitting /\ op[h].kind # "add")
    BY <1>1, <2>1, EndTyping
  <2>3. isSubmitting' = (isSubmitting /\ op[h].kind # "add")
    BY <1>1, <1>8 DEF FinishUpdate, FailChip, FailAdd, ShowRefetch, FailRefetch, formVars,
                      TypeOK
  <2>4. tags' \in Lists
    BY <1>1, <1>2, <1>8, MergedShape
       DEF FinishUpdate, FailChip, FailAdd, ShowRefetch, FailRefetch, listVars, ListTypeOK
  <2>5. ListTypeOK'
    BY <1>1, <1>8, <2>4
       DEF FinishUpdate, FailChip, FailAdd, ShowRefetch, FailRefetch, listVars, ListTypeOK
  <2>6. addPurpose' = addPurpose /\ formError' \in BOOLEAN /\ undisturbed' = undisturbed
    BY <1>1, <1>8
       DEF FinishUpdate, FailChip, FailAdd, ShowRefetch, FailRefetch, formVars, TypeOK
  <2> QED BY <1>1, <2>2, <2>3, <2>5, <2>6 DEF TInv, TypeOK
<1> QED BY <1>4, <1>5, <1>6, <1>7, <1>8 DEF Proceed

LEMMA TypingStep == TInv /\ [Next]_vars => TInv'
<1> SUFFICES ASSUME TInv, [Next]_vars PROVE TInv'
  OBVIOUS
<1>1. CASE ChangeProps
  BY <1>1, TypingHost
<1>2. CASE \E n \in Renders : Load(n)
  BY <1>2, TypingLoad
<1>3. CASE \E p \in Purposes \cup {NoPurpose} : PickPurpose(p)
  BY <1>3 DEF PickPurpose, listVars, TInv, TypeOK, ListTypeOK, CallsMadeWell, OneAdd, Adding,
              Running
<1>4. CASE SubmitRefused
  BY <1>4 DEF SubmitRefused, listVars, TInv, TypeOK, ListTypeOK, CallsMadeWell, OneAdd,
              Adding, Running
<1>5. CASE \E h \in Handlers : Click(h) \/ Proceed(h)
  BY <1>5, TypingClick, TypingProceed
<1>6. CASE UNCHANGED vars
  BY <1>6 DEF vars, listVars, formVars, TInv, TypeOK, ListTypeOK, CallsMadeWell, OneAdd,
              Adding, Running
<1> QED BY <1>1, <1>2, <1>3, <1>4, <1>5, <1>6 DEF Next, Rest

\* Every variable keeps its type, the Add button is disabled for exactly as long
\* as an add runs, and an error state has an error to show: whatever path the
\* submit and fetch handlers take, they leave the form as they found it.
THEOREM EditorTypeCorrect == Spec => []TypeOK
<1>1. TInv => TypeOK
  BY DEF TInv
<1> QED BY <1>1, TypingInit, TypingStep, PTL DEF Spec

------------------------------------------------------------------------------
(* What the effect shows *)

LEMMA EffectInit == Init => FetchOwn
<1> SUFFICES ASSUME Init PROVE FetchOwn
  OBVIOUS
<1>1. 1 \in Renders
  BY MaxRendersAssumption DEF Renders
<1>2. \A n \in Renders : fetch[n].list = NoList
  BY DEF Init, ListInit, Asked
<1>3. fetch[render].subject = subject /\ fetch[render].purposes = purposes
  BY <1>1 DEF Init, ListInit, Asked
<1> QED BY <1>2, <1>3, NoListIsList DEF FetchOwn

LEMMA EffectStep == TInv /\ FetchOwn /\ [Next]_vars => FetchOwn'
<1> SUFFICES ASSUME TInv, FetchOwn, [Next]_vars PROVE FetchOwn'
  OBVIOUS
<1>1. /\ fetch \in [Renders -> Fetch] /\ render \in Renders
      /\ server \in [TagIds -> Tag \cup {NoTag}]
  BY DEF TInv, TypeOK, ListTypeOK
<1>2. CASE ChangeProps
  <2>1. PICK s \in Subjects, ps \in PurposeSets : SetProps(s, ps)
    BY <1>2 DEF ChangeProps
  <2>2. render + 1 \in Renders
    BY <1>1, <2>1, MaxRendersAssumption DEF SetProps, Renders
  <2>3. \A n \in Renders : fetch'[n] = IF n = render + 1 THEN Asked(s, ps) ELSE fetch[n]
    BY <1>1, <2>1 DEF SetProps
  <2>4. Asked(s, ps).subject = s /\ Asked(s, ps).purposes = ps /\ Asked(s, ps).list = NoList
    BY DEF Asked
  <2> QED BY <2>1, <2>2, <2>3, <2>4, NoListIsList DEF SetProps, FetchOwn
<1>3. ASSUME NEW n \in Renders, Load(n) PROVE FetchOwn'
  <2>1. UNCHANGED <<render, subject, purposes>>
    BY <1>3 DEF Load, AnswerFetch, DeliverFetch, DropFetch, ShowFetch, FailFetch
  <2>2. \A m \in Renders : /\ m # n => fetch'[m] = fetch[m]
                           /\ fetch'[m].subject = fetch[m].subject
                           /\ fetch'[m].purposes = fetch[m].purposes
    BY <1>1, <1>3
       DEF Load, AnswerFetch, DeliverFetch, DropFetch, ShowFetch, FailFetch, Settle, Fetch
  <2>3. fetch'[n].list \in {fetch[n].list, NoList,
                           Listed(fetch[n].subject, fetch[n].purposes)}
    BY <1>1, <1>3
       DEF Load, AnswerFetch, DeliverFetch, DropFetch, ShowFetch, FailFetch, Settle, Fetch
  <2>4. \A t \in DOMAIN fetch'[n].list :
          /\ fetch'[n].list[t].subject = fetch[n].subject
          /\ Allowed(fetch[n].purposes, fetch'[n].list[t].purpose)
    BY <1>1, <2>3, NoListIsList, ListedShape DEF FetchOwn
  <2> QED BY <1>1, <2>1, <2>2, <2>4 DEF FetchOwn, Allowed
<1>4. CASE UNCHANGED <<fetch, render, subject, purposes>>
  BY <1>4 DEF FetchOwn, Allowed
<1>5. CASE \E p \in Purposes \cup {NoPurpose} : PickPurpose(p)
  BY <1>4, <1>5 DEF PickPurpose, listVars
<1>6. CASE SubmitRefused
  BY <1>4, <1>6 DEF SubmitRefused, listVars
<1>7. CASE \E h \in Handlers : Click(h) \/ Proceed(h)
  BY <1>4, <1>7 DEF Click, StartRemove, StartUpdate, StartAdd, Proceed, Serve, Refuse,
       FinishUpdate, FailChip, FailAdd, Refetch, AnswerRefetch, ShowRefetch, FailRefetch,
       listVars
<1>8. CASE UNCHANGED vars
  BY <1>4, <1>8 DEF vars, listVars
<1> QED BY <1>2, <1>3, <1>5, <1>6, <1>7, <1>8 DEF Next, Rest

LEMMA EffectAction ==
  ASSUME TInv, FetchOwn, [Next]_vars, tags' # tags, UNCHANGED op,
         NEW t \in DOMAIN tags'
  PROVE  tags'[t].subject = subject /\ Allowed(purposes, tags'[t].purpose)
<1>1. CASE \E n \in Renders : Load(n)
  <2>1. PICK n \in Renders : Load(n)
    BY <1>1
  <2>2. ShowFetch(n)
    BY <2>1 DEF Load, AnswerFetch, DeliverFetch, DropFetch, FailFetch
  <2>3. n = render /\ tags' = fetch[n].list
    BY <2>2 DEF ShowFetch, Cancelled
  <2> QED BY <2>1, <2>3 DEF FetchOwn
<1>2. CASE \E h \in Handlers : Proceed(h)
  <2>1. PICK h \in Handlers : Proceed(h)
    BY <1>2
  <2>2. h \in Running /\ op \in [Handlers -> Op \cup {Unused, Ended}]
    BY <2>1, ProceedRuns DEF TInv, TypeOK
  <2>3. op' = [op EXCEPT ![h] = Ended]
    BY <2>1 DEF Proceed, Serve, Refuse, FinishUpdate, FailChip, FailAdd, Refetch,
                AnswerRefetch, ShowRefetch, FailRefetch, listVars
  <2>4. op'[h] = Ended /\ Running' = Running \ {h}
    BY <2>2, <2>3, Finished
  <2>5. Running' = Running
    BY DEF Running
  <2> QED BY <2>2, <2>4, <2>5
<1>3. CASE \E h \in Handlers : Click(h)
  BY <1>3 DEF Click, StartRemove, StartUpdate, StartAdd, listVars
<1> QED BY <1>1, <1>2, <1>3
        DEF Next, ChangeProps, SetProps, PickPurpose, SubmitRefused, Rest, vars, listVars

\* The effect never puts up a tag that the props in force do not ask for: the
\* answer to a cancelled fetch is dropped, however late it comes.
THEOREM EffectIsOwn == Spec => EffectShowsOwn
<1>1. Init => TInv /\ FetchOwn
  BY TypingInit, EffectInit
<1>2. TInv /\ FetchOwn /\ [Next]_vars => (TInv /\ FetchOwn)'
  BY TypingStep, EffectStep
<1>3. TInv /\ FetchOwn /\ [Next]_vars =>
        [tags' # tags /\ UNCHANGED op =>
           \A t \in DOMAIN tags' :
             tags'[t].subject = subject /\ Allowed(purposes, tags'[t].purpose)]_vars
  BY EffectAction
<1> QED BY <1>1, <1>2, <1>3, PTL DEF Spec, EffectShowsOwn

------------------------------------------------------------------------------
(* A list that is up to date *)

LEMMA CurrentInit == Init => Synchronised
<1> SUFFICES ASSUME Init PROVE Synchronised
  OBVIOUS
<1>1. 1 \in Renders
  BY MaxRendersAssumption DEF Renders
<1>2. fetch[render].status = "asked" /\ loadState = "loading"
  BY <1>1 DEF Init, ListInit, Asked
<1>3. Running = {}
  BY DEF Init, Running, Unused, InFlight
<1> QED BY <1>2, <1>3 DEF Synchronised

\* Merging the reply into the list it started from gives what the service now has.
LEMMA MergedIsListed ==
  ASSUME TInv, NEW h \in Running, op[h].kind = "update", Acceptable(op[h]),
         op[h].list = Listed(subject, purposes), server' = Applied(op[h]),
         UNCHANGED <<subject, purposes>>
  PROVE  [t \in DOMAIN op[h].list |->
            IF t = op[h].id THEN After(op[h]) ELSE op[h].list[t]]
           = Listed(subject, purposes)'
<1> DEFINE o == op[h]
           row == After(op[h])
<1>1. /\ o.id \in DOMAIN o.list /\ Target(o) = o.id /\ o.value \in Values
      /\ server \in [TagIds -> Tag \cup {NoTag}]
  BY DEF TInv, TypeOK, ListTypeOK, CallsMadeWell, Target
<1>2. o.id \in TagIds /\ row \in Tag /\ row # NoTag
  BY <1>1, ServedShape, NoTagAssumption
<1>3. \A t \in TagIds : server'[t] = IF t = o.id THEN row ELSE server[t]
  BY <1>1, AppliedShape
<1>4. /\ server[o.id] # NoTag /\ server[o.id].subject = subject
      /\ Allowed(purposes, server[o.id].purpose)
  BY <1>1 DEF Listed
<1>5. row.subject = server[o.id].subject /\ row.purpose = server[o.id].purpose
  <2>1. server[o.id] \in Tag
    BY <1>1, <1>2, <1>4
  <2>2. row = [server[o.id] EXCEPT !.value = o.value]
    BY DEF After
  <2> QED BY <2>1, <2>2 DEF Tag
<1> DEFINE Shown(t) == /\ server[t] # NoTag /\ server[t].subject = subject
                       /\ Allowed(purposes, server[t].purpose)
<1> DEFINE ids == {t \in TagIds : Shown(t)}
<1>6. o.list = [t \in ids |-> server[t]]
  BY DEF Listed
<1> HIDE DEF row
<1>7. \A t \in TagIds :
        Shown(t) <=> /\ server'[t] # NoTag /\ server'[t].subject = subject
                     /\ Allowed(purposes, server'[t].purpose)
  BY <1>2, <1>3, <1>4, <1>5
<1>8. Listed(subject, purposes)' = [t \in ids |-> server'[t]]
  BY <1>7 DEF Listed, Allowed
<1>9. [t \in DOMAIN o.list |-> IF t = o.id THEN row ELSE o.list[t]]
        = [t \in ids |-> IF t = o.id THEN row ELSE server[t]]
  BY <1>6
<1>10. [t \in ids |-> IF t = o.id THEN row ELSE server[t]] = [t \in ids |-> server'[t]]
  BY <1>3
<1> QED BY <1>8, <1>9, <1>10 DEF row

LEMMA SameList ==
  ASSUME UNCHANGED <<server, subject, purposes>>
  PROVE  Listed(subject, purposes)' = Listed(subject, purposes)
BY DEF Listed, Allowed

LEMMA CurrentHost ==
  ASSUME TInv, ChangeProps
  PROVE  Synchronised'
<1>1. PICK s \in Subjects, ps \in PurposeSets : SetProps(s, ps)
  BY DEF ChangeProps
<1>2. fetch \in [Renders -> Fetch] /\ render + 1 \in Renders
  BY <1>1, MaxRendersAssumption DEF SetProps, Renders, TInv, TypeOK, ListTypeOK
<1>3. fetch'[render'].status = "asked" /\ loadState' = "loading"
  BY <1>1, <1>2 DEF SetProps, Asked
<1>4. undisturbed' = Quiet /\ Running' = Running
  BY DEF ChangeProps, Running
<1> QED BY <1>3, <1>4 DEF Synchronised, Quiet

LEMMA CurrentLoad ==
  ASSUME TInv, FetchOwn, Synchronised, NEW n \in Renders, Load(n)
  PROVE  Synchronised'
<1> SUFFICES ASSUME undisturbed' PROVE Synchronised'
  BY DEF Synchronised
<1>1. /\ UNCHANGED <<server, render, subject, purposes, op, undisturbed>>
      /\ fetch \in [Renders -> Fetch] /\ render \in Renders
  BY DEF Load, AnswerFetch, DeliverFetch, DropFetch, ShowFetch, FailFetch, TInv, TypeOK,
         ListTypeOK
<1>2. /\ undisturbed /\ Running' = Running /\ Quiet' = Quiet
      /\ Listed(subject, purposes)' = Listed(subject, purposes)
  BY <1>1, SameList DEF Running, Quiet
<1>3. CASE n # render
  <2>1. fetch'[render'] = fetch[render] /\ UNCHANGED <<tags, loadState>>
    BY <1>1, <1>3 DEF Load, AnswerFetch, DeliverFetch, DropFetch, ShowFetch, FailFetch,
                      Settle, Cancelled
  <2>2. ASSUME NEW h \in Running PROVE RunsAlone(h) => RunsAlone(h)'
    BY <1>1, <1>2, <2>1 DEF RunsAlone, Merged
  <2> QED BY <1>2, <2>1, <2>2 DEF Synchronised
<1>4. CASE n = render
  <2>1. fetch[render].status # "none"
    BY <1>4 DEF Load, AnswerFetch, DeliverFetch, DropFetch, ShowFetch, FailFetch
  <2>2. Running = {} /\ loadState = "loading"
    BY <1>2, <2>1 DEF Synchronised, RunsAlone
  <2>3. CASE AnswerFetch(n)
    <3>1. /\ fetch'[render].status \in {"answered", "failed"} /\ loadState' = loadState
          /\ fetch'[render].status = "answered" =>
               fetch'[render].list = Listed(fetch[n].subject, fetch[n].purposes)
      BY <1>1, <1>4, <2>3 DEF AnswerFetch, Fetch
    <3>2. fetch[n].subject = subject /\ fetch[n].purposes = purposes
      BY <1>4 DEF FetchOwn
    <3> QED BY <1>1, <1>2, <2>2, <3>1, <3>2 DEF Synchronised
  <2>4. CASE DeliverFetch(n)
    <3>1. fetch'[render].status = "none"
      BY <1>1, <1>4, <2>4 DEF DeliverFetch, DropFetch, ShowFetch, FailFetch, Settle, Fetch
    <3>2. loadState' = "ready" => tags' = Listed(subject, purposes)
      BY <1>2, <1>4, <2>2, <2>4
         DEF DeliverFetch, DropFetch, ShowFetch, FailFetch, Cancelled, Synchronised
    <3> QED BY <1>1, <1>2, <2>2, <3>1, <3>2 DEF Synchronised
  <2> QED BY <2>3, <2>4 DEF Load
<1> QED BY <1>3, <1>4

LEMMA CurrentClick ==
  ASSUME TInv, Synchronised, NEW h \in Handlers, Click(h)
  PROVE  Synchronised'
<1> SUFFICES ASSUME undisturbed' PROVE Synchronised'
  BY DEF Synchronised
<1>1. PICK kind \in {"add", "remove", "update"}, id \in TagIds \cup {NoTag},
           row \in Tag \cup {NoTag}, value \in Values \cup {NoTag} :
             Send(h, Call(kind, id, row, value))
  <2>1. CASE \E t \in TagIds : StartRemove(h, t)
    BY <2>1 DEF StartRemove
  <2>2. CASE \E t \in TagIds, v \in Values : StartUpdate(h, t, v)
    BY <2>2 DEF StartUpdate
  <2>3. CASE \E v \in Values : StartAdd(h, v)
    <3>1. PICK v \in Values : StartAdd(h, v)
      BY <2>3
    <3>2. PurposeToSubmit \in Purposes /\ subject \in Subjects
      BY <3>1, ResetShape DEF StartAdd, PurposeToSubmit, TInv, TypeOK, ListTypeOK
    <3>3. TagOf(subject, PurposeToSubmit, v) \in Tag
      BY <3>2 DEF Tag, TagOf
    <3> QED BY <3>1, <3>3 DEF StartAdd
  <2> QED BY <2>1, <2>2, <2>3 DEF Click
<1> DEFINE call == Call(kind, id, row, value)
<1>2. /\ call \in Op /\ call.stage = "sent" /\ call.kind = kind
      /\ call.subject = subject /\ call.purposes = purposes
      /\ kind = "update" => call.list = tags
  BY CallShape DEF TInv
<1> HIDE DEF call
<1>3. Send(h, call)
  BY <1>1 DEF call
<1>4. op' \in [Handlers -> Op \cup {Unused, Ended}] /\ op'[h] = call
      /\ Running' = Running \cup {h}
  BY <1>2, <1>3, Started DEF TInv, TypeOK
<1>5. undisturbed /\ Running = {}
  BY <1>3 DEF Send, Quiet, TInv, TypeOK
<1>6. UNCHANGED listVars /\ loadState # "loading"
  BY DEF Click, StartRemove, StartUpdate, StartAdd, CanSubmit
<1>7. fetch[render].status = "none" /\ (loadState = "ready" => tags = Listed(subject, purposes))
  BY <1>5, <1>6 DEF Synchronised, Quiet
<1>8. Listed(subject, purposes)' = Listed(subject, purposes)
  BY <1>6, SameList DEF listVars
<1>9. RunsAlone(h)'
  BY <1>2, <1>4, <1>6, <1>7, <1>8 DEF RunsAlone, listVars
<1>10. fetch'[render'].status = "none"
  BY <1>6, <1>7 DEF listVars
<1> QED BY <1>4, <1>5, <1>9, <1>10 DEF Synchronised, Quiet

LEMMA CurrentProceed ==
  ASSUME TInv, Synchronised, NEW h \in Handlers, Proceed(h)
  PROVE  Synchronised'
<1> SUFFICES ASSUME undisturbed' PROVE Synchronised'
  BY DEF Synchronised
<1>1. /\ op \in [Handlers -> Op \cup {Unused, Ended}] /\ h \in Running
      /\ op[h].kind = "update" => op[h].stage \in {"sent", "served", "failed"}
  BY ProceedRuns DEF TInv, TypeOK, CallsMadeWell
<1>2. UNCHANGED <<render, subject, purposes, fetch, undisturbed>>
  BY DEF Proceed, Serve, Refuse, FinishUpdate, FailChip, FailAdd, Refetch, AnswerRefetch,
         ShowRefetch, FailRefetch, listVars
<1>3. Running = {h} /\ RunsAlone(h) /\ fetch[render].status = "none"
  BY <1>1, <1>2 DEF Synchronised, RunsAlone
<1>4. ASSUME Running' = {h}, RunsAlone(h)' PROVE Synchronised'
  BY <1>2, <1>3, <1>4 DEF Synchronised, Quiet
<1>5. \A stage \in {"served", "failed", "asked", "unlisted"} : stage \in InFlight
  BY DEF InFlight
<1>6. CASE Serve(h)
  <2> DEFINE row == After(op[h])
  <2>1. /\ op' = [op EXCEPT ![h].stage = "served", ![h].row = row]
        /\ op[h].stage = "sent" /\ server' = Applied(op[h])
        /\ Acceptable(op[h]) /\ (op[h].kind = "add" => FreshIds # {})
        /\ UNCHANGED <<tags, loadState>>
    BY <1>6 DEF Serve
  <2>2. row \in Tag \cup {NoTag}
    BY <1>1, <2>1, ServedShape
  <2>3. ASSUME op[h].kind = "update", loadState = "ready"
        PROVE  [t \in DOMAIN op[h].list |-> IF t = op[h].id THEN row ELSE op[h].list[t]]
                 = Listed(subject, purposes)'
    BY <1>1, <1>2, <1>3, <2>1, <2>3, MergedIsListed DEF RunsAlone
  <2> HIDE DEF row
  <2>4. /\ Running' = Running /\ op'[h].stage = "served" /\ op'[h].kind = op[h].kind
        /\ op'[h].subject = op[h].subject /\ op'[h].purposes = op[h].purposes
        /\ op'[h].id = op[h].id /\ op'[h].row = row /\ op'[h].list = op[h].list
    BY <1>1, <2>1, <2>2, Replied
  <2>5. Merged(op[h])' =
          [t \in DOMAIN op[h].list |-> IF t = op[h].id THEN row ELSE op[h].list[t]]
    BY <2>4 DEF Merged
  <2>6. RunsAlone(h)'
    BY <1>2, <1>3, <2>1, <2>3, <2>4, <2>5 DEF RunsAlone
  <2> QED BY <1>3, <1>4, <2>4, <2>6
<1>7. ASSUME UNCHANGED server PROVE Listed(subject, purposes)' = Listed(subject, purposes)
  BY <1>2, <1>7, SameList
<1>8. CASE Refuse(h)
  <2>1. MoveTo(h, "failed") /\ op[h].stage = "sent" /\ UNCHANGED <<server, tags, loadState>>
    BY <1>8 DEF Refuse, listVars
  <2>2. /\ Running' = Running /\ op'[h].stage = "failed"
        /\ op'[h].subject = op[h].subject /\ op'[h].purposes = op[h].purposes
    BY <1>1, <1>5, <2>1, Moved
  <2>3. RunsAlone(h)'
    BY <1>2, <1>3, <1>7, <2>1, <2>2 DEF RunsAlone
  <2> QED BY <1>3, <1>4, <2>2, <2>3
<1>9. CASE Refetch(h)
  <2>1. MoveTo(h, "asked") /\ loadState' = "loading"
    BY <1>9 DEF Refetch
  <2>2. /\ Running' = Running /\ op'[h].stage = "asked"
        /\ op'[h].subject = op[h].subject /\ op'[h].purposes = op[h].purposes
    BY <1>1, <1>5, <2>1, Moved
  <2>3. RunsAlone(h)'
    BY <1>2, <1>3, <2>1, <2>2 DEF RunsAlone
  <2> QED BY <1>3, <1>4, <2>2, <2>3
<1>10. CASE AnswerRefetch(h)
  <2> DEFINE l == Listed(op[h].subject, op[h].purposes)
  <2>1. op[h].stage = "asked" /\ UNCHANGED <<server, tags, loadState>>
    BY <1>10 DEF AnswerRefetch, listVars
  <2>2. l \in Lists /\ l = Listed(subject, purposes)
    BY <1>3, ListedShape DEF TInv, TypeOK, ListTypeOK, RunsAlone
  <2>3. /\ Running' = Running /\ op'[h].stage \in {"listed", "unlisted"}
        /\ op'[h].kind = op[h].kind
        /\ op'[h].subject = op[h].subject /\ op'[h].purposes = op[h].purposes
        /\ op'[h].stage = "listed" => op'[h].list = l
    <3>1. CASE MoveTo(h, "unlisted")
      BY <1>1, <1>5, <3>1, Moved
    <3>2. CASE op' = [op EXCEPT ![h].stage = "listed", ![h].list = l]
      <4> HIDE DEF l
      <4> QED BY <1>1, <2>2, <3>2, Took
    <3> QED BY <1>10, <3>1, <3>2 DEF AnswerRefetch
  <2>4. RunsAlone(h)'
    BY <1>2, <1>3, <1>7, <2>1, <2>2, <2>3 DEF RunsAlone
  <2> QED BY <1>3, <1>4, <2>3, <2>4
<1>11. CASE FinishUpdate(h) \/ FailChip(h) \/ FailAdd(h) \/ ShowRefetch(h) \/ FailRefetch(h)
  <2>1. op' = [op EXCEPT ![h] = Ended] /\ UNCHANGED server
    BY <1>11 DEF FinishUpdate, FailChip, FailAdd, ShowRefetch, FailRefetch, listVars
  <2>2. Running' = {}
    BY <1>1, <1>3, <2>1, Finished
  <2>3. loadState' = "ready" => tags' = Listed(subject, purposes)
    BY <1>3, <1>11
       DEF FinishUpdate, FailChip, FailAdd, ShowRefetch, FailRefetch, listVars, RunsAlone
  <2> QED BY <1>2, <1>3, <1>7, <2>1, <2>2, <2>3 DEF Synchronised
<1> QED BY <1>6, <1>8, <1>9, <1>10, <1>11 DEF Proceed

LEMMA CurrentStep == TInv /\ FetchOwn /\ Synchronised /\ [Next]_vars => Synchronised'
<1> SUFFICES ASSUME TInv, FetchOwn, Synchronised, [Next]_vars PROVE Synchronised'
  OBVIOUS
<1>1. CASE UNCHANGED <<listVars, op, undisturbed>>
  <2>1. Running' = Running /\ Listed(subject, purposes)' = Listed(subject, purposes)
    BY <1>1, SameList DEF Running, listVars
  <2>2. ASSUME NEW h \in Running PROVE RunsAlone(h) => RunsAlone(h)'
    BY <1>1, <2>1 DEF RunsAlone, Merged, listVars
  <2> QED BY <1>1, <2>1, <2>2 DEF Synchronised, Quiet, listVars
<1>2. CASE ChangeProps
  BY <1>2, CurrentHost
<1>3. CASE \E n \in Renders : Load(n)
  BY <1>3, CurrentLoad
<1>4. CASE (\E p \in Purposes \cup {NoPurpose} : PickPurpose(p)) \/ SubmitRefused \/ UNCHANGED vars
  BY <1>1, <1>4 DEF PickPurpose, SubmitRefused, vars
<1>5. CASE \E h \in Handlers : Click(h) \/ Proceed(h)
  BY <1>5, CurrentClick, CurrentProceed
<1> QED BY <1>2, <1>3, <1>4, <1>5 DEF Next, Rest

\* A user who does one thing at a time sees what the service has stored, for any
\* number of clicks and changes of props and whatever calls fail.
THEOREM UndisturbedIsCurrent == Spec => []CurrentIfUndisturbed
<1>1. Init => IInv
  BY TypingInit, EffectInit, CurrentInit DEF IInv
<1>2. IInv /\ [Next]_vars => IInv'
  BY TypingStep, EffectStep, CurrentStep DEF IInv
<1>3. IInv => CurrentIfUndisturbed
  BY DEF IInv, Synchronised, CurrentIfUndisturbed
<1> QED BY <1>1, <1>2, <1>3, PTL DEF Spec
------------------------------------------------------------------------------
(* What an editor that loads waits for *)

LEMMA LoadingInit == Init => NeverIdlyLoading
<1>1. 1 \in Renders
  BY MaxRendersAssumption DEF Renders
<1> QED BY <1>1 DEF Init, ListInit, Asked, NeverIdlyLoading

LEMMA LoadingStep == TInv /\ NeverIdlyLoading /\ [Next]_vars => NeverIdlyLoading'
<1> SUFFICES ASSUME TInv, NeverIdlyLoading, [Next]_vars, loadState' = "loading"
             PROVE  \/ fetch'[render'].status # "none"
                    \/ \E h \in Running' : op'[h].stage \in {"asked", "listed", "unlisted"}
  BY DEF NeverIdlyLoading
<1>1. /\ op \in [Handlers -> Op \cup {Unused, Ended}]
      /\ fetch \in [Renders -> Fetch] /\ render \in Renders
  BY DEF TInv, TypeOK, ListTypeOK
<1>2. CASE UNCHANGED <<loadState, fetch, render, op>>
  BY <1>2 DEF NeverIdlyLoading, Running
<1>3. CASE ChangeProps
  <2>1. PICK s \in Subjects, ps \in PurposeSets : SetProps(s, ps)
    BY <1>3 DEF ChangeProps
  <2>2. render + 1 \in Renders
    BY <2>1, <1>1, MaxRendersAssumption DEF SetProps, Renders
  <2> QED BY <1>1, <2>1, <2>2 DEF SetProps, Asked
<1>4. ASSUME NEW n \in Renders, Load(n)
      PROVE  \/ fetch'[render'].status # "none"
             \/ \E h \in Running' : op'[h].stage \in {"asked", "listed", "unlisted"}
  <2>1. UNCHANGED <<render, op>> /\ Running' = Running /\ ~ShowFetch(n) /\ ~FailFetch(n)
    BY <1>4 DEF Load, AnswerFetch, DeliverFetch, DropFetch, ShowFetch, FailFetch, Running
  <2>2. loadState = "loading"
    BY <1>4, <2>1 DEF Load, AnswerFetch, DeliverFetch, DropFetch
  <2>3. fetch[render].status # "none" => fetch'[render].status # "none"
    BY <1>1, <1>4, <2>1 DEF Load, AnswerFetch, DeliverFetch, DropFetch, Cancelled, Settle, Fetch
  <2> QED BY <2>1, <2>2, <2>3 DEF NeverIdlyLoading
<1>5. ASSUME NEW h \in Handlers, Click(h)
      PROVE  \/ fetch'[render'].status # "none"
             \/ \E g \in Running' : op'[g].stage \in {"asked", "listed", "unlisted"}
  BY <1>5 DEF Click, StartRemove, StartUpdate, StartAdd, CanSubmit, listVars
<1>6. ASSUME NEW h \in Handlers, Proceed(h)
      PROVE  \/ fetch'[render'].status # "none"
             \/ \E g \in Running' : op'[g].stage \in {"asked", "listed", "unlisted"}
  <2>1. h \in Running /\ UNCHANGED <<fetch, render>>
    BY <1>6, ProceedRuns DEF Proceed, Serve, Refuse, FinishUpdate, FailChip, FailAdd, Refetch,
                             AnswerRefetch, ShowRefetch, FailRefetch, listVars
  <2>2. CASE Refetch(h)
    <3>1. MoveTo(h, "asked")
      BY <2>2 DEF Refetch
    <3>2. op'[h].stage = "asked" /\ Running' = Running
      BY <1>1, <2>1, <3>1, Moved DEF InFlight
    <3> QED BY <2>1, <3>2
  <2>3. CASE AnswerRefetch(h)
    <3> DEFINE l == Listed(op[h].subject, op[h].purposes)
    <3>1. l \in Lists
      BY ListedShape DEF TInv, TypeOK, ListTypeOK
    <3>2. CASE MoveTo(h, "unlisted")
      BY <1>1, <2>1, <3>2, Moved DEF InFlight
    <3>3. CASE op' = [op EXCEPT ![h].stage = "listed", ![h].list = l]
      <4> HIDE DEF l
      <4> QED BY <1>1, <2>1, <3>1, <3>3, Took
    <3> QED BY <2>3, <3>2, <3>3 DEF AnswerRefetch
  <2>4. CASE ~Refetch(h) /\ ~AnswerRefetch(h)
    <3>1. /\ loadState = "loading"
          /\ op[h].stage \notin {"asked", "listed", "unlisted"}
      BY <1>6, <2>4 DEF Proceed, Serve, Refuse, FinishUpdate, FailChip, FailAdd, ShowRefetch,
                        FailRefetch, listVars
    <3>2. \A g \in Handlers \ {h} : op'[g] = op[g]
      BY <1>1, <1>6, <2>4 DEF Proceed, Serve, Refuse, MoveTo, FinishUpdate, FailChip, FailAdd,
                              ShowRefetch, FailRefetch
    <3>3. \A g \in Running : op[g].stage \in {"asked", "listed", "unlisted"} =>
            g \in Running' /\ op'[g] = op[g]
      BY <3>1, <3>2 DEF Running
    <3> QED BY <2>1, <3>1, <3>3 DEF NeverIdlyLoading
  <2> QED BY <2>2, <2>3, <2>4
<1>7. CASE (\E p \in Purposes \cup {NoPurpose} : PickPurpose(p)) \/ SubmitRefused \/ UNCHANGED vars
  BY <1>2, <1>7 DEF PickPurpose, SubmitRefused, vars, listVars
<1> QED BY <1>3, <1>4, <1>5, <1>6, <1>7 DEF Next, Rest

\* An editor that loads has a call outstanding that will end the loading, for any
\* number of overlapping handlers and cancelled fetches: the half of Responsive that
\* is a safety property.
THEOREM LoadingEnds == Spec => []NeverIdlyLoading
<1>1. Init => TInv /\ NeverIdlyLoading
  BY TypingInit, LoadingInit
<1>2. TInv /\ NeverIdlyLoading /\ [Next]_vars => (TInv /\ NeverIdlyLoading)'
  BY TypingStep, LoadingStep
<1> QED BY <1>1, <1>2, PTL DEF Spec

------------------------------------------------------------------------------
(* What was stored *)

WasStored(l) == \A t \in DOMAIN l : <<t, l[t]>> \in stored

\* What is stored is part of the history.
Kept == \A t \in TagIds : server[t] # NoTag => <<t, server[t]>> \in stored

\* Lists on the screen, on their way and in closures hold what was once stored.
Seen ==
  /\ WasStored(tags)
  /\ \A n \in Renders : WasStored(fetch[n].list)
  /\ \A h \in Running :
       /\ WasStored(op[h].list)
       /\ op[h].kind = "update" /\ op[h].stage = "served" =>
            <<op[h].id, op[h].row>> \in stored

Known == TInv /\ Kept /\ Seen

LEMMA KnownInit == Init => Kept /\ Seen
<1> SUFFICES ASSUME Init PROVE Kept /\ Seen
  OBVIOUS
<1>1. server = [t \in TagIds |-> IF t \in DOMAIN Seed THEN Seed[t] ELSE NoTag]
      /\ stored = {<<t, Seed[t]>> : t \in DOMAIN Seed}
  BY DEF Init, ListInit
<1>2. Kept
  BY <1>1, SeedAssumption DEF Kept
<1>3. Running = {}
  BY DEF Init, Running, Unused, InFlight
<1>4. tags = NoList /\ \A n \in Renders : fetch[n].list = NoList
  BY DEF Init, ListInit, Asked
<1> QED BY <1>2, <1>3, <1>4, NoListIsList DEF Seen, WasStored

\* The service answers what is stored.
LEMMA ListedWasStored ==
  ASSUME Kept, NEW s, NEW ps
  PROVE  WasStored(Listed(s, ps))
BY DEF Kept, WasStored, Listed

LEMMA KeptServe ==
  ASSUME Known, NEW h \in Running, Serve(h)
  PROVE  /\ Kept' /\ stored \subseteq stored'
         /\ op[h].kind # "remove" => <<Target(op[h]), After(op[h])>> \in stored'
<1>1. /\ Acceptable(op[h]) /\ (op[h].kind = "add" => FreshIds # {})
      /\ server' = Applied(op[h])
      /\ stored' = IF op[h].kind = "remove" THEN stored
                   ELSE stored \cup {<<Target(op[h]), After(op[h])>>}
  BY DEF Serve
<1>2. \A t \in TagIds :
        server'[t] = IF t = Target(op[h]) THEN After(op[h]) ELSE server[t]
  BY <1>1, AppliedShape DEF Known
<1>3. op[h].kind = "remove" => After(op[h]) = NoTag
  BY DEF After
<1>4. /\ stored \subseteq stored'
      /\ op[h].kind # "remove" => <<Target(op[h]), After(op[h])>> \in stored'
  BY <1>1
<1>5. \A t \in TagIds : server'[t] # NoTag => <<t, server'[t]>> \in stored'
  BY <1>2, <1>3, <1>4 DEF Known, Kept
<1> QED BY <1>4, <1>5 DEF Kept

LEMMA SeenLoad ==
  ASSUME Known, NEW n \in Renders, Load(n)
  PROVE  Seen'
<1>1. UNCHANGED <<server, stored, op>> /\ fetch \in [Renders -> Fetch]
  BY DEF Load, AnswerFetch, DeliverFetch, DropFetch, ShowFetch, FailFetch, Known, TInv,
         TypeOK, ListTypeOK
<1>2. \A m \in Renders : m # n => fetch'[m] = fetch[m]
  BY <1>1 DEF Load, AnswerFetch, DeliverFetch, DropFetch, ShowFetch, FailFetch, Settle
<1>3. fetch'[n].list \in {fetch[n].list, NoList,
                         Listed(fetch[n].subject, fetch[n].purposes)}
  BY <1>1 DEF Load, AnswerFetch, DeliverFetch, DropFetch, ShowFetch, FailFetch, Settle, Fetch
<1>4. tags' \in {tags, fetch[n].list}
  BY DEF Load, AnswerFetch, DeliverFetch, DropFetch, ShowFetch, FailFetch
<1>5. WasStored(NoList) /\ WasStored(Listed(fetch[n].subject, fetch[n].purposes))
  BY NoListIsList, ListedWasStored DEF WasStored, Known
<1>6. WasStored(tags') /\ \A m \in Renders : WasStored(fetch'[m].list)
  BY <1>2, <1>3, <1>4, <1>5 DEF Known, Seen
<1>7. Running' = Running
  BY <1>1 DEF Running
<1> QED BY <1>1, <1>6, <1>7 DEF Known, Seen, WasStored

LEMMA SeenClick ==
  ASSUME Known, NEW h \in Handlers, Click(h)
  PROVE  Seen'
<1>1. PICK kind, id, row, value : Send(h, Call(kind, id, row, value))
  BY DEF Click, StartRemove, StartUpdate, StartAdd
<1>2. UNCHANGED listVars
  BY DEF Click, StartRemove, StartUpdate, StartAdd
<1>3. /\ op' = [op EXCEPT ![h] = Call(kind, id, row, value)]
      /\ op \in [Handlers -> Op \cup {Unused, Ended}]
  BY <1>1 DEF Send, Known, TInv, TypeOK
<1>4. op'[h] = Call(kind, id, row, value) /\ \A g \in Handlers \ {h} : op'[g] = op[g]
  BY <1>3
<1>5. op'[h].stage = "sent" /\ op'[h].list \in {tags, NoList}
  BY <1>4 DEF Call
<1>6. WasStored(op'[h].list)
  BY <1>5, NoListIsList DEF Known, Seen, WasStored
<1>7. ASSUME NEW g \in Running'
      PROVE  /\ WasStored(op'[g].list)
             /\ op'[g].kind = "update" /\ op'[g].stage = "served" =>
                  <<op'[g].id, op'[g].row>> \in stored
  <2>1. CASE g = h
    BY <1>5, <1>6, <2>1
  <2>2. CASE g # h
    <3>1. g \in Running /\ op'[g] = op[g]
      BY <1>4, <2>2 DEF Running
    <3> QED BY <3>1 DEF Known, Seen
  <2> QED BY <2>1, <2>2
<1> QED BY <1>2, <1>7 DEF Known, Seen, WasStored, listVars

\* A step of a handler shows its list merged, or the one it fetched, or nothing new.
LEMMA SeenProceed ==
  ASSUME Known, NEW h \in Handlers, Proceed(h), stored \subseteq stored',
         Serve(h) /\ op[h].kind # "remove" => <<Target(op[h]), After(op[h])>> \in stored'
  PROVE  Seen'
<1>1. op \in [Handlers -> Op \cup {Unused, Ended}] /\ h \in Running /\ UNCHANGED fetch
  BY ProceedRuns
     DEF Known, TInv, TypeOK, Proceed, Serve, Refuse, FinishUpdate, FailChip, FailAdd, Refetch,
         AnswerRefetch, ShowRefetch, FailRefetch, listVars
<1>2. WasStored(op[h].list)
  BY <1>1 DEF Known, Seen
<1>3. WasStored(tags')
  <2>1. CASE FinishUpdate(h)
    <3>1. tags' = Merged(op[h]) /\ <<op[h].id, op[h].row>> \in stored
      BY <1>1, <2>1 DEF FinishUpdate, Known, Seen
    <3> QED BY <1>2, <3>1 DEF WasStored, Merged
  <2>2. CASE ShowRefetch(h)
    BY <1>2, <2>2 DEF ShowRefetch
  <2>3. CASE UNCHANGED tags
    BY <2>3 DEF Known, Seen, WasStored
  <2> QED BY <2>1, <2>2, <2>3
          DEF Proceed, Serve, Refuse, FailChip, FailAdd, Refetch, AnswerRefetch, FailRefetch,
              listVars
<1>4. /\ \A g \in Handlers \ {h} : op'[g] = op[g]
      /\ h \in Running' =>
           /\ WasStored(op'[h].list)
           /\ op'[h].kind = "update" /\ op'[h].stage = "served" =>
                <<op'[h].id, op'[h].row>> \in stored'
  <2>1. CASE Serve(h)
    <3> DEFINE row == After(op[h])
    <3>1. row \in Tag \cup {NoTag}
      BY <1>1, <2>1, ServedShape DEF Serve, Known
    <3>2. op[h].kind = "update" => <<op[h].id, row>> \in stored'
      BY <2>1 DEF Target
    <3>3. \/ MoveTo(h, "failed")
          \/ op' = [op EXCEPT ![h].stage = "served", ![h].row = row]
      BY <2>1 DEF Serve
    <3> HIDE DEF row
    <3>4. CASE MoveTo(h, "failed")
      <4>1. /\ \A g \in Handlers \ {h} : op'[g] = op[g]
            /\ op'[h].stage = "failed" /\ op'[h].list = op[h].list
        BY <1>1, <3>4, Moved DEF InFlight
      <4> QED BY <1>2, <4>1
    <3>5. CASE op' = [op EXCEPT ![h].stage = "served", ![h].row = row]
      <4>1. /\ \A g \in Handlers \ {h} : op'[g] = op[g]
            /\ op'[h].kind = op[h].kind /\ op'[h].id = op[h].id
            /\ op'[h].row = row /\ op'[h].list = op[h].list
        BY <1>1, <3>1, <3>5, Replied
      <4> QED BY <1>2, <3>2, <4>1
    <3> QED BY <3>3, <3>4, <3>5
  <2>2. CASE Refuse(h) \/ Refetch(h) \/ (AnswerRefetch(h) /\ MoveTo(h, "unlisted"))
    <3>1. PICK stage \in {"failed", "asked", "unlisted"} : MoveTo(h, stage)
      BY <2>2 DEF Refuse, Refetch
    <3>2. /\ \A g \in Handlers \ {h} : op'[g] = op[g]
          /\ op'[h].stage = stage /\ op'[h].list = op[h].list
      BY <1>1, <3>1, Moved DEF InFlight
    <3> QED BY <1>2, <3>2
  <2>3. CASE op' = [op EXCEPT ![h].stage = "listed",
                              ![h].list = Listed(op[h].subject, op[h].purposes)]
    <3> DEFINE l == Listed(op[h].subject, op[h].purposes)
    <3>1. l \in Lists /\ WasStored(l)
      BY ListedShape, ListedWasStored DEF Known, TInv, TypeOK, ListTypeOK
    <3> HIDE DEF l
    <3>2. op' = [op EXCEPT ![h].stage = "listed", ![h].list = l]
      BY <2>3 DEF l
    <3>3. /\ \A g \in Handlers \ {h} : op'[g] = op[g]
          /\ op'[h].stage = "listed" /\ op'[h].list = l
      BY <1>1, <3>1, <3>2, Took
    <3> QED BY <3>1, <3>3
  <2>4. CASE op' = [op EXCEPT ![h] = Ended]
    <3>1. Running' = Running \ {h} /\ \A g \in Handlers \ {h} : op'[g] = op[g]
      BY <1>1, <2>4, Finished
    <3> QED BY <3>1
  <2> QED BY <2>1, <2>2, <2>3, <2>4
          DEF Proceed, AnswerRefetch, FinishUpdate, FailChip, FailAdd, ShowRefetch, FailRefetch
<1>5. ASSUME NEW g \in Running'
      PROVE  /\ \A t \in DOMAIN op'[g].list : <<t, op'[g].list[t]>> \in stored'
             /\ op'[g].kind = "update" /\ op'[g].stage = "served" =>
                  <<op'[g].id, op'[g].row>> \in stored'
  <2>1. CASE g = h
    BY <1>4, <2>1 DEF WasStored
  <2>2. CASE g # h
    <3>1. g \in Running /\ op'[g] = op[g]
      BY <1>4, <2>2 DEF Running
    <3> QED BY <3>1 DEF Known, Seen, WasStored
  <2> QED BY <2>1, <2>2
<1>6. \A n \in Renders : \A t \in DOMAIN fetch'[n].list : <<t, fetch'[n].list[t]>> \in stored'
  BY <1>1 DEF Known, Seen, WasStored
<1>7. \A t \in DOMAIN tags' : <<t, tags'[t]>> \in stored'
  BY <1>3 DEF WasStored
<1> QED BY <1>5, <1>6, <1>7 DEF Seen, WasStored

LEMMA KnownStep == Known /\ [Next]_vars => Known'
<1> SUFFICES ASSUME Known, [Next]_vars PROVE Known'
  OBVIOUS
<1>1. TInv'
  BY TypingStep DEF Known
<1>2. CASE \E h \in Handlers : Proceed(h)
  <2>1. PICK h \in Handlers : Proceed(h)
    BY <1>2
  <2>2. h \in Running
    BY <2>1, ProceedRuns
  <2>3. CASE Serve(h)
    <3>1. /\ Kept' /\ stored \subseteq stored'
          /\ op[h].kind # "remove" => <<Target(op[h]), After(op[h])>> \in stored'
      BY <2>2, <2>3, KeptServe
    <3> QED BY <1>1, <2>1, <3>1, SeenProceed DEF Known
  <2>4. CASE ~Serve(h)
    <3>1. UNCHANGED <<server, stored>>
      BY <2>1, <2>4 DEF Proceed, Refuse, FinishUpdate, FailChip, FailAdd, Refetch,
                        AnswerRefetch, ShowRefetch, FailRefetch, listVars
    <3>2. Kept'
      BY <3>1 DEF Known, Kept
    <3> QED BY <1>1, <2>1, <2>4, <3>1, <3>2, SeenProceed DEF Known
  <2> QED BY <2>3, <2>4
<1>3. ASSUME UNCHANGED <<server, stored>> PROVE Kept'
  BY <1>3 DEF Known, Kept
<1>4. CASE ChangeProps
  <2>1. PICK s \in Subjects, ps \in PurposeSets : SetProps(s, ps)
    BY <1>4 DEF ChangeProps
  <2>2. UNCHANGED <<server, stored, tags, op>> /\ Running' = Running
    BY <1>4, <2>1 DEF ChangeProps, SetProps, Running
  <2>3. \A n \in Renders : fetch'[n].list \in {fetch[n].list, NoList}
    BY <2>1 DEF SetProps, Asked, Known, TInv, TypeOK, ListTypeOK
  <2>4. Seen'
    BY <2>2, <2>3, NoListIsList DEF Known, Seen, WasStored
  <2> QED BY <1>1, <1>3, <2>2, <2>4 DEF Known
<1>5. CASE \E n \in Renders : Load(n)
  <2>1. UNCHANGED <<server, stored>>
    BY <1>5 DEF Load, AnswerFetch, DeliverFetch, DropFetch, ShowFetch, FailFetch
  <2> QED BY <1>1, <1>3, <1>5, <2>1, SeenLoad DEF Known
<1>6. CASE \E h \in Handlers : Click(h)
  <2>1. UNCHANGED <<server, stored>>
    BY <1>6 DEF Click, StartRemove, StartUpdate, StartAdd, listVars
  <2> QED BY <1>1, <1>3, <1>6, <2>1, SeenClick DEF Known
<1>7. CASE UNCHANGED <<listVars, op>>
  <2>1. UNCHANGED <<server, stored, tags, fetch, op>> /\ Running' = Running
    BY <1>7 DEF listVars, Running
  <2>2. Seen'
    BY <2>1 DEF Known, Seen, WasStored
  <2> QED BY <1>1, <1>3, <2>1, <2>2 DEF Known
<1>8. CASE (\E p \in Purposes \cup {NoPurpose} : PickPurpose(p)) \/ SubmitRefused \/ UNCHANGED vars
  BY <1>7, <1>8 DEF PickPurpose, SubmitRefused, vars
<1> QED BY <1>2, <1>4, <1>5, <1>6, <1>8 DEF Next, Rest

LEMMA KnownInvariant == Spec => []Known
<1>1. Init => Known
  BY TypingInit, KnownInit DEF Known
<1> QED BY <1>1, KnownStep, PTL DEF Spec

\* Whatever the order of answers, the editor never shows a tag as it never was: an
\* update is shown when it is stored, and not if it failed.
THEOREM ShownWasStored == Spec => []NothingInvented
<1>1. Known => NothingInvented
  BY DEF Known, Seen, WasStored, NothingInvented
<1> QED BY <1>1, KnownInvariant, PTL
==============================================================================
