------------------------------ MODULE TagList ------------------------------
(***************************************************************************)
(* The list of a subject's tags that TagList shows, and TagEditor too: the *)
(* props a host passes, the effect that fetches for them, and the list it  *)
(* puts on the screen.  A change of props cancels the fetch of the props   *)
(* before, whose answer may still arrive.                                  *)
(*                                                                         *)
(* One client owns the tags; `server` is what the service has stored.      *)
(* Colour is part of a tag's `value` here: both columns change alike.      *)
(***************************************************************************)
EXTENDS Naturals, FiniteSets

CONSTANTS
  Subjects, Purposes, Values, TagIds,
  NoTag,        \* what an id without a tag holds
  Seed,         \* the tags there are when the component mounts
  PurposeSets,  \* the purposes a host may restrict to; {} is "all"
  Failures,     \* which calls may fail: "list", "mutate", "reply"
  MaxRenders    \* bound on the number of times the props change, plus one

Tag == [owner : {"client"}, subject : Subjects, purpose : Purposes,
        value : Values, color : {"any"}]
TagOf(s, p, v) ==
  [owner |-> "client", subject |-> s, purpose |-> p, value |-> v, color |-> "any"]

ASSUME NoTagAssumption == NoTag \notin Tag
ASSUME PurposeSetsAssumption == PurposeSets \subseteq SUBSET Purposes
ASSUME SeedAssumption == DOMAIN Seed \subseteq TagIds /\ Seed \in [DOMAIN Seed -> Tag]
ASSUME MaxRendersAssumption == MaxRenders \in Nat \ {0}

VARIABLES
  server,     \* the stored tags
  stored,     \* history: every <<id, tag>> the service has ever stored
  render,     \* the number of the props in force
  subject, purposes,  \* the props
  tags,       \* the list on the screen, by id
  loadState,
  loadError,  \* whether the banner has an error to show
  fetch       \* fetch[n]: the call of the effect for the n-th props

listVars == <<server, stored, render, subject, purposes, tags, loadState, loadError, fetch>>

Renders == 1..MaxRenders
Lists == UNION {[ids -> Tag] : ids \in SUBSET TagIds}
NoList == [t \in {} |-> NoTag]

Allowed(ps, p) == ps = {} \/ p \in ps

\* What the service answers to listBySubject.
Listed(s, ps) ==
  LET ids == {t \in TagIds : /\ server[t] # NoTag
                             /\ server[t].subject = s
                             /\ Allowed(ps, server[t].purpose)}
  IN [t \in ids |-> server[t]]

Fetch == [status : {"none", "asked", "answered", "failed"},
          subject : Subjects, purposes : PurposeSets, list : Lists]
Asked(s, ps) == [status |-> "asked", subject |-> s, purposes |-> ps, list |-> NoList]

ListTypeOK ==
  /\ server \in [TagIds -> Tag \cup {NoTag}]
  /\ stored \subseteq TagIds \X Tag
  /\ render \in Renders
  /\ subject \in Subjects /\ purposes \in PurposeSets
  /\ tags \in Lists
  /\ loadState \in {"loading", "error", "ready"}
  /\ loadError \in BOOLEAN
  /\ loadState = "error" => loadError
  /\ fetch \in [Renders -> Fetch]

\* The component is mounted and its effect has run once.
ListInit ==
  /\ server = [t \in TagIds |-> IF t \in DOMAIN Seed THEN Seed[t] ELSE NoTag]
  /\ stored = {<<t, Seed[t]>> : t \in DOMAIN Seed}
  /\ render = 1
  /\ subject \in Subjects /\ purposes \in PurposeSets
  /\ tags = NoList
  /\ loadState = "loading" /\ loadError = FALSE
  /\ fetch = [n \in Renders |->
                IF n = 1 THEN Asked(subject, purposes)
                         ELSE [Asked(subject, purposes) EXCEPT !.status = "none"]]

-----------------------------------------------------------------------------
\* Fault: nobody looks at the flag.
NeverCancelled(n) == n \notin Renders

\* The effect's cleanup has set the flag of every fetch but the last one.
Cancelled(n) == n # render

\* The host renders with another subject or other purposes: the effect of the
\* previous props is cleaned up and the next one asks.  The render and its passive
\* effect are one step, taken when the effect runs: an answer that comes between the
\* two comes before this step, and a click between them is left out.
SetProps(s, ps) ==
  /\ render < MaxRenders
  /\ <<s, ps>> # <<subject, purposes>>
  /\ render' = render + 1
  /\ subject' = s /\ purposes' = ps
  /\ loadState' = "loading" /\ loadError' = FALSE
  /\ fetch' = [fetch EXCEPT ![render + 1] = Asked(s, ps)]
  /\ UNCHANGED <<server, stored, tags>>

\* The service reads the tags for a fetch, or the call fails.
AnswerFetch(n) ==
  /\ fetch[n].status = "asked"
  /\ \/ fetch' = [fetch EXCEPT ![n].status = "answered",
                               ![n].list = Listed(fetch[n].subject, fetch[n].purposes)]
     \/ /\ "list" \in Failures
        /\ fetch' = [fetch EXCEPT ![n].status = "failed"]
  /\ UNCHANGED <<server, stored, render, subject, purposes, tags, loadState, loadError>>

Settle(n) == fetch' = [fetch EXCEPT ![n].status = "none", ![n].list = NoList]

\* The answer reaches a component that has moved on.
DropFetch(n) ==
  /\ fetch[n].status \in {"answered", "failed"}
  /\ Cancelled(n)
  /\ Settle(n)
  /\ UNCHANGED <<server, stored, render, subject, purposes, tags, loadState, loadError>>

ShowFetch(n) ==
  /\ fetch[n].status = "answered"
  /\ ~Cancelled(n)
  /\ Settle(n)
  /\ tags' = fetch[n].list
  /\ loadState' = "ready"
  /\ UNCHANGED <<server, stored, render, subject, purposes, loadError>>

FailFetch(n) ==
  /\ fetch[n].status = "failed"
  /\ ~Cancelled(n)
  /\ Settle(n)
  /\ loadState' = "error" /\ loadError' = TRUE
  /\ UNCHANGED <<server, stored, render, subject, purposes, tags>>

DeliverFetch(n) == DropFetch(n) \/ ShowFetch(n) \/ FailFetch(n)
=============================================================================
