------------------------- MODULE TagTemplatesProofs -------------------------
(***************************************************************************)
(* What the catalogue of templates keeps to, for any number of apps, hooks *)
(* and seeds.                                                              *)
(*                                                                         *)
(* SeedsStand is about hooks that are done.  What is inductive is about    *)
(* those that still run too: what such a hook has written stands, as long  *)
(* as it is alone; and a hook whose app nobody knows has written nothing.  *)
(***************************************************************************)
EXTENDS TagTemplates, TLAPS

SeedKeyOf(s, seed) == KeyOf(ScopeOf[s], seed)
Written(s) == Seeds[s] \ seeder[s].left
Going(s) == Running(s) \/ seeder[s].stage = "done"

AloneInv ==
  \A s \in Seeders : alone[s] =>
    \A o \in Seeders \ {s} : ScopeOf[o] = ScopeOf[s] => ~Running(o)

GoodInv ==
  \A s \in Seeders :
    /\ Going(s) => \A seed \in Written(s) : ~BadInput(seed)
    /\ seeder[s].stage = "resolved" => ~BadInput(seeder[s].at)

UnknownInv ==
  \A s \in Seeders : Going(s) /\ known[ScopeOf[s]] = "unregistered" =>
    seeder[s].stage = "seeding" /\ Written(s) = {}

WrittenInv ==
  \A s \in Seeders : Going(s) /\ alone[s] /\ known[ScopeOf[s]] = "app" =>
    \A seed \in Written(s) : templates[SeedKeyOf(s, seed)] = seed.body

ReaderInv == reader.stage = "resolved" /\ reader.param # Global => reader.param = reader.scope

TemplatesInv ==
  TypeOK /\ NoOrphans /\ AloneInv /\ GoodInv /\ UnknownInv /\ WrittenInv /\ ReaderInv

-----------------------------------------------------------------------------
(***************************************************************************)
(* Keys                                                                    *)
(***************************************************************************)

\* A seed that is not refused has a key of its scope, and a body to store.
LEMMA SeedKey ==
  ASSUME NEW s \in Seeders, NEW seed \in Seeds[s], ~BadInput(seed)
  PROVE  /\ SeedKeyOf(s, seed) \in Key /\ SeedKeyOf(s, seed).scope = ScopeOf[s]
         /\ ScopeOf[s] \in Scopes /\ ScopeOf[s] # Global
         /\ seed.body \in Bodies
<1>1. seed \in Seed
  BY SeedsAssumption
<1>2. seed.purpose \in Texts /\ seed.value \in Texts /\ seed.body \in Bodies \cup {Unlabelled}
  BY <1>1 DEF Seed
<1>3. Trimmed[seed.purpose] \in Names /\ Trimmed[seed.value] \in Names
  BY <1>2, TextsAssumption DEF BadInput
<1>4. ScopeOf[s] \in Scopes /\ ScopeOf[s] # Global
  BY ScopesAssumption
<1> QED
  BY <1>2, <1>3, <1>4 DEF BadInput, SeedKeyOf, KeyOf, Key

\* Two seeds of a hook differ in their keys.
LEMMA SeedKeysDiffer ==
  ASSUME NEW s \in Seeders, NEW a \in Seeds[s], NEW b \in Seeds[s],
         SeedKeyOf(s, a) = SeedKeyOf(s, b)
  PROVE  a = b
<1>1. KeyOf(Global, a) = KeyOf(Global, b)
  BY DEF SeedKeyOf, KeyOf
<1> QED
  BY <1>1, SeedsAssumption

-----------------------------------------------------------------------------
(***************************************************************************)
(* What a step does to the hooks                                           *)
(***************************************************************************)

\* A hook stops, whatever for.
Halts(s) ==
  /\ \E stage \in {"refused", "interrupted"} : seeder' = [seeder EXCEPT ![s] = Ended(stage)]
  /\ UNCHANGED <<templates, known, alone, reader>>

\* Everything but a hook's own steps.
Elsewhere ==
  \/ \E scope \in Scopes : Register(scope) \/ RemoveApp(scope)
  \/ \E scope \in Scopes \cup {Global}, purpose \in Texts : AskList(scope, purpose)
  \/ AnswerList

LEMMA NextSteps ==
  ASSUME Next
  PROVE  \/ \E s \in Seeders : \/ StartSeeding(s) \/ ResolveScope(s)
                               \/ WriteTemplate(s) \/ Halts(s)
         \/ Elsewhere
  BY DEF Next, Elsewhere, RefuseUpsert, RefuseWrite, Interrupt, Stop, Halts

LEMMA ElsewhereHooks == Elsewhere => UNCHANGED <<seeder, alone>>
  BY DEF Elsewhere, Register, RemoveApp, AskList, AnswerList

Hook == [stage : {"idle", "seeding", "resolved", "done", "refused", "interrupted"},
         left : SUBSET Seed, at : Seed \cup {NoSeed}]
HookOK(s) ==
  /\ seeder[s].left \subseteq Seeds[s]
  /\ Running(s) <=> seeder[s].left # {}
  /\ seeder[s].stage = "resolved" => seeder[s].at \in seeder[s].left
HooksOK == seeder \in [Seeders -> Hook] /\ \A s \in Seeders : HookOK(s)

LEMMA HooksInit == Init => HooksOK
  BY DEF Init, HooksOK, HookOK, Hook, Ended, Running

\* The hook of a step becomes h, and the others stay.
LEMMA HookStep ==
  ASSUME HooksOK, NEW s \in Seeders, NEW h \in Hook,
         seeder' = [seeder EXCEPT ![s] = h],
         h.left \subseteq Seeds[s],
         h.stage \in {"seeding", "resolved"} <=> h.left # {},
         h.stage = "resolved" => h.at \in h.left
  PROVE  /\ HooksOK'
         /\ seeder'[s] = h /\ \A o \in Seeders \ {s} : seeder'[o] = seeder[o]
  BY DEF HooksOK, HookOK, Running

LEMMA StartHook ==
  ASSUME HooksOK, NEW s \in Seeders, StartSeeding(s)
  PROVE  /\ HooksOK'
         /\ seeder'[s] = [stage |-> "seeding", left |-> Seeds[s], at |-> NoSeed]
         /\ \A o \in Seeders \ {s} : seeder'[o] = seeder[o]
<1> DEFINE h == [stage |-> "seeding", left |-> Seeds[s], at |-> NoSeed]
<1>1. h \in Hook /\ h.left # {}
  BY SeedsAssumption DEF Hook
<1>2. seeder' = [seeder EXCEPT ![s] = h]
  BY DEF StartSeeding
<1> QED
  BY <1>1, <1>2, HookStep

LEMMA ResolveHook ==
  ASSUME HooksOK, NEW s \in Seeders, ResolveScope(s)
  PROVE  /\ HooksOK' /\ seeder[s].stage = "seeding"
         /\ \A o \in Seeders \ {s} : seeder'[o] = seeder[o]
         /\ seeder'[s].left = seeder[s].left /\ seeder'[s].stage = "resolved"
         /\ ~BadInput(seeder'[s].at)
<1>1. PICK seed \in seeder[s].left :
        /\ ~BadInput(seed)
        /\ seeder' = [seeder EXCEPT ![s] = [stage |-> "resolved", left |-> seeder[s].left,
                                            at |-> seed]]
  BY DEF ResolveScope
<1>2. seeder[s] \in Hook /\ HookOK(s) /\ seeder \in [Seeders -> Hook]
  BY DEF HooksOK
<1> DEFINE h == [stage |-> "resolved", left |-> seeder[s].left, at |-> seed]
<1>3. h \in Hook
  BY <1>2 DEF Hook
<1>4. seeder' = [seeder EXCEPT ![s] = h]
  BY <1>1
<1> HIDE DEF h
<1>5. h.left = seeder[s].left /\ h.stage = "resolved" /\ h.at = seed
  BY DEF h
<1> QED
  BY <1>1, <1>2, <1>3, <1>4, <1>5, HookStep DEF ResolveScope, HookOK

\* What is left of a hook that has written what it was at.
LEMMA WriteHook ==
  ASSUME HooksOK, NEW s \in Seeders, WriteTemplate(s)
  PROVE  /\ HooksOK' /\ seeder[s].stage = "resolved"
         /\ \A o \in Seeders \ {s} : seeder'[o] = seeder[o]
         /\ \/ /\ seeder'[s].stage \in {"seeding", "done"}
               /\ seeder'[s].left = seeder[s].left \ {seeder[s].at}
            \/ seeder'[s].stage = "interrupted"
<1> DEFINE rest == seeder[s].left \ {seeder[s].at}
           h == [stage |-> "seeding", left |-> rest, at |-> NoSeed]
<1>1. seeder[s] \in Hook /\ HookOK(s) /\ seeder[s].stage = "resolved"
  BY DEF HooksOK, WriteTemplate
<1>2. rest \subseteq Seeds[s] /\ rest \in SUBSET Seed
  BY <1>1 DEF HookOK, Hook
<1>3. \/ rest # {} /\ seeder' = [seeder EXCEPT ![s] = h]
      \/ rest = {} /\ seeder' = [seeder EXCEPT ![s] = Ended("done")]
      \/ seeder' = [seeder EXCEPT ![s] = Ended("interrupted")]
  BY DEF WriteTemplate
<1>4. h \in Hook /\ Ended("done") \in Hook /\ Ended("interrupted") \in Hook
  BY <1>2 DEF Hook, Ended
<1>5. CASE rest # {} /\ seeder' = [seeder EXCEPT ![s] = h]
  <2>1. h.stage = "seeding" /\ h.left = rest
    OBVIOUS
  <2> HIDE DEF h
  <2> QED
    BY <1>1, <1>2, <1>4, <1>5, <2>1, HookStep
<1>6. ASSUME NEW stage \in {"done", "interrupted"}, seeder' = [seeder EXCEPT ![s] = Ended(stage)]
      PROVE  /\ HooksOK' /\ \A o \in Seeders \ {s} : seeder'[o] = seeder[o]
             /\ seeder'[s].stage = stage /\ seeder'[s].left = {}
  <2>1. Ended(stage).left = {} /\ Ended(stage).stage = stage
    BY DEF Ended
  <2> QED
    BY <1>4, <1>6, <2>1, HookStep
<1> QED
  BY <1>1, <1>3, <1>5, <1>6

LEMMA HaltHook ==
  ASSUME HooksOK, NEW s \in Seeders, Halts(s)
  PROVE  /\ HooksOK' /\ seeder'[s].stage \in {"refused", "interrupted"}
         /\ \A o \in Seeders \ {s} : seeder'[o] = seeder[o]
<1>1. PICK stage \in {"refused", "interrupted"} : seeder' = [seeder EXCEPT ![s] = Ended(stage)]
  BY DEF Halts
<1>2. Ended(stage) \in Hook /\ Ended(stage).left = {} /\ Ended(stage).stage = stage
  BY DEF Hook, Ended
<1> QED
  BY <1>1, <1>2, HookStep

-----------------------------------------------------------------------------
(***************************************************************************)
(* Types                                                                   *)
(***************************************************************************)

LEMMA TypeHooks == TypeOK => HooksOK
  BY DEF TypeOK, HooksOK, HookOK, Hook

\* What a hook stores is a body, under a key of its scope.
LEMMA WriteTypes ==
  ASSUME TypeOK, GoodInv, NEW s \in Seeders, WriteTemplate(s)
  PROVE  /\ seeder[s].at \in Seeds[s] /\ ~BadInput(seeder[s].at)
         /\ known[ScopeOf[s]] = "app"
         /\ templates' \in [Key -> Bodies \cup {NoBody}]
         /\ templates'[SeedKeyOf(s, seeder[s].at)] = seeder[s].at.body
         /\ \A k \in Key : k # SeedKeyOf(s, seeder[s].at) => templates'[k] = templates[k]
         /\ UNCHANGED <<known, alone, reader>>
<1>1. seeder[s].at \in Seeds[s] /\ ~BadInput(seeder[s].at)
  BY TypeHooks DEF WriteTemplate, GoodInv, HooksOK, HookOK
<1>2. templates' = [k \in Key |-> IF k = SeedKeyOf(s, seeder[s].at) THEN seeder[s].at.body
                                                              ELSE templates[k]]
  BY DEF WriteTemplate, Upserted, SeedKeyOf
<1>3. SeedKeyOf(s, seeder[s].at) \in Key /\ seeder[s].at.body \in Bodies
  BY <1>1, SeedKey
<1> QED
  BY <1>1, <1>2, <1>3 DEF WriteTemplate, Referenced, TypeOK

\* The table of an app that is removed, and of any other.
LEMMA RemoveTypes ==
  ASSUME TypeOK, NEW scope \in Scopes, RemoveApp(scope)
  PROVE  /\ templates' \in [Key -> Bodies \cup {NoBody}]
         /\ \A k \in Key : templates'[k] = IF k.scope = scope THEN NoBody ELSE templates[k]
         /\ known[scope] = "app" /\ known'[scope] \in {"archived", "purged"}
         /\ \A o \in Scopes \ {scope} : known'[o] = known[o]
         /\ known' \in [Scopes -> {"unregistered", "app", "archived", "purged", "other"}]
         /\ UNCHANGED <<seeder, alone, reader>>
  BY DEF RemoveApp, Without, TypeOK

LEMMA TypeInit == Init => TypeOK
<1> SUFFICES ASSUME Init
             PROVE  TypeOK
  OBVIOUS
<1>1. HooksOK
  BY HooksInit
<1> QED
  BY <1>1, GlobalsAssumption DEF Init, TypeOK, HooksOK, HookOK, Hook

LEMMA AnswerTypes ==
  ASSUME TypeOK, NEW purpose, NEW param
  PROVE  Listed(purpose, param) \subseteq [key : Key, body : Bodies]
<1>1. \A k \in Key : templates[k] # NoBody => templates[k] \in Bodies
  BY DEF TypeOK
<1> QED
  BY <1>1 DEF Listed

LEMMA TypeNext == TypeOK /\ GoodInv /\ [Next]_vars => TypeOK'
<1> SUFFICES ASSUME TypeOK, GoodInv, [Next]_vars
             PROVE  TypeOK'
  OBVIOUS
<1>0. HooksOK
  BY TypeHooks
<1>1. ASSUME NEW s \in Seeders, StartSeeding(s)
      PROVE  TypeOK'
  <2>1. HooksOK' /\ UNCHANGED <<templates, known, reader>>
    BY <1>0, <1>1, StartHook DEF StartSeeding
  <2>2. alone' \in [Seeders -> BOOLEAN]
    BY <1>1 DEF StartSeeding, TypeOK
  <2> QED
    BY <2>1, <2>2 DEF TypeOK, HooksOK, HookOK, Hook
<1>2. ASSUME NEW s \in Seeders, ResolveScope(s)
      PROVE  TypeOK'
  <2>1. HooksOK' /\ UNCHANGED <<templates, known, alone, reader>>
    BY <1>0, <1>2, ResolveHook DEF ResolveScope
  <2> QED
    BY <2>1 DEF TypeOK, HooksOK, HookOK, Hook
<1>3. ASSUME NEW s \in Seeders, WriteTemplate(s)
      PROVE  TypeOK'
  <2>1. HooksOK' /\ UNCHANGED <<known, alone, reader>>
    BY <1>0, <1>3, WriteHook DEF WriteTemplate
  <2>2. templates' \in [Key -> Bodies \cup {NoBody}]
    BY <1>3, WriteTypes
  <2> QED
    BY <2>1, <2>2 DEF TypeOK, HooksOK, HookOK, Hook
<1>4. ASSUME NEW s \in Seeders, Halts(s)
      PROVE  TypeOK'
  <2>1. HooksOK' /\ UNCHANGED <<templates, known, alone, reader>>
    BY <1>0, <1>4, HaltHook DEF Halts
  <2> QED
    BY <2>1 DEF TypeOK, HooksOK, HookOK, Hook
<1>5. ASSUME NEW scope \in Scopes, Register(scope)
      PROVE  TypeOK'
  BY <1>5 DEF Register, TypeOK, Running
<1>6. ASSUME NEW scope \in Scopes, RemoveApp(scope)
      PROVE  TypeOK'
  BY <1>6, RemoveTypes DEF TypeOK, Running
<1>7. ASSUME NEW scope \in Scopes \cup {Global}, NEW purpose \in Texts, AskList(scope, purpose)
      PROVE  TypeOK'
  <2>1. reader' \in [stage : {"resolved"}, scope : Scopes \cup {Global}, purpose : Texts,
                     param : Scopes \cup {Global}]
    BY <1>7 DEF AskList
  <2> QED
    BY <1>7, <2>1 DEF AskList, TypeOK, Running
<1>8. CASE AnswerList
  <2>1. reader' \in [stage : {"idle"}, answer : SUBSET [key : Key, body : Bodies]]
    BY <1>8, AnswerTypes DEF AnswerList
  <2> QED
    BY <1>8, <2>1 DEF AnswerList, TypeOK, Running
<1>9. CASE UNCHANGED vars
  BY <1>9 DEF vars, TypeOK, Running
<1> QED
  BY <1>1, <1>2, <1>3, <1>4, <1>5, <1>6, <1>7, <1>8, <1>9, NextSteps DEF Elsewhere

-----------------------------------------------------------------------------
(***************************************************************************)
(* The inductive invariant                                                 *)
(***************************************************************************)

LEMMA InvInit == Init => TemplatesInv
<1> SUFFICES ASSUME Init
             PROVE  TemplatesInv
  OBVIOUS
<1>1. TypeOK
  BY TypeInit
<1>2. NoOrphans
  BY GlobalsAssumption DEF Init, NoOrphans
<1>3. \A s \in Seeders : seeder[s].stage = "idle" /\ ~alone[s]
  BY DEF Init, Ended
<1> QED
  BY <1>1, <1>2, <1>3
  DEF TemplatesInv, AloneInv, GoodInv, UnknownInv, WrittenInv, Going, Running, ReaderInv, Init

LEMMA InvStart ==
  ASSUME TemplatesInv, NEW s \in Seeders, StartSeeding(s)
  PROVE  TemplatesInv'
<1>1. /\ HooksOK
      /\ seeder'[s] = [stage |-> "seeding", left |-> Seeds[s], at |-> NoSeed]
      /\ \A o \in Seeders \ {s} : seeder'[o] = seeder[o]
  BY TypeHooks, StartHook DEF TemplatesInv
<1>2. UNCHANGED <<templates, known, reader>>
  BY DEF StartSeeding
<1>3. /\ alone'[s] => \A o \in Seeders \ {s} : ScopeOf[o] = ScopeOf[s] => ~Running(o)
      /\ \A r \in Seeders \ {s} : alone'[r] => alone[r] /\ ScopeOf[r] # ScopeOf[s]
  BY DEF StartSeeding
<1>4. Written(s)' = {} /\ seeder'[s].stage = "seeding"
  BY <1>1 DEF Written
<1>5. \A o \in Seeders \ {s} :
        Written(o)' = Written(o) /\ (Running(o)' <=> Running(o)) /\ (Going(o)' <=> Going(o))
  BY <1>1 DEF Written, Running, Going
<1>6. TypeOK'
  BY TypeNext DEF TemplatesInv, Next
<1>7. NoOrphans' /\ ReaderInv'
  BY <1>2 DEF TemplatesInv, NoOrphans, ReaderInv
<1>8. AloneInv'
  BY <1>3, <1>5 DEF TemplatesInv, AloneInv
<1>9. GoodInv' /\ UnknownInv'
  BY <1>1, <1>2, <1>4, <1>5 DEF TemplatesInv, GoodInv, UnknownInv
<1>10. WrittenInv'
  BY <1>2, <1>3, <1>4, <1>5 DEF TemplatesInv, WrittenInv, SeedKeyOf, KeyOf
<1> QED
  BY <1>6, <1>7, <1>8, <1>9, <1>10 DEF TemplatesInv

LEMMA InvResolve ==
  ASSUME TemplatesInv, NEW s \in Seeders, ResolveScope(s)
  PROVE  TemplatesInv'
<1>1. /\ seeder[s].stage = "seeding" /\ seeder'[s].stage = "resolved"
      /\ seeder'[s].left = seeder[s].left /\ ~BadInput(seeder'[s].at)
      /\ \A o \in Seeders \ {s} : seeder'[o] = seeder[o]
  BY TypeHooks, ResolveHook DEF TemplatesInv
<1>2. UNCHANGED <<templates, known, alone, reader>>
  BY DEF ResolveScope
<1>3. \A o \in Seeders :
        Written(o)' = Written(o) /\ (Running(o)' <=> Running(o)) /\ (Going(o)' <=> Going(o))
  BY <1>1 DEF Written, Running, Going
<1>4. known[ScopeOf[s]] # "unregistered"
  BY DEF ResolveScope, Resolves
<1>5. TypeOK'
  BY TypeNext DEF TemplatesInv, Next
<1>6. NoOrphans' /\ ReaderInv' /\ AloneInv'
  BY <1>2, <1>3 DEF TemplatesInv, NoOrphans, ReaderInv, AloneInv
<1>7. GoodInv' /\ UnknownInv'
  BY <1>1, <1>2, <1>3, <1>4 DEF TemplatesInv, GoodInv, UnknownInv, BadInput
<1>8. WrittenInv'
  BY <1>2, <1>3 DEF TemplatesInv, WrittenInv, SeedKeyOf, KeyOf
<1> QED
  BY <1>5, <1>6, <1>7, <1>8 DEF TemplatesInv

LEMMA InvHalt ==
  ASSUME TemplatesInv, NEW s \in Seeders, Halts(s), TypeOK'
  PROVE  TemplatesInv'
<1>1. /\ seeder'[s].stage \in {"refused", "interrupted"}
      /\ \A o \in Seeders \ {s} : seeder'[o] = seeder[o]
  BY TypeHooks, HaltHook DEF TemplatesInv
<1>2. UNCHANGED <<templates, known, alone, reader>>
  BY DEF Halts
<1>3. ~Running(s)' /\ ~Going(s)' /\ seeder'[s].stage # "resolved"
  BY <1>1 DEF Running, Going
<1>4. \A o \in Seeders \ {s} :
        Written(o)' = Written(o) /\ (Running(o)' <=> Running(o)) /\ (Going(o)' <=> Going(o))
  BY <1>1 DEF Written, Running, Going
<1>5. NoOrphans' /\ ReaderInv' /\ AloneInv'
  BY <1>2, <1>3, <1>4 DEF TemplatesInv, NoOrphans, ReaderInv, AloneInv
<1>6. GoodInv' /\ UnknownInv'
  BY <1>1, <1>2, <1>3, <1>4 DEF TemplatesInv, GoodInv, UnknownInv, BadInput
<1>7. WrittenInv'
  BY <1>2, <1>3, <1>4 DEF TemplatesInv, WrittenInv, SeedKeyOf, KeyOf
<1> QED
  BY <1>5, <1>6, <1>7 DEF TemplatesInv

LEMMA InvWrite ==
  ASSUME TemplatesInv, NEW s \in Seeders, WriteTemplate(s)
  PROVE  TemplatesInv'
<1> DEFINE at == seeder[s].at
<1>1. /\ seeder[s].stage = "resolved"
      /\ \A o \in Seeders \ {s} : seeder'[o] = seeder[o]
      /\ \/ /\ seeder'[s].stage \in {"seeding", "done"}
            /\ seeder'[s].left = seeder[s].left \ {at}
         \/ seeder'[s].stage = "interrupted"
  BY TypeHooks, WriteHook DEF TemplatesInv
<1>2. /\ at \in Seeds[s] /\ ~BadInput(at)
      /\ known[ScopeOf[s]] = "app"
      /\ templates'[SeedKeyOf(s, at)] = at.body
      /\ \A k \in Key : k # SeedKeyOf(s, at) => templates'[k] = templates[k]
      /\ UNCHANGED <<known, alone, reader>>
  BY WriteTypes DEF TemplatesInv
<1>3. SeedKeyOf(s, at) \in Key /\ SeedKeyOf(s, at).scope = ScopeOf[s]
  BY <1>2, SeedKey
<1>4. Running(s) /\ Going(s)
  BY <1>1 DEF Running, Going
<1>5. \A o \in Seeders \ {s} :
        Written(o)' = Written(o) /\ (Running(o)' <=> Running(o)) /\ (Going(o)' <=> Going(o))
  BY <1>1 DEF Written, Running, Going
<1>6. Going(s)' => Written(s)' \subseteq Written(s) \cup {at}
  BY <1>1 DEF Running, Going, Written
<1>7. seeder'[s].stage # "resolved"
  BY <1>1
<1>8. TypeOK'
  BY TypeNext DEF TemplatesInv, Next
<1>9. NoOrphans'
  BY <1>2, <1>3 DEF TemplatesInv, NoOrphans
<1>10. ReaderInv' /\ AloneInv'
  BY <1>2, <1>4, <1>5 DEF TemplatesInv, ReaderInv, AloneInv
<1>11. GoodInv'
  <2>1. Going(s)' => \A seed \in Written(s)' : ~BadInput(seed)
    BY <1>2, <1>4, <1>6 DEF TemplatesInv, GoodInv
  <2>2. \A o \in Seeders \ {s} : Going(o)' => \A seed \in Written(o)' : ~BadInput(seed)
    BY <1>5 DEF TemplatesInv, GoodInv
  <2> QED
    BY <1>1, <1>7, <2>1, <2>2 DEF TemplatesInv, GoodInv, BadInput
<1>12. UnknownInv'
  BY <1>1, <1>2, <1>5 DEF TemplatesInv, UnknownInv
<1>13. WrittenInv'
  <2> SUFFICES ASSUME NEW o \in Seeders, Going(o)', alone'[o], known'[ScopeOf[o]] = "app",
                      NEW seed \in Written(o)'
               PROVE  templates'[SeedKeyOf(o, seed)] = seed.body
    BY DEF WrittenInv, SeedKeyOf, KeyOf
  <2>1. CASE o = s
    <3>1. CASE seed = at
      BY <1>2, <2>1, <3>1
    <3>2. CASE seed # at
      <4>1. seed \in Written(s) /\ seed \in Seeds[s]
        BY <1>6, <2>1, <3>2 DEF Written
      <4>2. templates[SeedKeyOf(s, seed)] = seed.body /\ ~BadInput(seed)
        BY <1>2, <1>4, <2>1, <4>1 DEF TemplatesInv, WrittenInv, GoodInv
      <4>3. SeedKeyOf(s, seed) \in Key /\ SeedKeyOf(s, seed) # SeedKeyOf(s, at)
        BY <1>2, <3>2, <4>1, <4>2, SeedKey, SeedKeysDiffer
      <4> QED
        BY <1>2, <2>1, <4>2, <4>3
    <3> QED
      BY <3>1, <3>2
  <2>2. CASE o # s
    <3>1. ScopeOf[o] # ScopeOf[s]
      BY <1>2, <1>4, <2>2 DEF TemplatesInv, AloneInv
    <3>2. seed \in Written(o) /\ seed \in Seeds[o]
      BY <1>5, <2>2 DEF Written
    <3>3. templates[SeedKeyOf(o, seed)] = seed.body /\ ~BadInput(seed)
      BY <1>2, <1>5, <2>2, <3>2 DEF TemplatesInv, WrittenInv, GoodInv
    <3>4. SeedKeyOf(o, seed) \in Key /\ SeedKeyOf(o, seed).scope = ScopeOf[o]
      BY <3>2, <3>3, SeedKey
    <3> QED
      BY <1>2, <1>3, <3>1, <3>3, <3>4
  <2> QED
    BY <2>1, <2>2
<1> QED
  BY <1>8, <1>9, <1>10, <1>11, <1>12, <1>13 DEF TemplatesInv

LEMMA InvElsewhere ==
  ASSUME TemplatesInv, Elsewhere, TypeOK'
  PROVE  TemplatesInv'
<1>1. UNCHANGED <<seeder, alone>>
  BY ElsewhereHooks
<1>2. \A o \in Seeders :
        Written(o)' = Written(o) /\ (Running(o)' <=> Running(o)) /\ (Going(o)' <=> Going(o))
  BY <1>1 DEF Written, Running, Going
<1>3. AloneInv' /\ GoodInv'
  BY <1>1, <1>2 DEF TemplatesInv, AloneInv, GoodInv, BadInput
<1>4. ASSUME NEW scope \in Scopes, Register(scope)
      PROVE  NoOrphans' /\ UnknownInv' /\ WrittenInv' /\ ReaderInv'
  <2>1. /\ known[scope] = "unregistered" /\ known'[scope] = "app"
        /\ \A o \in Scopes \ {scope} : known'[o] = known[o]
        /\ UNCHANGED <<templates, reader>>
    BY <1>4 DEF Register, TemplatesInv, TypeOK
  <2>2. \A k \in Key : k.scope \in Scopes \cup {Global}
    BY DEF Key
  <2>3. NoOrphans' /\ ReaderInv'
    BY <2>1, <2>2 DEF TemplatesInv, NoOrphans, ReaderInv
  <2>4. UnknownInv'
    BY <1>1, <1>2, <2>1, ScopesAssumption DEF TemplatesInv, UnknownInv
  <2>5. \A s \in Seeders : Going(s) /\ ScopeOf[s] = scope => Written(s) = {}
    BY <2>1 DEF TemplatesInv, UnknownInv
  <2>6. WrittenInv'
    BY <1>1, <1>2, <2>1, <2>5, ScopesAssumption DEF TemplatesInv, WrittenInv, SeedKeyOf, KeyOf
  <2> QED
    BY <2>3, <2>4, <2>6
<1>5. ASSUME NEW scope \in Scopes, RemoveApp(scope)
      PROVE  NoOrphans' /\ UnknownInv' /\ WrittenInv' /\ ReaderInv'
  <2>1. /\ \A k \in Key : templates'[k] = IF k.scope = scope THEN NoBody ELSE templates[k]
        /\ known'[scope] \in {"archived", "purged"}
        /\ \A o \in Scopes \ {scope} : known'[o] = known[o]
        /\ reader' = reader
    BY <1>5, RemoveTypes DEF TemplatesInv
  <2>2. \A k \in Key : k.scope \in Scopes \cup {Global}
    BY DEF Key
  <2>3. NoOrphans' /\ ReaderInv'
    BY <2>1, <2>2 DEF TemplatesInv, NoOrphans, ReaderInv
  <2>4. UnknownInv'
    BY <1>1, <1>2, <2>1, ScopesAssumption DEF TemplatesInv, UnknownInv
  <2>5. WrittenInv'
    <3> SUFFICES ASSUME NEW o \in Seeders, Going(o)', alone'[o], known'[ScopeOf[o]] = "app",
                        NEW seed \in Written(o)'
                 PROVE  templates'[SeedKeyOf(o, seed)] = seed.body
      BY DEF WrittenInv, SeedKeyOf, KeyOf
    <3>1. ScopeOf[o] # scope /\ known[ScopeOf[o]] = "app"
      BY <2>1, ScopesAssumption
    <3>2. seed \in Seeds[o] /\ ~BadInput(seed) /\ templates[SeedKeyOf(o, seed)] = seed.body
      BY <1>1, <1>2, <3>1 DEF TemplatesInv, WrittenInv, GoodInv, Written
    <3>3. SeedKeyOf(o, seed) \in Key /\ SeedKeyOf(o, seed).scope = ScopeOf[o]
      BY <3>2, SeedKey
    <3> QED
      BY <2>1, <3>1, <3>2, <3>3
  <2> QED
    BY <2>3, <2>4, <2>5
<1>6. ASSUME UNCHANGED <<templates, known>>
      PROVE  NoOrphans' /\ UnknownInv' /\ WrittenInv'
  BY <1>1, <1>2, <1>6 DEF TemplatesInv, NoOrphans, UnknownInv, WrittenInv, SeedKeyOf, KeyOf
<1>7. ASSUME NEW scope, NEW purpose, AskList(scope, purpose)
      PROVE  UNCHANGED <<templates, known>> /\ ReaderInv'
  BY <1>7 DEF AskList, ReaderInv
<1>8. CASE AnswerList
  BY <1>3, <1>6, <1>8 DEF AnswerList, ReaderInv, TemplatesInv
<1> QED
  BY <1>3, <1>4, <1>5, <1>6, <1>7, <1>8 DEF Elsewhere, TemplatesInv

LEMMA InvNext == TemplatesInv /\ [Next]_vars => TemplatesInv'
<1> SUFFICES ASSUME TemplatesInv, [Next]_vars
             PROVE  TemplatesInv'
  OBVIOUS
<1>1. TypeOK'
  BY TypeNext DEF TemplatesInv
<1>2. CASE UNCHANGED vars
  <2>1. \A o \in Seeders :
          Written(o)' = Written(o) /\ (Running(o)' <=> Running(o)) /\ (Going(o)' <=> Going(o))
    BY <1>2 DEF vars, Written, Running, Going
  <2> QED
    BY <1>1, <1>2, <2>1 DEF vars, TemplatesInv, NoOrphans, AloneInv, GoodInv, UnknownInv,
                            WrittenInv, ReaderInv, BadInput, SeedKeyOf, KeyOf
<1> QED
  BY <1>1, <1>2, InvStart, InvResolve, InvWrite, InvHalt, InvElsewhere, NextSteps

-----------------------------------------------------------------------------
\* The inductive invariant holds: what a hook that is alone has written stands,
\* even before it has come to its end.
THEOREM TemplatesInvariant == Spec => []TemplatesInv
<1>1. Init => TemplatesInv
  BY InvInit
<1>2. TemplatesInv /\ [Next]_vars => TemplatesInv'
  BY InvNext
<1> QED
  BY <1>1, <1>2, PTL DEF Spec

\* The catalogue, the hooks and the reader keep their types: nothing blank is
\* ever stored.
THEOREM TemplatesTypeCorrect == Spec => []TypeOK
<1>1. TemplatesInv => TypeOK
  BY DEF TemplatesInv
<1> QED
  BY <1>1, TemplatesInvariant, PTL

\* No template outlives its app, and none is made for a scope that is no app,
\* even if the app is removed between the two queries of an Upsert.
THEOREM NoTemplateIsOrphaned == Spec => []NoOrphans
<1>1. TemplatesInv => NoOrphans
  BY DEF TemplatesInv
<1> QED
  BY <1>1, TemplatesInvariant, PTL

\* A hook that has come to its end, alone, has put all of its seeds in place,
\* whatever hooks of the same or another release did before.
THEOREM SeedingIsWhole == Spec => []SeedsStand
<1>1. TemplatesInv => SeedsStand
  <2> SUFFICES ASSUME TemplatesInv,
                      NEW s \in Seeders, seeder[s].stage = "done", alone[s],
                      known[ScopeOf[s]] = "app",
                      NEW seed \in Seeds[s]
               PROVE  templates[SeedKeyOf(s, seed)] = seed.body
    BY DEF SeedsStand, SeedKeyOf
  <2>1. seed \in Written(s) /\ Going(s)
    BY TypeHooks DEF TemplatesInv, HooksOK, HookOK, Running, Written, Going
  <2> QED
    BY <2>1 DEF TemplatesInv, WrittenInv
<1> QED
  BY <1>1, TemplatesInvariant, PTL

\* A hook's step leaves the templates of all other scopes alone.
THEOREM ForeignTemplatesStand == Spec => ForeignStand
<1>1. TemplatesInv /\ [Next]_vars =>
        [\A s \in Seeders : seeder[s] # seeder'[s] =>
           \A k \in Key : k.scope # ScopeOf[s] => templates'[k] = templates[k]]_vars
  <2> SUFFICES ASSUME TemplatesInv, Next,
                      NEW s \in Seeders, seeder[s] # seeder'[s],
                      NEW k \in Key, k.scope # ScopeOf[s]
               PROVE  templates'[k] = templates[k]
    OBVIOUS
  <2>1. CASE \E o \in Seeders : StartSeeding(o) \/ ResolveScope(o) \/ Halts(o)
    BY <2>1 DEF StartSeeding, ResolveScope, Halts
  <2>2. ASSUME NEW o \in Seeders, WriteTemplate(o)
        PROVE  templates'[k] = templates[k]
    <3>1. o = s
      BY <2>2, TypeHooks, WriteHook DEF TemplatesInv
    <3>2. seeder[s].at \in Seeds[s] /\ ~BadInput(seeder[s].at)
      BY <2>2, <3>1, WriteTypes DEF TemplatesInv
    <3>3. k # SeedKeyOf(s, seeder[s].at)
      BY <3>2, SeedKey
    <3> QED
      BY <2>2, <3>1, <3>3, WriteTypes DEF TemplatesInv
  <2>3. CASE Elsewhere
    BY <2>3, ElsewhereHooks
  <2> QED
    BY <2>1, <2>2, <2>3, NextSteps
<1> QED
  BY <1>1, TemplatesInvariant, PTL DEF Spec, ForeignStand

\* Whoever lists the templates of an app that has been seeded gets them, each
\* once and as it was seeded.
THEOREM SeedsAreListed == Spec => SeededIsListed
<1> DEFINE Found(s, seed) ==
             {row.body : row \in {r \in reader'.answer : r.key = SeedKeyOf(s, seed)}} = {seed.body}
<1>1. ASSUME TemplatesInv, [Next]_vars,
             reader.stage = "resolved", reader'.stage = "idle", reader.param # Global,
             NEW s \in Seeders, seeder[s].stage = "done", alone[s],
             ScopeOf[s] = reader.scope, known[reader.scope] = "app",
             NEW seed \in Seeds[s], Trimmed[seed.purpose] = Trimmed[reader.purpose]
      PROVE  Found(s, seed)
  <2>1. AnswerList
    BY <1>1 DEF Next, vars, StartSeeding, RefuseUpsert, ResolveScope, WriteTemplate, RefuseWrite,
                Interrupt, Stop, Register, RemoveApp, AskList
  <2>2. reader'.answer = Listed(reader.purpose, reader.param)
    BY <2>1 DEF AnswerList
  <2>3. seed \in Written(s) /\ Going(s)
    BY <1>1, TypeHooks DEF TemplatesInv, HooksOK, HookOK, Running, Written, Going
  <2>4. ~BadInput(seed) /\ templates[SeedKeyOf(s, seed)] = seed.body
    BY <1>1, <2>3 DEF TemplatesInv, GoodInv, WrittenInv
  <2>5. /\ SeedKeyOf(s, seed) \in Key /\ seed.body # NoBody
        /\ SeedKeyOf(s, seed).scope = reader.param
        /\ SeedKeyOf(s, seed).purpose = Trimmed[reader.purpose]
    BY <1>1, <2>4, SeedKey, BodiesAssumption DEF TemplatesInv, ReaderInv, SeedKeyOf, KeyOf
  <2> DEFINE row == [key |-> SeedKeyOf(s, seed), body |-> seed.body]
  <2>6. {r \in reader'.answer : r.key = SeedKeyOf(s, seed)} = {row}
    BY <2>2, <2>4, <2>5 DEF Listed
  <2>7. row.body = seed.body
    OBVIOUS
  <2> HIDE DEF row
  <2> QED
    BY <2>6, <2>7
<1>2. TemplatesInv /\ [Next]_vars =>
        [reader.stage = "resolved" /\ reader'.stage = "idle" /\ reader.param # Global =>
           \A s \in Seeders :
             /\ seeder[s].stage = "done" /\ alone[s]
             /\ ScopeOf[s] = reader.scope /\ known[reader.scope] = "app"
             => \A seed \in Seeds[s] :
                  Trimmed[seed.purpose] = Trimmed[reader.purpose] => Found(s, seed)]_vars
  <2> HIDE DEF Found
  <2> QED
    BY <1>1
<1> QED
  BY <1>2, TemplatesInvariant, PTL DEF Spec, SeededIsListed, SeedKeyOf
=============================================================================
