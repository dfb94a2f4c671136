---------------------------- MODULE TagTemplates ----------------------------
(***************************************************************************)
(* The catalogue of tag templates.  Global templates are the operator's.   *)
(* An app seeds its own in a startup hook: one Upsert per template, each a *)
(* lookup of the app's UUID and then a statement of its own.  Replicas and *)
(* releases of an app may seed at the same time, die in the middle and     *)
(* start over, and the app may be removed under them.  Readers list the    *)
(* templates of a purpose, with those of one app.                          *)
(*                                                                         *)
(* The unique indexes make the table a function of scope, purpose and      *)
(* value.  That the hook stops at the first error is its own doing.        *)
(***************************************************************************)
EXTENDS FiniteSets

CONSTANTS
  Scopes,      \* the UUIDs somebody may name
  Global,      \* the scope of a global template, and of a reader who names none
  Texts, Names, Blank,
  Trimmed,     \* what strings.TrimSpace makes of a text
  Bodies,      \* label, colour and sort order
  Unlabelled,  \* a body whose label is blank
  NoBody,
  GlobalTemplates,
  Seeders,     \* startup hooks, of one or several releases and replicas
  ScopeOf, Seeds, NoSeed,
  Unstorable   \* the seeds a CHECK of the table refuses: a purpose, value or label
               \* over 512 characters, a colour that is not one

Key == [scope : Scopes \cup {Global}, purpose : Names, value : Names]
Seed == [purpose : Texts, value : Texts, body : Bodies \cup {Unlabelled}]

KeyOf(scope, seed) ==
  [scope |-> scope, purpose |-> Trimmed[seed.purpose], value |-> Trimmed[seed.value]]

ASSUME ScopesAssumption == Global \notin Scopes /\ ScopeOf \in [Seeders -> Scopes]
ASSUME TextsAssumption == Trimmed \in [Texts -> Names \cup {Blank}] /\ Blank \notin Names
ASSUME BodiesAssumption == NoBody \notin Bodies /\ Unlabelled \notin Bodies \cup {NoBody}
ASSUME GlobalsAssumption ==
  /\ GlobalTemplates \in [Key -> Bodies \cup {NoBody}]
  /\ \A k \in Key : k.scope # Global => GlobalTemplates[k] = NoBody
ASSUME SeedsAssumption ==
  /\ Seeds \in [Seeders -> (SUBSET Seed) \ {{}}]
  /\ \A s \in Seeders : \A a, b \in Seeds[s] :
       KeyOf(Global, a) = KeyOf(Global, b) => a = b
ASSUME UnstorableAssumption == Unstorable \subseteq Seed

VARIABLES
  templates,
  known,   \* what the core knows of a UUID
  seeder,  \* seeder[s]: how far the hook is, what it has left, where it is
  alone,   \* alone[s]: no other hook of the app has run since s last started
  reader

vars == <<templates, known, seeder, alone, reader>>

\* An archived app has no row in apps any more, but its entity still resolves.
Resolves(scope) == known[scope] \in {"app", "archived", "other"}

Running(s) == seeder[s].stage \in {"seeding", "resolved"}

TypeOK ==
  /\ templates \in [Key -> Bodies \cup {NoBody}]
  /\ known \in [Scopes -> {"unregistered", "app", "archived", "purged", "other"}]
  /\ seeder \in [Seeders -> [stage : {"idle", "seeding", "resolved", "done", "refused",
                                      "interrupted"},
                             left : SUBSET Seed, at : Seed \cup {NoSeed}]]
  /\ alone \in [Seeders -> BOOLEAN]
  /\ reader \in [stage : {"idle"}, answer : SUBSET [key : Key, body : Bodies]]
                  \cup [stage : {"resolved"}, scope : Scopes \cup {Global}, purpose : Texts,
                        param : Scopes \cup {Global}]
  /\ \A s \in Seeders : /\ seeder[s].left \subseteq Seeds[s]
                        /\ Running(s) <=> seeder[s].left # {}
                        /\ seeder[s].stage = "resolved" => seeder[s].at \in seeder[s].left

\* A hook that does not run.
Ended(stage) == [stage |-> stage, left |-> {}, at |-> NoSeed]

Init ==
  /\ templates = GlobalTemplates
  /\ known \in [Scopes -> {"unregistered", "app", "other"}]
  /\ seeder = [s \in Seeders |-> Ended("idle")]
  /\ alone = [s \in Seeders |-> FALSE]
  /\ reader = [stage |-> "idle", answer |-> {}]

-----------------------------------------------------------------------------
\* The app starts, or starts again, and its hook has everything to seed.
StartSeeding(s) ==
  LET others == {r \in Seeders \ {s} : ScopeOf[r] = ScopeOf[s]} IN
  /\ ~Running(s)
  /\ seeder' = [seeder EXCEPT ![s] = [stage |-> "seeding", left |-> Seeds[s], at |-> NoSeed]]
  /\ alone' = [r \in Seeders |-> IF r = s THEN \A o \in others : ~Running(o)
                                 ELSE alone[r] /\ r \notin others]
  /\ UNCHANGED <<templates, known, reader>>

Stop(s, stage) ==
  /\ seeder' = [seeder EXCEPT ![s] = Ended(stage)]
  /\ UNCHANGED <<templates, known, alone, reader>>

\* Fault: a blank label is let through.
BadKey(seed) == Blank \in {Trimmed[seed.purpose], Trimmed[seed.value]}

BadInput(seed) ==
  Blank \in {Trimmed[seed.purpose], Trimmed[seed.value]} \/ seed.body = Unlabelled

\* ErrInvalidInput: something is blank, or nobody has the scope's UUID.  The nil
\* UUID is one that nobody has, and is refused as such without a lookup; lengths and
\* colours are left to the table.
RefuseUpsert(s) ==
  /\ seeder[s].stage = "seeding"
  /\ \E seed \in seeder[s].left : BadInput(seed) \/ ~Resolves(ScopeOf[s])
  /\ Stop(s, "refused")

ResolveScope(s) ==
  /\ seeder[s].stage = "seeding"
  /\ Resolves(ScopeOf[s])
  /\ \E seed \in seeder[s].left :
       /\ ~BadInput(seed)
       /\ seeder' = [seeder EXCEPT ![s] = [stage |-> "resolved", left |-> seeder[s].left,
                                           at |-> seed]]
  /\ UNCHANGED <<templates, known, alone, reader>>

\* Fault: one template per purpose and value, whatever its scope.
UpsertedAnywhere(scope, seed) ==
  [k \in Key |-> IF [k EXCEPT !.scope = scope] = KeyOf(scope, seed)
                    /\ (k.scope = scope \/ templates[k] # NoBody)
                 THEN seed.body ELSE templates[k]]

\* Fault: ON CONFLICT DO NOTHING.
UpsertedOnce(scope, seed) ==
  [k \in Key |-> IF k = KeyOf(scope, seed) /\ templates[k] = NoBody
                 THEN seed.body ELSE templates[k]]

\* The statement inserts the template, or updates the one that has its key.
Upserted(scope, seed) ==
  [k \in Key |-> IF k = KeyOf(scope, seed) THEN seed.body ELSE templates[k]]

\* Fault: the scope is taken for an app's because it resolved.
ReferencedResolved(scope) == scope \in Scopes

\* What the foreign key demands of the scope when the statement runs.
Referenced(scope) == known[scope] = "app"

\* The reply of the statement may be lost with the hook.
WriteTemplate(s) ==
  LET rest == seeder[s].left \ {seeder[s].at} IN
  /\ seeder[s].stage = "resolved"
  /\ Referenced(ScopeOf[s]) /\ seeder[s].at \notin Unstorable
  /\ templates' = Upserted(ScopeOf[s], seeder[s].at)
  /\ \/ rest # {} /\ seeder' = [seeder EXCEPT ![s] = [stage |-> "seeding", left |-> rest,
                                                      at |-> NoSeed]]
     \/ rest = {} /\ seeder' = [seeder EXCEPT ![s] = Ended("done")]
     \/ seeder' = [seeder EXCEPT ![s] = Ended("interrupted")]
  /\ UNCHANGED <<known, alone, reader>>

\* The scope resolved, but there is no app of that id, or no longer; or a CHECK of
\* the table refuses what Upsert let through.
RefuseWrite(s) ==
  /\ seeder[s].stage = "resolved"
  /\ ~Referenced(ScopeOf[s]) \/ seeder[s].at \in Unstorable
  /\ Stop(s, "refused")

\* The app dies, or the database is not reached.
Interrupt(s) == Running(s) /\ Stop(s, "interrupted")

-----------------------------------------------------------------------------
Register(scope) ==
  /\ known[scope] = "unregistered"
  /\ known' = [known EXCEPT ![scope] = "app"]
  /\ UNCHANGED <<templates, seeder, alone, reader>>

\* ON DELETE CASCADE.
Without(scope) == [k \in Key |-> IF k.scope = scope THEN NoBody ELSE templates[k]]

RemoveApp(scope) ==
  /\ known[scope] = "app"
  /\ \E stage \in {"archived", "purged"} : known' = [known EXCEPT ![scope] = stage]
  /\ templates' = Without(scope)
  /\ UNCHANGED <<seeder, alone, reader>>

-----------------------------------------------------------------------------
\* A reader asks for a purpose, and maybe for an app; a UUID that nobody has is
\* forgiven and counts as none.
AskList(scope, purpose) ==
  /\ reader.stage = "idle"
  /\ Trimmed[purpose] # Blank
  /\ reader' = [stage |-> "resolved", scope |-> scope, purpose |-> purpose,
                param |-> IF scope # Global /\ Resolves(scope) THEN scope ELSE Global]
  /\ UNCHANGED <<templates, known, seeder, alone>>

\* Fault: the purpose is looked up as it was given.
ListedUntrimmed(purpose, param) ==
  {[key |-> k, body |-> templates[k]] :
     k \in {l \in Key : /\ templates[l] # NoBody /\ l.purpose = purpose
                        /\ l.scope \in {Global, param}}}

\* The rows of the query, in whatever order: their scope, sort order and value
\* put them in one that is total.
Listed(purpose, param) ==
  {[key |-> k, body |-> templates[k]] :
     k \in {l \in Key : /\ templates[l] # NoBody /\ l.purpose = Trimmed[purpose]
                        /\ l.scope \in {Global, param}}}

AnswerList ==
  /\ reader.stage = "resolved"
  /\ reader' = [stage |-> "idle", answer |-> Listed(reader.purpose, reader.param)]
  /\ UNCHANGED <<templates, known, seeder, alone>>

-----------------------------------------------------------------------------
Next ==
  \/ \E s \in Seeders :
       \/ StartSeeding(s) \/ RefuseUpsert(s) \/ ResolveScope(s)
       \/ WriteTemplate(s) \/ RefuseWrite(s) \/ Interrupt(s)
  \/ \E scope \in Scopes : Register(scope) \/ RemoveApp(scope)
  \/ \E scope \in Scopes \cup {Global}, purpose \in Texts : AskList(scope, purpose)
  \/ AnswerList

Spec == Init /\ [][Next]_vars

-----------------------------------------------------------------------------
\* A template is global or belongs to an app that is there: a hook that resolved
\* its scope before the app was removed cannot leave a template behind, and
\* neither can one whose scope never was an app.
NoOrphans ==
  \A k \in Key : templates[k] # NoBody => k.scope = Global \/ known[k.scope] = "app"

\* However many hooks of the app ran before it, died half way or seeded another
\* release: once a hook has come to its end with no other one of the app beside
\* or after it, the catalogue has every one of its seeds as it stands there.
SeedsStand ==
  \A s \in Seeders :
    seeder[s].stage = "done" /\ alone[s] /\ known[ScopeOf[s]] = "app" =>
      \A seed \in Seeds[s] : templates[KeyOf(ScopeOf[s], seed)] = seed.body

\* No hook changes what is not its app's: a global template of the same purpose
\* and value stays, and so does another app's.
ForeignStand ==
  [][\A s \in Seeders : seeder[s] # seeder'[s] =>
       \A k \in Key : k.scope # ScopeOf[s] => templates'[k] = templates[k]]_vars

\* What a hook has seeded is found by whoever lists the app's templates, however
\* the two of them space the purpose, if the app was there when they asked.
SeededIsListed ==
  [][reader.stage = "resolved" /\ reader'.stage = "idle" /\ reader.param # Global =>
       \A s \in Seeders :
         /\ seeder[s].stage = "done" /\ alone[s]
         /\ ScopeOf[s] = reader.scope /\ known[reader.scope] = "app"
         => \A seed \in Seeds[s] :
              Trimmed[seed.purpose] = Trimmed[reader.purpose] =>
                {row.body : row \in {r \in reader'.answer : r.key = KeyOf(ScopeOf[s], seed)}}
                  = {seed.body}]_vars
=============================================================================
