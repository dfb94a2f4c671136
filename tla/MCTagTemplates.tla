--------------------------- MODULE MCTagTemplates ---------------------------
(***************************************************************************)
(* TagTemplates on a small instance: two releases of one app, which agree  *)
(* on one template and not on the other, and a hook that seeds for another *)
(* scope and gets two seeds wrong: one that Upsert refuses for its blank   *)
(* label, one with a value or a label too long for the table.              *)
(***************************************************************************)
EXTENDS TagTemplates, TLC

CONSTANTS app1, app2, old, new, other, x, xSpaced, spaces, y, b1, b2

MCTrimmed == (x :> x) @@ (xSpaced :> x) @@ (spaces :> Blank) @@ (y :> y)

MCGlobalTemplates ==
  [k \in Key |-> IF k = [scope |-> Global, purpose |-> x, value |-> x] THEN b1 ELSE NoBody]

MCScopeOf == (old :> app1) @@ (new :> app1) @@ (other :> app2)

Template(purpose, value, body) == [purpose |-> purpose, value |-> value, body |-> body]
MCSeeds ==
  (old :> {Template(x, x, b1), Template(x, y, b1)})
    @@ (new :> {Template(xSpaced, x, b2), Template(x, y, b1)})
    @@ (other :> {Template(x, x, b2), Template(y, y, Unlabelled), Template(x, y, b2)})
MCUnstorable == {Template(x, y, b2)}
=============================================================================
