----------------------------- MODULE MCTagChip -----------------------------
(***************************************************************************)
(* TagChip on a small instance: no colour, a dark colour that is nearly    *)
(* transparent, and a light one.                                           *)
(***************************************************************************)
EXTENDS TagChip, TLC

CONSTANTS v1, v2, v1Spaced, spaces

Dark == <<1, 15, 8, 0, 14, 7>>
Light == <<12, 0, 15, 15, 3, 8>>
MCColors == {NoColor, Compose(Dark, 9), Compose(Light, 200)}
MCRgbs == {Dark, White}
MCAlphas == {9, 255}

MCDrafts == {v1, v2, v1Spaced, spaces}
MCTrimmed == (v1 :> v1) @@ (v2 :> v2) @@ (v1Spaced :> v1) @@ (spaces :> Blank)
============================================================================
