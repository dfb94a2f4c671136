------------------------------ MODULE TagChip ------------------------------
(***************************************************************************)
(* One chip of the list: the tag it shows, the popovers that edit its      *)
(* colour and its value, and the drafts they edit.  The host owns the tag: *)
(* the chip only calls it back, and the host renders the chip again with   *)
(* whatever the tag has become, by this user or by others.                 *)
(*                                                                         *)
(* Two effects copy a changed tag into the drafts.  React runs them after  *)
(* the render is on the screen; a handler may come first, and the render   *)
(* that follows a handler begins by running them.                          *)
(***************************************************************************)
EXTENDS TagColor

CONSTANTS
  Callbacks,      \* which of "color", "value", "remove" the host has set
  Colors,         \* the colours a tag may have
  Rgbs, Alphas,   \* what the user may pick
  Values,         \* the values a tag may have
  Drafts,         \* what the value input may hold
  Blank,
  Trimmed         \* what String.trim makes of a draft

ASSUME ColorsAssumption == Colors \subseteq Color
ASSUME PickedAssumption == Rgbs \subseteq Rgb /\ Alphas \subseteq Alpha
\* The service stores trimmed values only.
ASSUME TrimmedAssumption ==
  /\ Values \subseteq Drafts
  /\ Trimmed \in [Drafts -> Values \cup {Blank}]
  /\ Blank \notin Values
  /\ \A v \in Values : Trimmed[v] = v

VARIABLES
  tag,                               \* the tag as last rendered
  showColorEditor, showValueEditor,
  picker,     \* pickerRgb and pickerAlpha
  editValue,
  pending,    \* the effects the last render has yet to run
  call,       \* the callback the last step made
  touched     \* the drafts the user changed since they last were the tag's

popovers == <<showColorEditor, showValueEditor>>
vars == <<tag, popovers, picker, editValue, pending, call, touched>>

Row == [color : Colors, value : Values]
Editors == {"color", "value"}
NoCall == [to |-> "nobody", with |-> NoColor]
Calls == {NoCall}
           \cup [to : {"color"}, with : Color]
           \cup [to : {"value"}, with : Values]
           \cup [to : {"remove"}, with : {NoColor}]

TypeOK ==
  /\ tag \in Row
  /\ showColorEditor \in BOOLEAN /\ showValueEditor \in BOOLEAN
  /\ ~(showColorEditor /\ showValueEditor)
  /\ picker \in [rgb : Rgb, alpha : Alpha]
  /\ editValue \in Drafts
  /\ pending \subseteq Editors /\ touched \subseteq Editors
  /\ call \in Calls

\* The picker of a chip that has just been mounted.
FirstPicker(color) == Parse(Background(color))

Init ==
  /\ tag \in Row
  /\ showColorEditor = FALSE /\ showValueEditor = FALSE
  /\ picker = FirstPicker(tag.color)
  /\ editValue = tag.value
  /\ pending = Editors
  /\ call = NoCall
  /\ touched = {}

-----------------------------------------------------------------------------
\* The render after a handler that leaves the drafts p and e, having changed
\* those of t: the effects that were due overwrite them.
Drafted(p, e, t) ==
  /\ picker' = IF "color" \in pending THEN Parse(tag.color) ELSE p
  /\ editValue' = IF "value" \in pending THEN tag.value ELSE e
  /\ touched' = t \ pending
  /\ pending' = {}
  /\ tag' = tag

RunEffects ==
  /\ pending # {}
  /\ Drafted(picker, editValue, touched)
  /\ call' = NoCall
  /\ UNCHANGED popovers

\* Fault: the value effect depends on nothing and runs on mount only.
HostRendersUnwatched(row) ==
  /\ pending = {} /\ row # tag
  /\ tag' = row
  /\ pending' = {x \in {"color"} : row[x] # tag[x]}
  /\ call' = NoCall
  /\ UNCHANGED <<popovers, picker, editValue, touched>>

\* The host renders the chip with what the tag has become.
HostRenders(row) ==
  /\ pending = {} /\ row # tag
  /\ tag' = row
  /\ pending' = {x \in Editors : row[x] # tag[x]}
  /\ call' = NoCall
  /\ UNCHANGED <<popovers, picker, editValue, touched>>

\* The host takes the chips down while it loads its list: drafts are lost.
HostRemounts(row) ==
  /\ tag' = row
  /\ showColorEditor' = FALSE /\ showValueEditor' = FALSE
  /\ picker' = FirstPicker(row.color)
  /\ editValue' = row.value
  /\ pending' = Editors
  /\ call' = NoCall
  /\ touched' = {}

-----------------------------------------------------------------------------
\* Fault: the other popover stays open.
ToggleColorOnly ==
  /\ "color" \in Callbacks
  /\ showColorEditor' = ~showColorEditor /\ UNCHANGED showValueEditor
  /\ Drafted(picker, editValue, touched)
  /\ call' = NoCall

\* A click on the label.
ToggleColor ==
  /\ "color" \in Callbacks
  /\ showColorEditor' = ~showColorEditor /\ showValueEditor' = FALSE
  /\ Drafted(picker, editValue, touched)
  /\ call' = NoCall

\* A click on the pencil.
ToggleValue ==
  /\ "value" \in Callbacks
  /\ showValueEditor' = ~showValueEditor /\ showColorEditor' = FALSE
  /\ Drafted(picker, editValue, touched)
  /\ call' = NoCall

Pick(p) ==
  /\ showColorEditor
  /\ Drafted(p, editValue, touched \cup {"color"})
  /\ call' = NoCall
  /\ UNCHANGED popovers

Type(draft) ==
  /\ showValueEditor
  /\ Drafted(picker, draft, touched \cup {"value"})
  /\ call' = NoCall
  /\ UNCHANGED popovers

\* Apply, Clear and Cancel close the colour popover and leave its draft alone.
CloseColor(made) ==
  /\ showColorEditor
  /\ call' = made
  /\ showColorEditor' = FALSE /\ UNCHANGED showValueEditor
  /\ Drafted(picker, editValue, touched)

ApplyColor == CloseColor([to |-> "color", with |-> Compose(picker.rgb, picker.alpha)])
ClearColor == CloseColor([to |-> "color", with |-> NoColor])
CancelColor == CloseColor(NoCall)

\* Fault: a value that is the tag's already is sent all the same.
ApplyAnyValue ==
  /\ showValueEditor
  /\ call' = IF Trimmed[editValue] = Blank THEN NoCall
             ELSE [to |-> "value", with |-> Trimmed[editValue]]
  /\ showValueEditor' = FALSE /\ UNCHANGED showColorEditor
  /\ Drafted(picker, editValue, touched)

\* Apply, or the Enter key.
ApplyValue ==
  /\ showValueEditor
  /\ call' = IF Trimmed[editValue] \in {Blank, tag.value} THEN NoCall
             ELSE [to |-> "value", with |-> Trimmed[editValue]]
  /\ showValueEditor' = FALSE /\ UNCHANGED showColorEditor
  /\ Drafted(picker, editValue, touched)

\* Cancel, or the Escape key.
CancelValue ==
  /\ showValueEditor
  /\ call' = NoCall
  /\ showValueEditor' = FALSE /\ UNCHANGED showColorEditor
  /\ Drafted(picker, tag.value, touched \ {"value"})

\* A click on the cross closes nothing: the host does the rest.
Remove ==
  /\ "remove" \in Callbacks
  /\ call' = [to |-> "remove", with |-> NoColor]
  /\ UNCHANGED <<tag, popovers, picker, editValue, pending, touched>>

-----------------------------------------------------------------------------
Host == \E row \in Row : HostRenders(row) \/ HostRemounts(row)

User ==
  \/ ToggleColor \/ ToggleValue
  \/ \E rgb \in Rgbs : Pick([picker EXCEPT !.rgb = rgb])
  \/ \E alpha \in Alphas : Pick([picker EXCEPT !.alpha = alpha])
  \/ \E draft \in Drafts : Type(draft)
  \/ ApplyColor \/ ClearColor \/ CancelColor
  \/ ApplyValue \/ CancelValue
  \/ Remove

Next == RunEffects \/ Host \/ User

Spec == Init /\ [][Next]_vars

-----------------------------------------------------------------------------
\* Once its effect has run, a draft the user has not changed is the tag's own,
\* whatever was applied, cancelled or changed by others before: it is what an
\* effect, a mount or a cancelled value edit put there.
UntouchedFollows ==
  /\ "color" \notin touched \cup pending => picker = Parse(tag.color)
  /\ "value" \notin touched \cup pending => editValue = tag.value

\* Applying a colour nobody touched changes nothing: what the chip sends is the
\* colour the tag has, alpha and all.
UntouchedColorStays ==
  [][/\ call'.to = "color" /\ call'.with # NoColor /\ "color" \notin touched \cup pending
     /\ tag.color # NoColor
     => call'.with = tag.color]_vars

\* A value is sent only if the user typed it: a draft that merely followed the
\* tag never overwrites what others made of the tag in the meantime.
OnlyTypedValues ==
  [][call'.to = "value" /\ "value" \notin pending => "value" \in touched]_vars

\* The picker of a tag that has no colour starts from a neutral gray, opaque, as the
\* comment on parseColor says.
GrayWithoutColor ==
  tag.color = NoColor /\ "color" \notin touched \cup pending =>
    picker.rgb \notin {Black, White} /\ picker.alpha = 255
=============================================================================
