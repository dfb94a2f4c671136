--------------------------- MODULE TagChipProofs ---------------------------
(***************************************************************************)
(* Theorems about TagChip, for every set of colours, values and drafts.    *)
(***************************************************************************)
EXTENDS TagChip, SequenceTheorems, TLAPS

LEMMA HexLength ==
  ASSUME NEW n \in Nat, NEW hex \in [1..n -> Digit]
  PROVE  Len(hex) = n
<1>1. hex \in Seq(Digit)
  BY DEF Digit
<1> QED BY <1>1, LenProperties

\* A byte is its two digits.
LEMMA TwoDigits ==
  /\ \A a \in Alpha : a \div 16 \in Digit /\ a % 16 \in Digit
                      /\ 16 * (a \div 16) + (a % 16) = a
  /\ \A h, l \in Digit : /\ 16 * h + l \in Alpha
                         /\ (16 * h + l) \div 16 = h
                         /\ (16 * h + l) % 16 = l
BY DEF Alpha, Digit

\* The picker holds six digits and a byte, whatever colour it is set from.
LEMMA ParseType ==
  ASSUME NEW color \in Color
  PROVE  Parse(color) \in [rgb : Rgb, alpha : Alpha]
<1>1. CASE color = NoColor
  BY <1>1 DEF Parse, NoColor, Rgb, Alpha, Digit
<1>2. CASE color \in [1..8 -> Digit]
  <2>1. Len(color) = 8
    BY <1>2, HexLength
  <2> QED BY <1>2, <2>1, TwoDigits DEF Parse, Rgb, Digit
<1> QED BY <1>1, <1>2 DEF Color

\* A colour survives its way through the picker.
LEMMA ComposeParse ==
  ASSUME NEW color \in [1..8 -> Digit]
  PROVE  Compose(Parse(color).rgb, Parse(color).alpha) = color
<1>1. Len(color) = 8
  BY HexLength
<1>2. color[7] \in Digit /\ color[8] \in Digit
  OBVIOUS
<1>3. Parse(color).alpha = 16 * color[7] + color[8]
  BY <1>1 DEF Parse
<1>4. \A i \in 1..6 : Parse(color).rgb[i] = color[i]
  BY <1>1 DEF Parse
<1>5. \A i \in 1..8 : Compose(Parse(color).rgb, Parse(color).alpha)[i] = color[i]
  BY <1>2, <1>3, <1>4, TwoDigits DEF Compose
<1> QED BY <1>5 DEF Compose

LEMMA ComposeType ==
  ASSUME NEW rgb \in Rgb, NEW alpha \in Alpha
  PROVE  Compose(rgb, alpha) \in [1..8 -> Digit]
BY TwoDigits DEF Compose, Rgb

-----------------------------------------------------------------------------
LEMMA FirstPickerType ==
  ASSUME NEW color \in Color
  PROVE  FirstPicker(color) \in [rgb : Rgb, alpha : Alpha]
<1>1. CASE color = NoColor
  <2>1. Gray \in [1..6 -> Digit]
    BY DEF Gray, Digit
  <2>2. Len(Gray) = 6
    BY DEF Gray
  <2>3. Gray = Background(color)
    BY <1>1 DEF Background
  <2>4. Parse(Gray) \in [rgb : Rgb, alpha : Alpha]
    BY <2>1, <2>2 DEF Parse, Rgb, Alpha, Digit
  <2> QED BY <2>3, <2>4 DEF FirstPicker
<1>2. CASE color # NoColor
  BY <1>2, ParseType DEF FirstPicker, Background
<1> QED BY <1>1, <1>2

LEMMA RowType ==
  ASSUME NEW row \in Row
  PROVE  /\ row.color \in Colors /\ row.color \in Color
         /\ row.value \in Values /\ row.value \in Drafts
BY ColorsAssumption, TrimmedAssumption DEF Row

\* The drafts keep their types through every render.
LEMMA DraftedType ==
  ASSUME TypeOK,
         NEW p \in [rgb : Rgb, alpha : Alpha], NEW e \in Drafts, NEW t \in SUBSET Editors,
         Drafted(p, e, t)
  PROVE  /\ tag' \in Row
         /\ picker' \in [rgb : Rgb, alpha : Alpha]
         /\ editValue' \in Drafts
         /\ pending' \subseteq Editors /\ touched' \subseteq Editors
BY ParseType, RowType DEF TypeOK, Drafted

LEMMA InitType == Init => TypeOK
BY FirstPickerType, RowType DEF Init, TypeOK, Calls, NoCall

LEMMA TypeInductive == TypeOK /\ [Next]_vars => TypeOK'
<1> SUFFICES ASSUME TypeOK, [Next]_vars PROVE TypeOK'
  OBVIOUS
<1> USE DEF NoCall, Calls
<1>1. CASE RunEffects
  BY <1>1, DraftedType DEF RunEffects, TypeOK, popovers
<1>2. CASE \E row \in Row : HostRenders(row)
  BY <1>2 DEF HostRenders, TypeOK, popovers, Editors
<1>3. CASE \E row \in Row : HostRemounts(row)
  BY <1>3, FirstPickerType, RowType DEF HostRemounts, TypeOK
<1>4. CASE ToggleColor \/ ToggleValue
  BY <1>4, DraftedType DEF ToggleColor, ToggleValue, TypeOK
<1>5. ASSUME NEW rgb \in Rgbs, Pick([picker EXCEPT !.rgb = rgb])
      PROVE  TypeOK'
  BY <1>5, DraftedType, PickedAssumption DEF Pick, TypeOK, popovers, Editors
<1>6. ASSUME NEW alpha \in Alphas, Pick([picker EXCEPT !.alpha = alpha])
      PROVE  TypeOK'
  BY <1>6, DraftedType, PickedAssumption DEF Pick, TypeOK, popovers, Editors
<1>7. ASSUME NEW draft \in Drafts, Type(draft)
      PROVE  TypeOK'
  BY <1>7, DraftedType DEF Type, TypeOK, popovers, Editors
<1>8. CASE ApplyColor \/ ClearColor \/ CancelColor
  <2>1. Compose(picker.rgb, picker.alpha) \in Color
    BY ComposeType DEF TypeOK, Color
  <2>2. NoColor \in Color
    BY DEF Color
  <2>3. PICK made \in Calls : CloseColor(made)
    BY <1>8, <2>1, <2>2 DEF ApplyColor, ClearColor, CancelColor
  <2> QED BY <2>3, DraftedType DEF CloseColor, TypeOK
<1>9. CASE ApplyValue
  <2>1. Trimmed[editValue] \in Values \cup {Blank}
    BY TrimmedAssumption DEF TypeOK
  <2> QED BY <1>9, <2>1, DraftedType DEF ApplyValue, TypeOK
<1>10. CASE CancelValue
  <2>1. tag.value \in Drafts /\ touched \ {"value"} \in SUBSET Editors
    BY RowType DEF TypeOK
  <2>2. picker \in [rgb : Rgb, alpha : Alpha]
    BY DEF TypeOK
  <2> QED BY <1>10, <2>1, <2>2, DraftedType DEF CancelValue, TypeOK
<1>11. CASE Remove
  BY <1>11 DEF Remove, TypeOK, popovers
<1>12. CASE UNCHANGED vars
  BY <1>12 DEF vars, popovers, TypeOK
<1> QED
  BY <1>1, <1>2, <1>3, <1>4, <1>5, <1>6, <1>7, <1>8, <1>9, <1>10, <1>11, <1>12
  DEF Next, Host, User

\* The types of the chip's variables; at most one popover is open.
THEOREM ChipTypeCorrect == Spec => []TypeOK
BY InitType, TypeInductive, PTL DEF Spec

LEMMA FollowInductive ==
  UntouchedFollows /\ TypeOK /\ [Next]_vars => UntouchedFollows'
<1> SUFFICES ASSUME UntouchedFollows, TypeOK, [Next]_vars PROVE UntouchedFollows'
  OBVIOUS
<1> USE DEF UntouchedFollows
<1>1. ASSUME NEW t, touched \subseteq t, Drafted(picker, editValue, t)
      PROVE  UntouchedFollows'
  BY <1>1 DEF Drafted
<1>2. CASE RunEffects \/ ToggleColor \/ ToggleValue \/ ApplyValue
  BY <1>1, <1>2 DEF RunEffects, ToggleColor, ToggleValue, ApplyValue
<1>3. CASE ApplyColor \/ ClearColor \/ CancelColor
  BY <1>1, <1>3 DEF ApplyColor, ClearColor, CancelColor, CloseColor
<1>4. CASE \E row \in Row : HostRenders(row)
  BY <1>4 DEF HostRenders, Editors, TypeOK, Row
<1>5. CASE \E row \in Row : HostRemounts(row)
  BY <1>5 DEF HostRemounts, Editors
<1>6. ASSUME NEW p, Pick(p) PROVE UntouchedFollows'
  BY <1>6 DEF Pick, Drafted
<1>7. ASSUME NEW draft, Type(draft) PROVE UntouchedFollows'
  BY <1>7 DEF Type, Drafted
<1>8. CASE CancelValue
  BY <1>8 DEF CancelValue, Drafted
<1>9. CASE Remove \/ UNCHANGED vars
  BY <1>9 DEF Remove, vars
<1> QED
  BY <1>2, <1>3, <1>4, <1>5, <1>6, <1>7, <1>8, <1>9 DEF Next, Host, User

\* A draft the user left alone is the tag's own once its effect has run.
THEOREM DraftsFollow == Spec => []UntouchedFollows
<1>1. Init => UntouchedFollows
  BY DEF Init, UntouchedFollows, Editors
<1> QED BY <1>1, ChipTypeCorrect, FollowInductive, PTL DEF Spec

\* Only Apply calls the host back with a colour, or with a value.
LEMMA ColorCalls ==
  ASSUME Next, call'.to = "color", call'.with # NoColor
  PROVE  ApplyColor
<1> USE DEF NoCall
<1>1. ~(RunEffects \/ ToggleColor \/ ToggleValue \/ CancelValue)
  BY DEF RunEffects, ToggleColor, ToggleValue, CancelValue
<1>2. ~(\E p : Pick(p)) /\ ~(\E draft : Type(draft))
  BY DEF Pick, Type
<1>3. ~Host
  BY DEF Host, HostRenders, HostRemounts
<1>4. ~ClearColor /\ ~CancelColor /\ ~ApplyValue /\ ~Remove
  BY DEF ClearColor, CancelColor, CloseColor, ApplyValue, Remove
<1> QED BY <1>1, <1>2, <1>3, <1>4 DEF Next, User

LEMMA ValueCalls ==
  ASSUME Next, call'.to = "value"
  PROVE  ApplyValue /\ call'.with \notin {Blank, tag.value} /\ call'.with = Trimmed[editValue]
<1> USE DEF NoCall
<1>1. ~(RunEffects \/ ToggleColor \/ ToggleValue \/ CancelValue)
  BY DEF RunEffects, ToggleColor, ToggleValue, CancelValue
<1>2. ~(\E p : Pick(p)) /\ ~(\E draft : Type(draft))
  BY DEF Pick, Type
<1>3. ~Host
  BY DEF Host, HostRenders, HostRemounts
<1>4. ~ApplyColor /\ ~ClearColor /\ ~CancelColor /\ ~Remove
  BY DEF ApplyColor, ClearColor, CancelColor, CloseColor, Remove
<1>5. ApplyValue
  BY <1>1, <1>2, <1>3, <1>4 DEF Next, User
<1> QED BY <1>5 DEF ApplyValue

\* A colour that nobody touched is sent back as it is, digit by digit, however often
\* the tag was rendered anew.
THEOREM ColorStays == Spec => UntouchedColorStays
<1>1. ASSUME TypeOK, UntouchedFollows, Next, call'.to = "color", call'.with # NoColor,
             "color" \notin touched \cup pending, tag.color # NoColor
      PROVE  call'.with = tag.color
  <2>1. call'.with = Compose(Parse(tag.color).rgb, Parse(tag.color).alpha)
    BY <1>1, ColorCalls DEF ApplyColor, CloseColor, UntouchedFollows
  <2>2. tag.color \in [1..8 -> Digit]
    BY <1>1, RowType DEF TypeOK, Color
  <2> QED BY <2>1, <2>2, ComposeParse
<1>2. TypeOK /\ UntouchedFollows /\ [Next]_vars =>
        [/\ call'.to = "color" /\ call'.with # NoColor /\ "color" \notin touched \cup pending
         /\ tag.color # NoColor
         => call'.with = tag.color]_vars
  BY <1>1
<1> QED BY <1>2, ChipTypeCorrect, DraftsFollow, PTL DEF Spec, UntouchedColorStays

\* A value that nobody typed is never sent.
THEOREM ValuesAreTyped == Spec => OnlyTypedValues
<1>1. ASSUME TypeOK, UntouchedFollows, Next, call'.to = "value", "value" \notin pending
      PROVE  "value" \in touched
  <2> SUFFICES ASSUME "value" \notin touched PROVE FALSE
    OBVIOUS
  <2>1. editValue = tag.value
    BY <1>1 DEF UntouchedFollows
  <2>2. Trimmed[editValue] = tag.value
    BY <1>1, <2>1, RowType, TrimmedAssumption DEF TypeOK
  <2> QED BY <1>1, <2>2, ValueCalls
<1>2. TypeOK /\ UntouchedFollows /\ [Next]_vars =>
        [call'.to = "value" /\ "value" \notin pending => "value" \in touched]_vars
  BY <1>1
<1> QED BY <1>2, ChipTypeCorrect, DraftsFollow, PTL DEF Spec, OnlyTypedValues
============================================================================
