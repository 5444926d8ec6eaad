---------------------------- MODULE BattlePicker ----------------------------
(***************************************************************************)
(* The screen on which the owner picks the friend to fight                 *)
(* (src/src/game/battle_view.rs), over the friends list of Friends.  It    *)
(* keeps a cursor into the list and reads the list again when the button   *)
(* is pressed.  Every button is followed by a drawing; a beacon is not,    *)
(* unless its boost shows a toast.                                         *)
(***************************************************************************)
EXTENDS Friends

VARIABLE view   \* [open, cursor, lit], lit the friend last drawn highlighted

pickerVars == <<vars, view>>

NoOne == "no one"
Closed == [open |-> FALSE, cursor |-> 0, lit |-> NoOne]

PickerInit == Init /\ view = [b \in Badges |-> Closed]

Highlight(b, cursor) ==
    IF cursor < Len(friends[b]) THEN friends[b][cursor + 1].id ELSE NoOne
Drawn(b, cursor) ==
    /\ view' = [view EXCEPT ![b] = [open |-> TRUE, cursor |-> cursor, lit |-> Highlight(b, cursor)]]
    /\ UNCHANGED vars

Open(b) == b \in Players /\ ~view[b].open /\ Drawn(b, 0)
CursorUp(b) ==
    /\ view[b].open
    /\ Drawn(b, IF view[b].cursor > 0 THEN view[b].cursor - 1
                ELSE IF friends[b] = <<>> THEN 0 ELSE Len(friends[b]) - 1)
CursorDown(b) ==
    /\ view[b].open
    /\ Drawn(b, IF view[b].cursor + 1 < Len(friends[b]) THEN view[b].cursor + 1
                ELSE IF friends[b] = <<>> THEN view[b].cursor ELSE 0)
Redraw(b) == view[b].open /\ Drawn(b, view[b].cursor)
Close(b) == view[b].open /\ view' = [view EXCEPT ![b] = Closed] /\ UNCHANGED vars

\* try_challenge(), on Fire: the friend at the cursor, by now.
TryChallenge(b, o) ==
    /\ view[b].open /\ view[b].cursor < Len(friends[b])
    /\ Challenge(b, friends[b][view[b].cursor + 1].id, o)
    /\ view' = [view EXCEPT ![b] = Closed]

Reboot(b) == Restart(b) /\ view' = [view EXCEPT ![b] = Closed]

PickerNext ==
    \/ \E b \in Badges :
        \/ Open(b) \/ CursorUp(b) \/ CursorDown(b) \/ Redraw(b) \/ Close(b)
        \/ \E o \in Outcomes : TryChallenge(b, o)
        \/ Reboot(b)
    \/ Others /\ UNCHANGED view

PickerSpec == PickerInit /\ [][PickerNext]_pickerVars

--------------------------------------------------------------------------
\* battle_view.rs:5 "Fire challenges the highlighted friend": the friend that
\* is fought is the one the picker last showed highlighted.
HighlightedIsChallenged ==
    [][\A p \in said' \ said : p.target = view[p.from].lit]_pickerVars
=============================================================================
