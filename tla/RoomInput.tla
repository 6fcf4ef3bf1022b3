------------------------------ MODULE RoomInput ------------------------------
(***************************************************************************)
(* The input area of the room (internal/ui/room: room.Model with its       *)
(* compose and approval components).  Bubble Tea models are values: an     *)
(* operator here takes the model m and returns the next one, as the        *)
(* methods of the code do.  Text is a value; layout, cursor and history    *)
(* contents are left out.                                                  *)
(***************************************************************************)
EXTENDS Integers

NoText == "none"        \* the empty composer

\* kind: what the input area is; previous, restore: input kind and focus to
\* return to when the approval prompt goes away; editable: the textarea has
\* the focus of its component (a blurred textarea ignores keys).
NewRoom == [kind |-> "compose", previous |-> "compose", focus |-> "input",
            restore |-> "input", text |-> NoText, editable |-> TRUE]

SetComposeValue(m, t) == [m EXCEPT !.text = t]

\* SetComposeValue of a text that comes back, unless a new one is there.
RestoreComposer(m, t) == IF m.text = NoText THEN SetComposeValue(m, t) ELSE m

\* The submitted text leaves the composer, unless it has changed.
ClearSubmitted(m, t) == IF m.text = t THEN SetComposeValue(m, NoText) ELSE m

\* The composer shows a staged submission, or will when the prompt goes away.
IsStaged(m) == m.kind = "staged" \/ (m.kind = "approval" /\ m.previous = "staged")

SetStagedKind(m) ==
    IF m.kind = "approval" THEN [m EXCEPT !.previous = "staged"]
                           ELSE [m EXCEPT !.kind = "staged"]

SetComposerStaged(m, t) == [SetStagedKind(m) EXCEPT !.text = t, !.editable = FALSE]

\* Faulty variant: the textarea stays blurred.
ClearComposerStagedBlurred(m) ==
    CASE m.kind = "staged" -> [m EXCEPT !.kind = "compose"]
      [] m.kind = "approval" /\ m.previous = "staged" -> [m EXCEPT !.previous = "compose"]
      [] OTHER -> m

ClearComposerStaged(m) ==
    IF ~IsStaged(m) THEN m
    ELSE [m EXCEPT !.kind = IF @ = "approval" THEN @ ELSE "compose",
                   !.previous = "compose",
                   !.editable = @ \/ m.focus = "input"]

ShowApproval(m) ==
    LET saved == IF m.kind = "approval" THEN m
                 ELSE [m EXCEPT !.previous = m.kind, !.restore = m.focus]
    IN  [saved EXCEPT !.kind = "approval", !.focus = "input", !.editable = FALSE]

\* composeFocus, when the composer is what the user is at.
ComposeFocus(m) ==
    [m EXCEPT !.editable = @ \/ (m.focus = "input" /\ m.kind = "compose")]

ClearApproval(m) ==
    ComposeFocus([m EXCEPT !.kind = m.previous, !.focus = m.restore,
                           !.previous = "compose", !.restore = "input"])

\* Ctrl+O.
ToggleFocus(m) ==
    IF m.focus = "input" THEN [m EXCEPT !.focus = "history", !.editable = FALSE]
                         ELSE ComposeFocus([m EXCEPT !.focus = "input"])

AtComposer(m) == m.focus = "input" /\ m.kind = "compose"
AtStaged(m)   == m.focus = "input" /\ m.kind = "staged"
AtApproval(m) == m.focus = "input" /\ m.kind = "approval"

==============================================================================
