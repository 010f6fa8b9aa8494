----------------------------- MODULE LineEditor -----------------------------
(***************************************************************************)
(* The line editor of the keyboard actor: LineState and its key handlers,  *)
(* as functions from a state to a state.  A line is a sequence of          *)
(* characters; hist is 0 on the live line, i on the i-th history entry.    *)
(*                                                                         *)
(* kernel/src/keyboard_actor.rs.                                           *)
(***************************************************************************)
EXTENDS Naturals, Sequences, SequencesExt

CONSTANTS MAX_LINE, MAX_HISTORY

Space == " "
EmptyLine == [buf |-> <<>>, cursor |-> 0, history |-> <<>>, hist |-> 0, saved |-> <<>>]

\* what is left of and right of the cursor
Before(st) == SubSeq(st.buf, 1, st.cursor)
After(st) == SubSeq(st.buf, st.cursor + 1, Len(st.buf))

Edited(st, left, right) == [st EXCEPT !.buf = left \o right, !.cursor = Len(left)]

Pushed(history, s) ==
  IF history # <<>> /\ Last(history) = s THEN history
  ELSE Append(IF Len(history) = MAX_HISTORY THEN Tail(history) ELSE history, s)

Blank(s) == \A i \in DOMAIN s : s[i] = Space

\* str::trim
Trimmed(s) ==
  IF Blank(s) THEN <<>>
  ELSE LET solid == {i \in DOMAIN s : s[i] # Space}
       IN  SubSeq(s, Min(solid), Max(solid))

Submitted(st) ==
  LET line == Trimmed(st.buf) IN
  [st EXCEPT !.buf = <<>>, !.cursor = 0, !.hist = 0,
             !.history = IF line = <<>> THEN @ ELSE Pushed(@, line)]

Backspace(st) ==
  IF st.cursor = 0 THEN st ELSE Edited(st, Front(Before(st)), After(st))

DeleteForward(st) ==
  IF st.cursor = Len(st.buf) THEN st ELSE Edited(st, Before(st), Tail(After(st)))

MoveTo(st, i) == [st EXCEPT !.cursor = i]
MoveLeft(st) == IF st.cursor > 0 THEN MoveTo(st, st.cursor - 1) ELSE st
MoveRight(st) == IF st.cursor < Len(st.buf) THEN MoveTo(st, st.cursor + 1) ELSE st

\* restore_from_history
FromHistory(st, i) ==
  LET entry == st.history[i]
      line  == SubSeq(entry, 1, Min({Len(entry), MAX_LINE}))
  IN  [st EXCEPT !.buf = line, !.cursor = Len(line), !.hist = i]

\* Mutant: the line is saved on every step up.
HistoryUpSaves(st) ==
  IF st.history = <<>> THEN st
  ELSE FromHistory([st EXCEPT !.saved = st.buf],
                   IF st.hist = 0 THEN Len(st.history) ELSE Max({1, st.hist - 1}))

HistoryUp(st) ==
  IF st.history = <<>> THEN st
  ELSE IF st.hist = 0 THEN FromHistory([st EXCEPT !.saved = st.buf], Len(st.history))
  ELSE FromHistory(st, Max({1, st.hist - 1}))

HistoryDown(st) ==
  IF st.hist = 0 THEN st
  ELSE IF st.hist >= Len(st.history)
  THEN [st EXCEPT !.buf = st.saved, !.cursor = Len(st.saved), !.hist = 0]
  ELSE FromHistory(st, st.hist + 1)

KillToEnd(st) == Edited(st, Before(st), <<>>)
KillToStart(st) == Edited(st, <<>>, After(st))

\* Spaces before the cursor, then the word before them.
DeleteWord(st) ==
  LET left  == Before(st)
      solid == {i \in DOMAIN left : left[i] # Space}
      gap   == {i \in DOMAIN left : left[i] = Space /\ \E j \in solid : i < j}
      keep  == IF solid = {} \/ gap = {} THEN 0 ELSE Max(gap)
  IN  Edited(st, SubSeq(left, 1, keep), After(st))

Interrupted(st) == [st EXCEPT !.buf = <<>>, !.cursor = 0, !.hist = 0]

InsertChar(st, c, max_input) ==
  IF Len(st.buf) >= max_input THEN st ELSE Edited(st, Append(Before(st), c), After(st))

\* The match on the key in on_key.
Pressed(st, key, max_input) ==
  CASE key = "enter"  -> Submitted(st)
    [] key = "back"   -> Backspace(st)
    [] key = "delete" -> DeleteForward(st)
    [] key = "left"   -> MoveLeft(st)
    [] key = "right"  -> MoveRight(st)
    [] key = "home"   -> MoveTo(st, 0)
    [] key = "end"    -> MoveTo(st, Len(st.buf))
    [] key = "up"     -> HistoryUp(st)
    [] key = "down"   -> HistoryDown(st)
    [] key = "kill"   -> KillToEnd(st)
    [] key = "start"  -> KillToStart(st)
    [] key = "word"   -> DeleteWord(st)
    [] key = "ctrl_c" -> Interrupted(st)
    [] OTHER          -> InsertChar(st, key, max_input)
=============================================================================
