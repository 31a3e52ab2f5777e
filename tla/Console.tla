------------------------------ MODULE Console ------------------------------
(***************************************************************************)
(* The text console (drivers/console.c): what its operations make of a     *)
(* screen, s = [cell, x, y], where cell holds the characters of the video  *)
(* memory and of one row behind the screen, and x and y are currPos.       *)
(* Colours are left out; there is one window, as large as the screen.      *)
(***************************************************************************)
EXTENDS Integers, Sequences, SequencesExt

CONSTANTS SCREEN_WIDTH, SCREEN_HEIGHT
ASSUME ScreenAssumption == SCREEN_WIDTH \in Nat \ {0, 1} /\ SCREEN_HEIGHT \in Nat \ {0}

Column == 0..(SCREEN_WIDTH - 1)
Row == 0..(SCREEN_HEIGHT - 1)
Blank == " "
NewLineChar == "NL"
Backspace == "BS"
Tab == "TAB"
CursorChar == "CURSOR"       \* the underscore of blinkCursor, told from one that is typed

ScrollUp(s) ==
  [s EXCEPT !.cell = [p \in DOMAIN @ |-> IF p[1] < SCREEN_HEIGHT - 1 THEN @[<<p[1] + 1, p[2]>>]
                                         ELSE IF p[1] = SCREEN_HEIGHT - 1 THEN Blank
                                         ELSE @[p]],
            !.y = @ - 1]

GoNextPosition(s) ==
  IF s.x = SCREEN_WIDTH - 1 THEN [s EXCEPT !.x = 0, !.y = @ + 1] ELSE [s EXCEPT !.x = @ + 1]

BadWriteChar(s, c, next) ==
  LET t == [s EXCEPT !.cell[<<s.y, s.x>>] = c]
  IN IF next THEN GoNextPosition(t) ELSE t

(* printCharColor of an ordinary character.  The screen scrolls when the    *)
(* next character comes, not when the last line is full.                    *)
WriteChar(s, c, next) ==
  LET t == IF s.y = SCREEN_HEIGHT THEN ScrollUp(s) ELSE s
      u == [t EXCEPT !.cell[<<t.y, t.x>>] = c]
  IN IF next THEN GoNextPosition(u) ELSE u

WriteAll(s, chars) == FoldLeft(LAMBDA t, c : WriteChar(t, c, TRUE), s, chars)

(* newLine: blanks, at least one, until the first column. *)
NewLine(s) == WriteAll(s, [i \in 1..(SCREEN_WIDTH - s.x) |-> Blank])

BadDeleteChar(s) ==
  IF s.x = 0 THEN s ELSE WriteChar([s EXCEPT !.x = @ - 1], Blank, FALSE)

DeleteChar(s) ==
  IF s.x > 0 THEN WriteChar([s EXCEPT !.x = @ - 1], Blank, FALSE)
  ELSE IF s.y > 0
  THEN WriteChar([s EXCEPT !.x = SCREEN_WIDTH - 1, !.y = @ - 1], Blank, FALSE)
  ELSE s

(* printCharColor with next = 1. *)
PrintChar(s, c) ==
  LET t == IF s.y = SCREEN_HEIGHT THEN ScrollUp(s) ELSE s
  IN CASE c = Backspace -> DeleteChar(s)
       [] c = NewLineChar -> NewLine(t)
       [] c = Tab -> WriteAll(t, <<Blank, Blank>>)
       [] OTHER -> WriteChar(t, c, TRUE)

PrintAll(s, chars) == FoldLeft(PrintChar, s, chars)

(* clearScreen: one line more than there are. *)
ClearScreen(s) ==
  [FoldLeft(LAMBDA t, i : NewLine(t), [s EXCEPT !.x = 0, !.y = 0],
            [i \in 1..(SCREEN_HEIGHT + 1) |-> i])
     EXCEPT !.x = 0, !.y = 0]

(* stopCursor and blinkCursor draw at the next position and stay there. *)
DrawCursor(s, c) == WriteChar(s, c, FALSE)

(* The character n places before the next position. *)
CellBefore(s, n) ==
  LET p == s.y * SCREEN_WIDTH + s.x - n
  IN s.cell[<<p \div SCREEN_WIDTH, p % SCREEN_WIDTH>>]
=============================================================================
