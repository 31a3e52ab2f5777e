---------------------------- MODULE CommandLine ----------------------------
(***************************************************************************)
(* What the shell makes of a line (shell.c): getCommandLine cuts it into   *)
(* words, runCommandLine decides what to run.  A line is the sequence of   *)
(* its characters.                                                         *)
(***************************************************************************)
EXTENDS Integers, Sequences, FiniteSets, SequencesExt

CONSTANTS Commands,   \* the names in commandList, in lower case
          LowerCase   \* toLower of the characters

Space == " "
Pipe == <<"|">>
Ampersand == <<"&">>

BadArgs(line) ==
  FoldLeft(LAMBDA acc, i :
             IF line[i] = Space /\ acc.inWord
             THEN [acc EXCEPT !.inWord = FALSE,
                              !.args = Append(@, SubSeq(line, acc.start, i - 1))]
             ELSE IF ~acc.inWord /\ line[i] # Space
             THEN [acc EXCEPT !.inWord = TRUE, !.start = i]
             ELSE acc,
           [inWord |-> FALSE, start |-> 1, args |-> <<>>],
           [i \in 1..Len(line) |-> i]).args

(* The loop of getCommandLine: inWord is isPrevChar, start strStart.  The   *)
(* word the line ends with is added after it.                               *)
Args(line) ==
  LET last ==
        FoldLeft(LAMBDA acc, i :
                   IF line[i] = Space /\ acc.inWord
                   THEN [acc EXCEPT !.inWord = FALSE,
                                    !.args = Append(@, SubSeq(line, acc.start, i - 1))]
                   ELSE IF ~acc.inWord /\ line[i] # Space
                   THEN [acc EXCEPT !.inWord = TRUE, !.start = i]
                   ELSE acc,
                 [inWord |-> FALSE, start |-> 1, args |-> <<>>],
                 [i \in 1..Len(line) |-> i])
  IN IF last.inWord THEN Append(last.args, SubSeq(line, last.start, Len(line)))
     ELSE last.args

(* _strcasecmp of two words, when only equality matters. *)
SameWord(v, w) == [i \in DOMAIN v |-> LowerCase[v[i]]] = [i \in DOMAIN w |-> LowerCase[w[i]]]
GetCommand(w) == \E name \in Commands : SameWord(name, w)

(* findPipe: the place of the first bar among the words, or 0. *)
FindPipe(args) ==
  IF \E i \in DOMAIN args : SameWord(args[i], Pipe)
  THEN CHOOSE i \in DOMAIN args :
         SameWord(args[i], Pipe) /\ \A j \in 1..(i - 1) : ~SameWord(args[j], Pipe)
  ELSE 0

Nothing == [runs |-> <<>>, error |-> FALSE, foreground |-> FALSE]
Error == [Nothing EXCEPT !.error = TRUE]

BadRunCommandLine(args) ==
  LET bar == FindPipe(args)
      foreground == ~SameWord(args[Len(args)], Ampersand)
      end == Len(args)
  IN IF args = <<>> THEN Nothing
     ELSE IF bar = 0
     THEN IF ~GetCommand(args[1]) THEN Error
          ELSE [Nothing EXCEPT !.runs = <<SubSeq(args, 1, end)>>, !.foreground = foreground]
     ELSE IF bar = 1 \/ bar = Len(args) THEN Error
     ELSE IF ~GetCommand(args[1]) \/ ~GetCommand(args[bar + 1]) THEN Error
     ELSE [Nothing EXCEPT !.runs = <<SubSeq(args, 1, bar - 1), SubSeq(args, bar + 1, end)>>,
                          !.foreground = foreground]

(* runCommandLine and linkPipe: the programs to start, each with its        *)
(* arguments, and whether to wait for them; or an error message.            *)
RunCommandLine(args) ==
  LET bar == FindPipe(args)
      foreground == ~SameWord(args[Len(args)], Ampersand)
      end == IF foreground THEN Len(args) ELSE Len(args) - 1
  IN IF args = <<>> THEN Nothing
     ELSE IF bar = 0
     THEN IF ~GetCommand(args[1]) THEN Error
          ELSE [Nothing EXCEPT !.runs = <<SubSeq(args, 1, end)>>, !.foreground = foreground]
     ELSE IF bar = 1 \/ bar = Len(args) THEN Error
     ELSE IF ~GetCommand(args[1]) \/ ~GetCommand(args[bar + 1]) THEN Error
     ELSE [Nothing EXCEPT !.runs = <<SubSeq(args, 1, bar - 1), SubSeq(args, bar + 1, end)>>,
                          !.foreground = foreground]
=============================================================================
