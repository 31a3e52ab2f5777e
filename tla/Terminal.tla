------------------------------ MODULE Terminal ------------------------------
(***************************************************************************)
(* A user at the terminal: the keyboard driver (drivers/keyboard.c) writes *)
(* keys to the pipe stdin, the shell (shell.c) reads, edits and echoes a   *)
(* line, cuts it into words and starts a program, and everybody prints on  *)
(* the one screen (Console), on which the timer draws the cursor.          *)
(*                                                                         *)
(* One core: whoever is ready may be the one that runs, and a step is a    *)
(* system call up to the point where it blocks.  A key interrupts whoever  *)
(* runs; its handler waits on behalf of that process when stdin is full.   *)
(* The programs are cat and others that print; they end when they like.    *)
(***************************************************************************)
EXTENDS Console, CommandLine

CONSTANTS
  Job,            \* processes that the shell may start, each once
  Key,            \* keys of the keyboard
  Plain, Shifted, \* kbd_US and shift_kbd_US: the characters of a key
  Capacity,       \* PIPE_BUFFER_SIZE
  BUFFER_LENGTH,  \* of the line of the shell
  Prompt,         \* what the shell prints before it reads a line
  MaxTyped,       \* bound: characters that reach stdin
  MaxPrinted,     \* bound: characters that programs print of their own
  Faults          \* "full": keys also come when stdin is full; "nomem"

ASSUME TerminalAssumption ==
  /\ Capacity \in Nat \ {0} /\ BUFFER_LENGTH \in Nat \ {0}
  /\ MaxTyped \in Nat /\ MaxPrinted \in Nat
  /\ DOMAIN Plain = Key /\ DOMAIN Shifted = Key

None == "none"
Eof == "EOF"                 \* the character -1
Star == "*"                  \* what programs print
Shell == "shell"
InitProc == "init"           \* never sleeps, so that it always is there to run
Reader == {Shell} \cup Job
Process == Reader \cup {InitProc}
Char == {Plain[k] : k \in Key} \cup {Shifted[k] : k \in Key} \cup {Eof}
ASSUME NamesAssumption ==
  /\ IsFiniteSet(Job) /\ Job \cap {Shell, InitProc, "idle"} = {}
  /\ {CursorChar, None} \cap Char = {}
  /\ Prompt \in Seq(STRING \ {Backspace, NewLineChar, Tab, CursorChar})

VARIABLES
  screen,         \* as in Console
  cursorActive,
  shift, ctrl,    \* shiftFlag, controlFlag
  stdin,          \* the pipe: the characters that the next reads return, in order,
                  \* and its two semaphores
  state,          \* of the processes
  pending,        \* the character that a process interrupted by a key has to store
  input,          \* where a process is in readStdin, and what it has read
  shell,          \* where the shell is, the bufferIndex characters of its buffer, and
                  \* the places behind them where an earlier line left a tab
  foreground,     \* jobs started without an ampersand
  typed, printed, \* counters for the bounds
  idleKeys,       \* for the properties: characters that idle stored without a unit
  clean           \* for the properties: since the prompt nobody else has printed, and
                  \* no tab was met on deleting

console == <<screen, cursorActive>>
keyboard == <<shift, ctrl>>
counters == <<typed, printed, idleKeys>>
vars == <<screen, cursorActive, shift, ctrl, stdin, state, pending, input, shell,
          foreground, typed, printed, idleKeys, clean>>

-----------------------------------------------------------------------------
(* Semaphores, as in Pipeline: a post resumes the first waiter that is not  *)
(* dead and forgets those before it.                                        *)
Handover(s) == {i \in DOMAIN s.waiters : s.waiters[i] \in Process /\ state[s.waiters[i]] # "EXITED"}
Post(s) == IF Handover(s) = {} THEN [value |-> s.value + 1, waiters |-> <<>>]
           ELSE [s EXCEPT !.waiters = SubSeq(@, Min(Handover(s)) + 1, Len(@))]
Resumed(s) == IF Handover(s) = {} THEN {} ELSE {s.waiters[Min(Handover(s))]}
Taken(s) == [s EXCEPT !.value = @ - 1]
Enlisted(s, p) == [s EXCEPT !.waiters = Append(@, p)]
Waits(p, s) == \E i \in DOMAIN s.waiters : s.waiters[i] = p

Wake(st, P) == [p \in Process |-> IF p \in P THEN "READY" ELSE st[p]]

Ready(p) == state[p] = "READY"
Runs(p) == Ready(p) /\ pending[p] = None

-----------------------------------------------------------------------------
(* The keyboard.  stdin is written by writeToPipe and read by pipeRead; x   *)
(* is the pipe after semWait.  The slot that is written is the one that was *)
(* written Capacity characters ago: if its reads are still due, they will   *)
(* return the new character.                                                *)
Stored(x, c) ==
  LET n == Len(x.chars) + 1
  IN [x EXCEPT !.chars = [i \in 1..n |-> IF (n - i) % Capacity = 0 THEN c ELSE @[i]],
               !.readSem = Post(@)]
Fetched(x) == [x EXCEPT !.chars = Tail(@), !.writeSem = Post(@)]

BadWriteStdin(c) ==         \* faulty: a key that finds stdin full overwrites
  /\ typed < MaxTyped
  /\ typed' = typed + 1
  /\ stdin' = Stored(stdin, c)
  /\ state' = Wake(state, Resumed(stdin.readSem))
  /\ UNCHANGED <<pending, idleKeys>>

(* writeStdin, for whoever is running.  When nobody is ready that is idle,  *)
(* which cannot block: it goes on as if it had got a unit.                  *)
WriteStdin(c) ==
  /\ typed < MaxTyped
  /\ typed' = typed + 1
  /\ \/ /\ stdin.writeSem.value > 0
        /\ stdin' = Stored([stdin EXCEPT !.writeSem = Taken(@)], c)
        /\ state' = Wake(state, Resumed(stdin.readSem))
        /\ UNCHANGED <<pending, idleKeys>>
     \/ /\ stdin.writeSem.value = 0
        /\ "full" \in Faults
        /\ \/ \E p \in Process :
                /\ Runs(p)
                /\ stdin' = [stdin EXCEPT !.writeSem = Enlisted(@, p)]
                /\ state' = [state EXCEPT ![p] = "BLOCKED"]
                /\ pending' = [pending EXCEPT ![p] = c]
                /\ UNCHANGED idleKeys
           \/ /\ ~\E p \in Process : Ready(p)
              /\ stdin' = Stored([stdin EXCEPT !.writeSem = Enlisted(@, "idle")], c)
              /\ state' = Wake(state, Resumed(stdin.readSem))
              /\ idleKeys' = idleKeys + 1
              /\ UNCHANGED pending

(* The process goes on in the handler when it has got a unit. *)
StoresPending(p) ==
  /\ Ready(p)
  /\ pending[p] # None
  /\ stdin' = Stored(stdin, pending[p])
  /\ state' = Wake(state, Resumed(stdin.readSem))
  /\ pending' = [pending EXCEPT ![p] = None]
  /\ UNCHANGED <<screen, cursorActive, shift, ctrl, input, shell, foreground, counters, clean>>

(* A process is killed: the shell, if it waits for it, is resumed. *)
Died(j) == Wake([state EXCEPT ![j] = "EXITED"],
                IF shell.at = "wait" /\ j \in foreground THEN {Shell} ELSE {})

(* It may find one that is already dead. *)
KillCurrentForeground ==
  \/ \E j \in foreground : state[j] # "EXITED" /\ state' = Died(j)
  \/ (foreground = {} \/ \E j \in foreground : state[j] = "EXITED") /\ UNCHANGED state

(* keyboardHandler.  Either shift key sets and clears the one flag.  The     *)
(* user holds one of shift and control at a time.                           *)
ShiftKey == /\ shift \/ (~ctrl /\ typed < MaxTyped)
            /\ shift' = ~shift
            /\ UNCHANGED <<console, ctrl, stdin, state, pending, input, shell, foreground,
                           counters, clean>>
CtrlKey == /\ ~shift
           /\ ctrl' = ~ctrl
           /\ UNCHANGED <<console, shift, stdin, state, pending, input, shell, foreground,
                          counters, clean>>
PressKey(k) ==
  /\ \/ ~ctrl /\ WriteStdin(IF shift THEN Shifted[k] ELSE Plain[k])
     \/ ctrl /\ Plain[k] = "d" /\ WriteStdin(Eof)
     \/ /\ ctrl /\ Plain[k] = "c"
        /\ KillCurrentForeground
        /\ UNCHANGED <<stdin, pending, typed, idleKeys>>
  /\ UNCHANGED <<console, keyboard, input, shell, foreground, printed, clean>>

-----------------------------------------------------------------------------
(* readStdin, called by the shell or by a program in the foreground: the    *)
(* cursor blinks while it waits, and is wiped out when it goes on.          *)
BadSetCursor(active, s) == s
SetCursor(active, s) == IF active THEN s ELSE DrawCursor(s, Blank)

GetsChar(r, x) ==
  /\ stdin' = Fetched(x)
  /\ input' = [input EXCEPT ![r] = [at |-> "got", char |-> Head(x.chars)]]
  /\ cursorActive' = FALSE
  /\ screen' = SetCursor(FALSE, screen)

ReadStdin(r) ==
  /\ \/ /\ stdin.readSem.value > 0
        /\ GetsChar(r, [stdin EXCEPT !.readSem = Taken(@)])
        /\ state' = Wake(state, Resumed(stdin.writeSem))
     \/ /\ stdin.readSem.value = 0
        /\ stdin' = [stdin EXCEPT !.readSem = Enlisted(@, r)]
        /\ state' = [state EXCEPT ![r] = "BLOCKED"]
        /\ input' = [input EXCEPT ![r] = [at |-> "reading", char |-> None]]
        /\ cursorActive' = TRUE
        /\ UNCHANGED screen
  /\ UNCHANGED <<keyboard, pending, shell, foreground, counters, clean>>

ReadReturns(r) ==
  /\ Runs(r)
  /\ input[r].at = "reading"
  /\ GetsChar(r, stdin)
  /\ state' = Wake(state, Resumed(stdin.writeSem))
  /\ UNCHANGED <<keyboard, pending, shell, foreground, counters, clean>>

Idling == [at |-> "idle", char |-> None]

(* timer_handler: blinkCursor. *)
Blink == /\ cursorActive
         /\ \E c \in {Blank, CursorChar} : screen' = DrawCursor(screen, c)
         /\ UNCHANGED <<cursorActive, keyboard, stdin, state, pending, input, shell,
                        foreground, counters, clean>>

-----------------------------------------------------------------------------
(* The shell. *)
ShellAt(at) == Runs(Shell) /\ shell.at = at /\ input[Shell].at = "idle"
ShellGoes(at, s) == /\ shell' = [shell EXCEPT !.at = at]
                    /\ screen' = s

ShellBoots ==
  /\ ShellAt("boot")
  /\ ShellGoes("prompt", PrintAll(ClearScreen(screen), <<Star, NewLineChar>>))
  /\ UNCHANGED <<cursorActive, keyboard, stdin, state, pending, input, foreground, counters, clean>>

ShellPrompts ==
  /\ ShellAt("prompt")
  /\ ShellGoes("line", PrintAll(screen, Prompt))
  /\ clean' = TRUE
  /\ UNCHANGED <<cursorActive, keyboard, stdin, state, pending, input, foreground, counters>>

ShellReads == ShellAt("line") /\ ReadStdin(Shell)

(* getCommandLine, for one character c that does not end the line.  A       *)
(* deletion looks for the tab one place behind the character it deletes,    *)
(* and leaves that character in the buffer.                                 *)
Edit(line, echo, tabs) == [line |-> line, echo |-> echo, tabs |-> tabs]
Adds(c) == Edit(Append(shell.line, c), <<c>>, shell.tabs \ {Len(shell.line)})
Places(n, isTab) == IF isTab THEN {n} ELSE {}
Deletes(echo) == Edit(Front(shell.line), echo,
                      (shell.tabs \ {Len(shell.line)})
                        \cup Places(Len(shell.line) - 1, Last(shell.line) = Tab))
Edited(c) ==
  IF c # Backspace THEN Adds(c)
  ELSE IF shell.line = <<>> THEN Edit(<<>>, <<>>, shell.tabs)
  ELSE Deletes(IF Len(shell.line) \in shell.tabs THEN <<c, c>> ELSE <<c>>)

MeetsTab(c) == /\ c = Backspace /\ shell.line # <<>>
               /\ Last(shell.line) = Tab \/ Len(shell.line) \in shell.tabs

ShellEdits ==
  LET c == input[Shell].char
  IN  /\ Runs(Shell)
      /\ shell.at = "line" /\ input[Shell].at = "got"
      /\ input' = [input EXCEPT ![Shell] = Idling]
      /\ IF c \in {NewLineChar, Eof} \/ Len(shell.line) = BUFFER_LENGTH
         THEN /\ shell' = [shell EXCEPT !.at = "run"]
              /\ screen' = PrintChar(screen, NewLineChar)
              /\ clean' = FALSE
         ELSE /\ shell' = [shell EXCEPT !.line = Edited(c).line,
                                        !.tabs = Edited(c).tabs]
              /\ screen' = PrintAll(screen, Edited(c).echo)
              /\ clean' = (clean /\ ~MeetsTab(c))
      /\ UNCHANGED <<cursorActive, keyboard, stdin, state, pending, foreground,
                     counters>>

(* A new line is written over the old one, whose tabs are still there,      *)
(* except where its last word ends and in the last place.                   *)
EndOfWord == IF shell.line = <<>> \/ Last(shell.line) = Space THEN {} ELSE {Len(shell.line)}
NextLine(at) ==
  LET typedTabs == {i - 1 : i \in {k \in DOMAIN shell.line : shell.line[k] = Tab}}
  IN shell' = [at |-> at, line |-> <<>>,
               tabs |-> (shell.tabs \cup typedTabs) \ (EndOfWord \cup {BUFFER_LENGTH - 1})]

(* runCommandLine: what to run is told by CommandLine.  A line end follows  *)
(* the error message, or the program.                                       *)
ShellRuns ==
  LET todo == RunCommandLine(Args(shell.line))
      refuses == /\ screen' = PrintAll(screen, <<Star, NewLineChar, NewLineChar>>)
                 /\ NextLine("prompt")
                 /\ UNCHANGED <<state, foreground>>
  IN  /\ ShellAt("run")
      /\ \/ /\ todo = Nothing
            /\ screen' = PrintChar(screen, NewLineChar)
            /\ NextLine("prompt")
            /\ UNCHANGED <<state, foreground>>
         \/ /\ todo.error \/ (todo.runs # <<>> /\ "nomem" \in Faults)
            /\ refuses
         \/ /\ todo.runs # <<>>
            /\ \E j \in Job :
                 /\ state[j] = "none"
                 /\ \/ /\ todo.foreground
                       /\ foreground' = foreground \cup {j}
                       /\ state' = [state EXCEPT ![j] = "READY"]
                       /\ NextLine("waitpid")
                       /\ UNCHANGED screen
                    \/ /\ ~todo.foreground
                       /\ state' = [state EXCEPT ![j] = "READY"]
                       /\ NextLine("prompt")
                       /\ screen' = PrintChar(screen, NewLineChar)
                       /\ UNCHANGED foreground
      /\ UNCHANGED <<cursorActive, keyboard, stdin, pending, input, counters, clean>>

ShellWaits ==
  /\ ShellAt("waitpid")
  /\ ShellGoes("wait", screen)
  /\ state' = IF \A j \in foreground : state[j] = "EXITED" THEN state
              ELSE [state EXCEPT ![Shell] = "BLOCKED"]
  /\ UNCHANGED <<cursorActive, keyboard, stdin, pending, input, foreground, counters, clean>>

ShellWaited ==
  /\ ShellAt("wait")
  /\ ShellGoes("prompt", PrintChar(screen, NewLineChar))
  /\ UNCHANGED <<cursorActive, keyboard, stdin, state, pending, input, foreground, counters, clean>>

ShellStep == \/ ShellBoots \/ ShellPrompts \/ ShellReads \/ ReadReturns(Shell) \/ ShellEdits
             \/ ShellRuns \/ ShellWaits \/ ShellWaited

-----------------------------------------------------------------------------
(* Programs: read and echo, as cat does; print; end.  One that runs in the  *)
(* background reads the end of file at once.                                *)
JobAt(j, at) == Runs(j) /\ input[j].at = at

JobReads(j) == JobAt(j, "idle") /\ j \in foreground /\ ReadStdin(j)

JobEchoes(j) ==
  /\ JobAt(j, "got")
  /\ input[j].char # Eof
  /\ screen' = PrintChar(screen, input[j].char)
  /\ input' = [input EXCEPT ![j] = Idling]
  /\ clean' = FALSE
  /\ UNCHANGED <<cursorActive, keyboard, stdin, state, pending, shell, foreground, counters>>

JobPrints(j) ==
  /\ JobAt(j, "idle")
  /\ printed < MaxPrinted
  /\ printed' = printed + 1
  /\ screen' = PrintChar(screen, Star)
  /\ clean' = FALSE
  /\ UNCHANGED <<cursorActive, keyboard, stdin, state, pending, input, shell, foreground,
                 typed, idleKeys>>

JobEnds(j) ==
  /\ JobAt(j, "idle") \/ (JobAt(j, "got") /\ input[j].char = Eof)
  /\ state' = Died(j)
  /\ UNCHANGED <<console, keyboard, stdin, pending, input, shell, foreground,
                 counters, clean>>

JobStep(j) == JobReads(j) \/ ReadReturns(j) \/ JobEchoes(j) \/ JobPrints(j) \/ JobEnds(j)

-----------------------------------------------------------------------------
Init ==
  /\ screen = [cell |-> [p \in (0..SCREEN_HEIGHT) \X Column |-> Blank], x |-> 0, y |-> 0]
  /\ cursorActive = FALSE
  /\ shift = FALSE /\ ctrl = FALSE
  /\ stdin = [chars |-> <<>>,
              readSem |-> [value |-> 0, waiters |-> <<>>],
              writeSem |-> [value |-> Capacity, waiters |-> <<>>]]
  /\ state = [p \in Process |-> IF p \in Job THEN "none" ELSE "READY"]
  /\ pending = [p \in Process |-> None]
  /\ input = [r \in Reader |-> Idling]
  /\ shell = [at |-> "boot", line |-> <<>>, tabs |-> {}]
  /\ foreground = {}
  /\ typed = 0 /\ printed = 0 /\ idleKeys = 0 /\ clean = FALSE

KeyStep == ShiftKey \/ CtrlKey \/ \E k \in Key : PressKey(k)

Next == \/ KeyStep \/ Blink \/ ShellStep
        \/ \E p \in Process : StoresPending(p)
        \/ \E j \in Job : JobStep(j)

Spec == Init /\ [][Next]_vars

-----------------------------------------------------------------------------
Semaphore == [value : Nat, waiters : Seq(Process \cup {"idle"})]

(* Every variable holds what its declaration allows; nothing is printed     *)
(* behind the screen, whose last row and column the next position may pass  *)
(* only as the code lets it.                                                *)
TypeOK ==
  /\ screen.x \in Column /\ screen.y \in 0..SCREEN_HEIGHT
  /\ screen.y = SCREEN_HEIGHT => screen.x = 0
  /\ \A p \in DOMAIN screen.cell : p[1] = SCREEN_HEIGHT => screen.cell[p] = Blank
  /\ {cursorActive, shift, ctrl, clean} \subseteq BOOLEAN
  /\ stdin \in [chars : Seq(Char), readSem : Semaphore, writeSem : Semaphore]
  /\ state \in [Process -> {"none", "READY", "BLOCKED", "EXITED"}]
  /\ pending \in [Process -> Char \cup {None}]
  /\ input \in [Reader -> [at : {"idle", "reading", "got"}, char : Char \cup {None}]]
  /\ shell \in [at : {"boot", "prompt", "line", "run", "waitpid", "wait"},
                line : Seq(Char), tabs : SUBSET (0..(BUFFER_LENGTH - 1))]
  /\ Len(shell.line) <= BUFFER_LENGTH
  /\ foreground \subseteq Job
  /\ typed \in 0..MaxTyped /\ idleKeys \in 0..MaxTyped /\ printed \in 0..MaxPrinted

(* What stands before the cursor while the user edits is the prompt and the *)
(* line that will be run, over the ends of rows, the scrolling of the       *)
(* screen and deletions back across both (getCommandLine, printCharColor,   *)
(* deleteChar, blinkCursor, stopCursor).                                    *)
Shown(c) == IF c = Tab THEN <<Blank, Blank>> ELSE <<c>>
Text(chars) == FoldLeft(LAMBDA t, c : t \o Shown(c), <<>>, chars)
LineShown ==
  shell.at = "line" /\ clean =>
    LET text == Prompt \o Text(shell.line)
        place == screen.y * SCREEN_WIDTH + screen.x
    IN \A n \in 1..Len(text) : n <= place => CellBefore(screen, n) = text[Len(text) + 1 - n]

(* A cursor that was drawn is at the next position: readStdin wipes it out  *)
(* or the next character replaces it, whoever prints it, also after Ctrl-C  *)
(* on a process that was reading (setCursor, blinkCursor).                  *)
NoStrayCursor ==
  \A p \in DOMAIN screen.cell : screen.cell[p] = CursorChar => p = <<screen.y, screen.x>>

(* Every character of stdin is counted by readSem or due to a process that  *)
(* has been resumed in pipeRead, and every place by writeSem or due to one  *)
(* that was stopped by a key; Ctrl-C may take a unit with the process that  *)
(* it kills, a key that idle handles makes one, and nothing else does       *)
(* (semPost, semWait, keyboardHandler).                                     *)
Due(p) == pending[p] # None /\ ~Waits(p, stdin.writeSem)
Reading(r) == input[r].at = "reading" /\ ~Waits(r, stdin.readSem)
Living(P) == {p \in P : state[p] # "EXITED"}
Between(P, n) == Cardinality(Living(P)) <= n /\ n <= Cardinality(P)
StdinUnits ==
  LET unread == Len(stdin.chars)
  IN /\ Between({r \in Reader : Reading(r)}, unread - stdin.readSem.value)
     /\ Between({p \in Process : Due(p)},
                Capacity + idleKeys - unread - stdin.writeSem.value)

=============================================================================
