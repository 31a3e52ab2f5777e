------------------------------ MODULE Pipeline ------------------------------
(***************************************************************************)
(* Pipes (pipes/pipes.c), as the pipe operator of the shell uses them      *)
(* (shell.c: linkPipe): the shell opens a pipe, starts a program that      *)
(* writes to it and one that reads from it until the end of file, waits    *)
(* for both if they are in the foreground, and closes the pipe.  Processes *)
(* hold a pipe open from startTask until the scheduler frees them          *)
(* (processManager.c: initializeBlock, freeProcess).                       *)
(*                                                                         *)
(* One core; a system call runs with interrupts disabled up to the point   *)
(* where it blocks, and call says what is left of it.  The scheduler is    *)
(* the one of ProcessManager seen from outside: any ready process may be   *)
(* next, and a process that was waited for is freed between two others.    *)
(***************************************************************************)
EXTENDS Integers, Sequences, FiniteSets

CONSTANTS
  Job,        \* the pipelines the user types; each has a pipe of its own
  Byte,       \* what programs print
  Capacity,   \* PIPE_BUFFER_SIZE
  MaxOut,     \* bound: bytes a program prints
  Faults      \* what may happen beside a calm run: "nomem", "ctrlc", "deaf", "full"

ASSUME CapacityAssumption == Capacity \in Nat \ {0} /\ MaxOut \in Nat

None == "none"
Eof == "eof"              \* the byte -1

ASSUME ValueAssumption == None \notin Job /\ None \notin Byte /\ Eof \notin Byte

Shell == <<"shell", None>>
Scheduler == <<"scheduler", None>>   \* scheduleTask, and idle when nothing is ready

Writer(j) == <<"writer", j>>
Reader(j) == <<"reader", j>>
Program == {"writer", "reader"} \X Job
Process == Program \cup {Shell}
JobOf(p) == p[2]

VARIABLES
  pipe,       \* pipeQueue
  cached,     \* cachedPipe, by the job its pipe is of
  allPipes,   \* allPipesSem
  state,      \* states of the processes
  running,    \* the process that has the processor
  call,       \* the rest of a pipeRead or pipePutchar that waits
  shell,      \* where the shell is in linkPipe, its pipeline, the pipelines
              \* typed so far and those of them typed without an ampersand
  out, in     \* bytes stored in the pipe of each job and bytes read from it

vars == <<pipe, cached, allPipes, state, running, call, shell, out, in>>

NoPipe ==
  [open |-> FALSE, total |-> 0, buffer |-> [i \in 0..(Capacity - 1) |-> None],
   readIndex |-> 0, writeIndex |-> 0,
   readSem |-> [value |-> 0, waiters |-> <<>>],
   writeSem |-> [value |-> 0, waiters |-> <<>>]]
NewPipe == [NoPipe EXCEPT !.open = TRUE, !.writeSem.value = Capacity]

Foreground(p) == JobOf(p) \in shell.fg

-----------------------------------------------------------------------------
(* semPost of sem.c: the first waiter that can be resumed gets the unit,    *)
(* those before it are dropped.                                             *)
Handover(s) == {i \in 1..Len(s.waiters) : state[s.waiters[i]] \in {"READY", "BLOCKED"}}
First(S) == CHOOSE i \in S : \A k \in S : i <= k
(* The Bad operators are faulty forms of the definitions that follow them,  *)
(* for the mutation runs; nothing uses them.  Here: a post that wakes       *)
(* nobody.                                                                  *)
BadPost(s) == [s EXCEPT !.value = @ + 1]

Post(s) ==
  IF Handover(s) = {}
  THEN [value |-> s.value + 1, waiters |-> <<>>]
  ELSE [s EXCEPT !.waiters = SubSeq(@, First(Handover(s)) + 1, Len(@))]
Resumed(s) == IF Handover(s) = {} THEN {} ELSE {s.waiters[First(Handover(s))]}

Taken(s) == [s EXCEPT !.value = @ - 1]
Enlisted(s, p) == [s EXCEPT !.waiters = Append(@, p)]

Wake(st, P) == [p \in Process |-> IF p \in P THEN "READY" ELSE st[p]]

(* getPipe leaves what it finds in cachedPipe and returns it. *)
Lookup(j) == IF cached = j \/ pipe[j].open THEN j ELSE None

-----------------------------------------------------------------------------
(* The second half of writeToPipe and of pipeRead: x is the pipe after      *)
(* semWait.                                                                 *)
BadStored(x, c) ==         \* faulty: the index does not wrap
  [x EXCEPT !.buffer[x.writeIndex] = c,
            !.writeIndex = @ + 1,
            !.readSem = Post(@)]
Stored(x, c) ==
  [x EXCEPT !.buffer[x.writeIndex] = c,
            !.writeIndex = (@ + 1) % Capacity,
            !.readSem = Post(@)]
BadFetched(x) ==           \* faulty: the slot is not given back
  [x EXCEPT !.readIndex = (@ + 1) % Capacity]
BadFetchedTwice(x) ==      \* faulty: the index does not move
  [x EXCEPT !.writeSem = Post(@)]
Fetched(x) ==
  [x EXCEPT !.readIndex = (@ + 1) % Capacity,
            !.writeSem = Post(@)]

(* pipeClose on a pipe x: the last process that leaves destroys it. *)
BadClosed(x) ==            \* faulty: "menor a cero"
  IF x.total < 0 THEN NoPipe ELSE [x EXCEPT !.total = @ - 1]
Closed(x) == IF x.total <= 1 THEN NoPipe ELSE [x EXCEPT !.total = @ - 1]
BadCachedAfterClose(j) == j   \* faulty: cachedPipe points to the freed pipe
CachedAfterClose(j) == IF pipe[j].total <= 1 THEN None ELSE j

-----------------------------------------------------------------------------
(* Programs.  A process calls the kernel when it runs and has no call in    *)
(* progress.  Interrupts arrive between two steps, also when a process was  *)
(* just switched to and has yet to go on with its call: endInterrupt        *)
(* enables them before iretq.                                               *)
InKernel(p) == IF p = Shell THEN shell.at \in {"opening", "waiting1", "waiting2"}
                            ELSE call[p] # None
InUser(p) == running = p /\ ~InKernel(p)

Block(p) == /\ state' = [state EXCEPT ![p] = "BLOCKED"]
            /\ running' = Scheduler

(* sysWrite on the pipe, byte by byte: pipePutchar, writeToPipe. *)
Store(j, x, c) ==
  /\ pipe' = [pipe EXCEPT ![j] = Stored(x, c)]
  /\ state' = Wake(state, Resumed(x.readSem))
  /\ out' = [out EXCEPT ![j] = Append(@, c)]
  /\ UNCHANGED running

Put(j, c) ==
  /\ InUser(Writer(j))
  /\ Len(out[j]) < MaxOut
  /\ cached' = Lookup(j)
  /\ \/ /\ pipe[j].writeSem.value > 0
        /\ Store(j, [pipe[j] EXCEPT !.writeSem = Taken(@)], c)
        /\ UNCHANGED call
     \/ /\ pipe[j].writeSem.value = 0
        /\ pipe' = [pipe EXCEPT ![j].writeSem = Enlisted(@, Writer(j))]
        /\ Block(Writer(j))
        /\ call' = [call EXCEPT ![Writer(j)] = c]
        /\ UNCHANGED out
  /\ UNCHANGED <<allPipes, shell, in>>

PutReturns(j) ==
  /\ running = Writer(j)
  /\ call[Writer(j)] # None
  /\ Store(j, pipe[j], call[Writer(j)])
  /\ call' = [call EXCEPT ![Writer(j)] = None]
  /\ UNCHANGED <<cached, allPipes, shell, in>>

(* getChar on the pipe: sysRead, pipeRead.  cat, wc and filter read until   *)
(* they get the end of file.                                                *)
AtEnd(j) == \E i \in 1..Len(in[j]) : in[j][i] = Eof

Fetch(j, x) ==
  /\ pipe' = [pipe EXCEPT ![j] = Fetched(x)]
  /\ state' = Wake(state, Resumed(x.writeSem))
  /\ in' = [in EXCEPT ![j] = Append(@, x.buffer[x.readIndex])]
  /\ UNCHANGED running

Get(j) ==
  /\ InUser(Reader(j))
  /\ ~AtEnd(j)
  /\ cached' = Lookup(j)
  /\ \/ /\ pipe[j].readSem.value > 0
        /\ Fetch(j, [pipe[j] EXCEPT !.readSem = Taken(@)])
        /\ UNCHANGED call
     \/ /\ pipe[j].readSem.value = 0
        /\ pipe' = [pipe EXCEPT ![j].readSem = Enlisted(@, Reader(j))]
        /\ Block(Reader(j))
        /\ call' = [call EXCEPT ![Reader(j)] = "get"]
        /\ UNCHANGED in
  /\ UNCHANGED <<allPipes, shell, out>>

GetReturns(j) ==
  /\ running = Reader(j)
  /\ call[Reader(j)] # None
  /\ Fetch(j, pipe[j])
  /\ call' = [call EXCEPT ![Reader(j)] = None]
  /\ UNCHANGED <<cached, allPipes, shell, out>>

-----------------------------------------------------------------------------
(* The death of a process posts its exit semaphore: the shell, if it is     *)
(* waiting there, is resumed.                                               *)
ShellWaitsFor(p) == /\ state[Shell] = "BLOCKED"
                    /\ \/ shell.at = "waiting1" /\ p = Writer(shell.job)
                       \/ shell.at = "waiting2" /\ p = Reader(shell.job)
Died(p) == Wake([state EXCEPT ![p] = "EXITED"], IF ShellWaitsFor(p) THEN {Shell} ELSE {})

(* Without "full" a writer neither returns nor is killed while its end of   *)
(* file would not fit in the buffer: see freeProcess.                       *)
Fits(p) == "full" \in Faults \/ p = Reader(JobOf(p)) \/ pipe[JobOf(p)].writeSem.value > 0

(* A program returns.  A reader does so at the end of its input, or         *)
(* whenever it likes if it never reads ("deaf").                            *)
Exit(p) ==
  /\ InUser(p)
  /\ p = Writer(JobOf(p)) \/ AtEnd(JobOf(p)) \/ "deaf" \in Faults
  /\ Fits(p)
  /\ state' = Died(p)
  /\ running' = Scheduler
  /\ UNCHANGED <<pipe, cached, allPipes, call, shell, out, in>>

(* Ctrl-C kills the running process or, if the shell or a background        *)
(* process is running, a foreground process of the queue.                   *)
CtrlC(p) ==
  /\ "ctrlc" \in Faults
  /\ Foreground(p)
  /\ running \in Program /\ Foreground(running) => p = running
  /\ state[p] \in {"READY", "BLOCKED"}
  /\ Fits(p)
  /\ state' = Died(p)
  /\ running' = IF running = p THEN Scheduler ELSE running
  /\ UNCHANGED <<pipe, cached, allPipes, call, shell, out, in>>

(* init reaps the background processes. *)
InitReaps(p) ==
  /\ running = Scheduler
  /\ state[p] = "EXITED"
  /\ ~Foreground(p)
  /\ state' = [state EXCEPT ![p] = "TERMINATED"]
  /\ UNCHANGED <<pipe, cached, allPipes, running, call, shell, out, in>>

(* freeProcess in the loop of scheduleTask, with the dead process as the    *)
(* current one: it cannot be blocked, so semWait returns with or without a  *)
(* unit.                                                                    *)
Free(p) ==
  LET j == JobOf(p)
      x == IF pipe[j].writeSem.value > 0
           THEN [pipe[j] EXCEPT !.writeSem = Taken(@)]
           ELSE [pipe[j] EXCEPT !.writeSem = Enlisted(@, p)]
  IN  /\ running = Scheduler
      /\ state[p] = "TERMINATED"
      /\ cached' = CachedAfterClose(j)
      /\ allPipes' = IF allPipes.value > 0 THEN allPipes ELSE Post(Enlisted(allPipes, p))
      /\ \/ /\ p = Writer(j)
            /\ pipe' = [pipe EXCEPT ![j] = Closed(Stored(x, Eof))]
            /\ state' = Wake([state EXCEPT ![p] = "freed"],
                             Resumed(x.readSem) \cup Resumed(allPipes))
            /\ out' = [out EXCEPT ![j] = Append(@, Eof)]
         \/ /\ p = Reader(j)
            /\ pipe' = [pipe EXCEPT ![j] = Closed(@)]
            /\ state' = Wake([state EXCEPT ![p] = "freed"], Resumed(allPipes))
            /\ UNCHANGED out
      /\ UNCHANGED <<running, call, shell, in>>

-----------------------------------------------------------------------------
(* The shell in linkPipe: one step per system call. *)
ShellAt(at) == running = Shell /\ shell.at = at

(* The part of pipeOpen that allPipesSem guards, for a new pipe; s is the   *)
(* semaphore after semWait.  If createPipe has no memory, pipeOpen returns  *)
(* with the unit.  That it has none for the node of the pipe, which then is *)
(* in no queue, is left out, as are failing mallocs of find and semWait.    *)
Opened(j, fg, s) ==
  /\ pipe' = [pipe EXCEPT ![j] = [NewPipe EXCEPT !.total = 1]]
  /\ cached' = None
  /\ allPipes' = Post(s)
  /\ shell' = [at |-> "start1", job |-> j, typed |-> shell.typed \cup {j},
               fg |-> IF fg THEN shell.fg \cup {j} ELSE shell.fg]
NotOpened(s) ==
  /\ "nomem" \in Faults
  /\ cached' = None
  /\ allPipes' = s
  /\ shell' = [shell EXCEPT !.at = "prompt", !.job = None]
  /\ UNCHANGED pipe

ShellOpen(j, fg) ==
  /\ ShellAt("prompt")
  /\ j \notin shell.typed
  /\ \/ /\ allPipes.value > 0
        /\ Opened(j, fg, Taken(allPipes)) \/ NotOpened(Taken(allPipes))
        /\ UNCHANGED <<state, running>>
     \/ /\ allPipes.value = 0
        /\ allPipes' = Enlisted(allPipes, Shell)
        /\ shell' = [shell EXCEPT !.at = "opening", !.job = j]
        /\ Block(Shell)
        /\ UNCHANGED <<pipe, cached>>
  /\ UNCHANGED <<call, out, in>>

ShellOpens ==
  /\ ShellAt("opening")
  /\ \/ \E fg \in BOOLEAN : Opened(shell.job, fg, allPipes)
     \/ NotOpened(allPipes)
  /\ UNCHANGED <<state, running, call, out, in>>

(* startTask: initializeBlock opens the pipe for the new process; the       *)
(* descriptor stays open if the exit semaphore cannot be created.           *)
ShellStart(at, p, next) ==
  LET j == shell.job
  IN  /\ ShellAt(at)
      /\ \/ /\ pipe' = [pipe EXCEPT ![j].total = @ + 1]
            /\ cached' = Lookup(j)
            /\ state' = [state EXCEPT ![p] = "READY"]
            /\ shell' = [shell EXCEPT !.at = next]
         \/ /\ "nomem" \in Faults
            /\ \/ UNCHANGED <<pipe, cached>>
               \/ /\ pipe' = [pipe EXCEPT ![j].total = @ + 1]
                  /\ cached' = Lookup(j)
            /\ shell' = [shell EXCEPT !.at = IF at = "start1" THEN "close" ELSE "kill1"]
            /\ UNCHANGED state
      /\ UNCHANGED <<allPipes, running, call, out, in>>

ShellStartWriter == ShellStart("start1", Writer(shell.job), "start2")
ShellStartReader ==
  ShellStart("start2", Reader(shell.job), IF shell.job \in shell.fg THEN "wait1" ELSE "close")

ShellKillsWriter ==
  /\ ShellAt("kill1")
  /\ Fits(Writer(shell.job))
  /\ state' = IF state[Writer(shell.job)] \in {"READY", "BLOCKED"}
              THEN Died(Writer(shell.job)) ELSE state
  /\ shell' = [shell EXCEPT !.at = "close"]
  /\ UNCHANGED <<pipe, cached, allPipes, running, call, out, in>>

(* waitpid, and its return *)
ShellWait(at, p, waiting, next) ==
  /\ ShellAt(at)
  /\ \/ /\ state[p] = "EXITED"
        /\ state' = [state EXCEPT ![p] = "TERMINATED"]
        /\ shell' = [shell EXCEPT !.at = next]
        /\ UNCHANGED running
     \/ /\ state[p] # "EXITED"
        /\ Block(Shell)
        /\ shell' = [shell EXCEPT !.at = waiting]
  /\ UNCHANGED <<pipe, cached, allPipes, call, out, in>>

ShellWaited(waiting, p, next) ==
  /\ ShellAt(waiting)
  /\ state' = [state EXCEPT ![p] = "TERMINATED"]
  /\ shell' = [shell EXCEPT !.at = next]
  /\ UNCHANGED <<pipe, cached, allPipes, running, call, out, in>>

ShellWaits == \/ ShellWait("wait1", Writer(shell.job), "waiting1", "wait2")
              \/ ShellWaited("waiting1", Writer(shell.job), "wait2")
              \/ ShellWait("wait2", Reader(shell.job), "waiting2", "close")
              \/ ShellWaited("waiting2", Reader(shell.job), "close")

ShellClose ==
  /\ ShellAt("close")
  /\ pipe' = [pipe EXCEPT ![shell.job] = Closed(@)]
  /\ cached' = CachedAfterClose(shell.job)
  /\ shell' = [shell EXCEPT !.at = "prompt", !.job = None]
  /\ UNCHANGED <<allPipes, state, running, call, out, in>>

-----------------------------------------------------------------------------
(* The timer, and the choice of the next process. *)
Tick ==
  /\ running # Scheduler
  /\ running' = Scheduler
  /\ UNCHANGED <<pipe, cached, allPipes, state, call, shell, out, in>>

Dispatch(p) ==
  /\ running = Scheduler
  /\ state[p] = "READY"
  /\ running' = p
  /\ UNCHANGED <<pipe, cached, allPipes, state, call, shell, out, in>>

-----------------------------------------------------------------------------
Init ==
  /\ pipe = [j \in Job |-> NoPipe]
  /\ cached = None
  /\ allPipes = [value |-> 1, waiters |-> <<>>]
  /\ state = [p \in Process |-> IF p = Shell THEN "READY" ELSE "none"]
  /\ running = Shell
  /\ call = [p \in Program |-> None]
  /\ shell = [at |-> "prompt", job |-> None, typed |-> {}, fg |-> {}]
  /\ out = [j \in Job |-> <<>>]
  /\ in = [j \in Job |-> <<>>]

WriterStep(j) == (\E c \in Byte : Put(j, c)) \/ PutReturns(j) \/ Exit(Writer(j))
ReaderStep(j) == Get(j) \/ GetReturns(j) \/ Exit(Reader(j))
ShellStep == \/ ShellOpens \/ ShellStartWriter \/ ShellStartReader \/ ShellKillsWriter
             \/ ShellWaits \/ ShellClose
Reap(p) == InitReaps(p) \/ Free(p)

Next == \/ \E j \in Job : WriterStep(j) \/ ReaderStep(j)
        \/ \E j \in Job, fg \in BOOLEAN : ShellOpen(j, fg)
        \/ ShellStep
        \/ \E p \in Program : CtrlC(p) \/ Reap(p)
        \/ Tick
        \/ \E p \in Process : Dispatch(p)

Spec == Init /\ [][Next]_vars

(* The scheduler starves nobody, init and the loop of scheduleTask get to   *)
(* every dead process, and a program that runs gets to its next call; one   *)
(* that has printed all it has to print returns.                            *)
Fairness ==
  /\ WF_vars(Tick)
  /\ \A p \in Process : SF_vars(Dispatch(p))
  /\ \A j \in Job : SF_vars(WriterStep(j)) /\ SF_vars(ReaderStep(j))
  /\ SF_vars(ShellStep)
  /\ \A p \in Program : SF_vars(Reap(p))

FairSpec == Spec /\ Fairness

-----------------------------------------------------------------------------
Semaphore(P) == [value : Nat, waiters : Seq(P)]
State == {"none", "READY", "BLOCKED", "EXITED", "TERMINATED", "freed"}

(* Every variable holds what its declaration allows. *)
TypeOK ==
  /\ pipe \in [Job -> [open : BOOLEAN, total : Nat,
                       buffer : [0..(Capacity - 1) -> Byte \cup {None, Eof}],
                       readIndex : 0..(Capacity - 1), writeIndex : 0..(Capacity - 1),
                       readSem : Semaphore(Program), writeSem : Semaphore(Program)]]
  /\ cached \in Job \cup {None}
  /\ allPipes \in Semaphore(Process)
  /\ state \in [Process -> State]
  /\ running \in Process \cup {Scheduler}
  /\ call \in [Program -> Byte \cup {None, "get"}]
  /\ shell \in [at : {"prompt", "opening", "start1", "start2", "kill1", "wait1", "waiting1",
                      "wait2", "waiting2", "close"},
                job : Job \cup {None}, typed : SUBSET Job, fg : SUBSET Job]
  /\ out \in [Job -> Seq(Byte \cup {Eof})]
  /\ in \in [Job -> Seq(Byte \cup {None, Eof})]

(* A pipe is open exactly while somebody holds it: the shell until it       *)
(* closes it, the processes until they are freed; a startTask that failed   *)
(* may have left it open.  Nobody uses a pipe that was destroyed, not even  *)
(* through cachedPipe.                                                      *)
Holders(j) == {p \in {Writer(j), Reader(j)} : state[p] \notin {"none", "freed"}}
              \cup {p \in {Shell} : shell.job = j /\ shell.at # "opening"}
Aborted(j) == /\ ~(shell.job = j /\ shell.at \in {"start1", "start2"})
              /\ \E p \in {Writer(j), Reader(j)} : state[p] = "none"
PipeHeld ==
  /\ \A j \in Job : pipe[j].total - Cardinality(Holders(j))
                     \in IF j \in shell.typed /\ Aborted(j) THEN {0, 1} ELSE {0}
  /\ \A j \in Job : pipe[j].open <=> pipe[j].total > 0
  /\ cached # None => pipe[cached].open

(* The units of the two semaphores of a pipe account for its buffer: a slot *)
(* is counted, or was given to a process that has not used it yet; only a   *)
(* process killed in the middle of a call can take a unit with it.          *)
Given(p, s) == call[p] # None /\ \A i \in 1..Len(s.waiters) : s.waiters[i] # p
InHand(p, s) == IF ~Given(p, s) THEN {0}
                ELSE IF state[p] \in {"READY", "BLOCKED"} THEN {1} ELSE {0, 1}
UnitsConserved ==
  \A j \in Job : pipe[j].open =>
    LET unread == Len(out[j]) - Len(in[j])
    IN  /\ unread - pipe[j].readSem.value \in InHand(Reader(j), pipe[j].readSem)
        /\ Capacity - unread - pipe[j].writeSem.value \in InHand(Writer(j), pipe[j].writeSem)

(* A pipe is a channel: what is read is what was written, in order. *)
PipeChannel == INSTANCE Channel WITH Id <- Job
PipesAreChannels == PipeChannel!Spec

(* The reader gets the bytes the writer wrote, none lost and none changed.  *)
ReadInOrder ==
  \A j \in Job : Len(in[j]) <= Len(out[j]) /\ in[j] = SubSeq(out[j], 1, Len(in[j]))

(* The shell comes back from a pipeline, unless the reader is gone before   *)
(* the end of file and leaves the writer with a full pipe.                  *)
GaveUp(j) == state[Reader(j)] \in {"EXITED", "TERMINATED", "freed"} /\ ~AtEnd(j)
PromptReturns ==
  \A j \in Job : shell.job = j /\ shell.at # "opening" ~> shell.job # j \/ GaveUp(j)

(* What a program wrote is read, and the pipe is destroyed. *)
PipeDrained ==
  \A j \in Job : pipe[j].open ~> GaveUp(j) \/ (~pipe[j].open /\ in[j] = out[j])

=============================================================================
