--------------------------- MODULE PipelineProofs ---------------------------
(***************************************************************************)
(* Proofs about Pipeline, for any number of pipelines, any bytes, any      *)
(* capacity and whatever the faults: the types, and a pipe lives exactly as *)
(* long as it is held.  What is in the pipes is the matter of               *)
(* ChannelProofs.                                                          *)
(***************************************************************************)
EXTENDS Pipeline, SequenceTheorems, FiniteSetTheorems,
        WellFoundedInduction, TLAPS

Pipe == [open : BOOLEAN, total : Nat,
         buffer : [0..(Capacity - 1) -> Byte \cup {None, Eof}],
         readIndex : 0..(Capacity - 1), writeIndex : 0..(Capacity - 1),
         readSem : Semaphore(Program), writeSem : Semaphore(Program)]

Awake == {"READY", "BLOCKED"}        \* the states of the living
Dead == {"EXITED", "TERMINATED", "freed"}

(* Where the shell is in linkPipe, and what it knows there of the two        *)
(* programs it has started.                                                 *)
ShellKnows(w, r, fg) ==
  /\ shell.at = "start1" => w = "none" /\ r = "none"
  /\ shell.at \in {"start2", "kill1"} => w # "none" /\ r = "none"
  /\ shell.at \in {"wait1", "waiting1", "wait2", "waiting2"} => fg /\ w # "none" /\ r # "none"
  /\ fg /\ shell.at \in {"start2", "wait1", "waiting1"} => w \notin {"TERMINATED", "freed"}
  /\ fg /\ shell.at \in {"wait1", "waiting1", "wait2", "waiting2"} =>
       r \notin {"TERMINATED", "freed"}
  /\ state[Shell] = "READY" /\ shell.at = "waiting1" => w = "EXITED"
  /\ state[Shell] = "READY" /\ shell.at = "waiting2" => r = "EXITED"
ShellOK ==
  /\ shell.at = "prompt" => shell.job = None
  /\ shell.at # "prompt" => shell.job \in Job
  /\ shell.at = "opening" => shell.job \notin shell.typed
  /\ shell.at \notin {"prompt", "opening"} => shell.job \in shell.typed
  /\ shell.fg \subseteq shell.typed
  /\ state[Shell] \in Awake
  /\ state[Shell] = "BLOCKED" => shell.at \in {"opening", "waiting1", "waiting2"}
  /\ shell.at \notin {"prompt", "opening"} =>
       ShellKnows(state[Writer(shell.job)], state[Reader(shell.job)], shell.job \in shell.fg)

RunningOK == running # Scheduler => state[running] = "READY"

Calls == /\ \A p \in Program : state[p] = "none" => call[p] = None
         /\ \A j \in Job : call[Writer(j)] \in Byte \cup {None}

(* Nothing has happened to a pipeline that was not typed.                   *)
Fresh == \A j \in Job \ shell.typed :
           /\ pipe[j] = NoPipe /\ out[j] = <<>> /\ in[j] = <<>>
           /\ state[Writer(j)] = "none" /\ state[Reader(j)] = "none"

(* Whoever waits for allPipesSem is the shell, asleep, or a process that is *)
(* no more, on whose behalf the scheduler took it.                          *)
Sleepers ==
  /\ \A i \in DOMAIN allPipes.waiters :
       \/ allPipes.waiters[i] \in Program /\ state[allPipes.waiters[i]] = "freed"
       \/ /\ allPipes.waiters[i] = Shell /\ state[Shell] = "BLOCKED"
          /\ shell.at = "opening" /\ allPipes.value = 0
  /\ \A i, k \in DOMAIN allPipes.waiters :
       allPipes.waiters[i] = Shell /\ allPipes.waiters[k] = Shell => i = k

(* The holders of a pipe, counted. *)
One(b) == IF b THEN 1 ELSE 0
Holds(st) == st \notin {"none", "freed"}
Count(j) == One(Holds(state[Writer(j)])) + One(Holds(state[Reader(j)]))
            + One(shell.job = j /\ shell.at # "opening")
Counted ==
  /\ \A j \in Job :
       /\ pipe[j].total \in {Count(j), Count(j) + 1}
       /\ pipe[j].total # Count(j) => j \in shell.typed /\ Aborted(j)
       /\ pipe[j].open <=> pipe[j].total > 0
  /\ cached # None => pipe[cached].open

Base == TypeOK /\ ShellOK /\ RunningOK /\ Calls /\ Fresh /\ Sleepers /\ Counted

-----------------------------------------------------------------------------
(* Names and types.                                                         *)

LEMMA Names ==
  /\ \A j \in Job : /\ Writer(j) \in Program /\ Reader(j) \in Program
                    /\ JobOf(Writer(j)) = j /\ JobOf(Reader(j)) = j
  /\ \A p \in Program : /\ JobOf(p) \in Job
                        /\ p = Writer(JobOf(p)) \/ p = Reader(JobOf(p))
  /\ \A i, j \in Job : /\ Writer(i) # Reader(j)
                       /\ Writer(i) = Writer(j) => i = j
                       /\ Reader(i) = Reader(j) => i = j
  /\ Program \subseteq Process /\ Shell \in Process /\ Shell \notin Program
  /\ \A p \in Process : p \in Program \/ p = Shell
  /\ Scheduler \notin Process
  BY DEF Writer, Reader, Program, JobOf, Process, Shell, Scheduler, None

(* A set of places that is not empty has a first one. *)
LEMMA FirstPlace ==
  ASSUME NEW S \in SUBSET Nat, S # {}
  PROVE  First(S) \in S
  <1>1. PICK i \in S : \A j \in S : ~(<<j, i>> \in OpToRel(<, Nat))
    BY NatLessThanWellFounded, WFMin
  <1>2. \A j \in S : ~(j < i)
    BY <1>1 DEF OpToRel
  <1>3. \A j \in S : i <= j
    BY <1>2
  <1> QED BY <1>3 DEF First

LEMMA FirstOfHandover ==
  ASSUME NEW P, NEW s \in Semaphore(P), Handover(s) # {}
  PROVE  /\ First(Handover(s)) \in 1..Len(s.waiters)
         /\ s.waiters[First(Handover(s))] \in P
         /\ state[s.waiters[First(Handover(s))]] \in Awake
  <1>1. Len(s.waiters) \in Nat /\ s.waiters \in Seq(P)
    BY DEF Semaphore
  <1>2. Handover(s) \in SUBSET Nat
    BY <1>1 DEF Handover
  <1>3. First(Handover(s)) \in Handover(s)
    BY <1>2, FirstPlace
  <1>4. \A i \in Handover(s) : /\ i \in 1..Len(s.waiters) /\ s.waiters[i] \in P
                               /\ state[s.waiters[i]] \in Awake
    BY <1>1 DEF Handover, Awake
  <1> QED BY <1>3, <1>4

(* semWait and semPost keep the type of a semaphore, and who is resumed was *)
(* asleep or ready.                                                         *)
LEMMA SemaphoreTypes ==
  ASSUME NEW P, NEW s \in Semaphore(P)
  PROVE  /\ Post(s) \in Semaphore(P)
         /\ \A p \in P : Enlisted(s, p) \in Semaphore(P)
         /\ s.value > 0 => Taken(s) \in Semaphore(P)
         /\ Resumed(s) \subseteq P
         /\ \A p \in Resumed(s) : state[p] \in Awake
  <1>1. s.value \in Nat /\ s.waiters \in Seq(P)
    BY DEF Semaphore
  <1>2. Post(s) \in Semaphore(P)
    <2>1. CASE Handover(s) = {}
      BY <1>1, <2>1 DEF Post, Semaphore
    <2>2. CASE Handover(s) # {}
      <3> DEFINE f == First(Handover(s))
      <3>1. f \in 1..Len(s.waiters)
        BY <2>2, FirstOfHandover
      <3> HIDE DEF f
      <3>2. SubSeq(s.waiters, f + 1, Len(s.waiters)) \in Seq(P)
        BY <1>1, <3>1, SubSeqProperties
      <3> QED BY <1>1, <2>2, <3>2 DEF Post, Semaphore, f
    <2> QED BY <2>1, <2>2
  <1>3. \A p \in P : Enlisted(s, p) \in Semaphore(P)
    BY <1>1 DEF Enlisted, Semaphore
  <1>4. s.value > 0 => Taken(s) \in Semaphore(P)
    BY <1>1 DEF Taken, Semaphore
  <1>5. Resumed(s) \subseteq P /\ \A p \in Resumed(s) : state[p] \in Awake
    BY FirstOfHandover DEF Resumed
  <1> QED BY <1>2, <1>3, <1>4, <1>5

LEMMA CapacityFacts ==
  /\ Capacity \in Nat /\ Capacity > 0
  /\ \A n \in Nat : n % Capacity \in 0..(Capacity - 1)
  BY CapacityAssumption

LEMMA PipeTypes ==
  /\ NoPipe \in Pipe /\ ~NoPipe.open /\ NoPipe.total = 0
  /\ [NewPipe EXCEPT !.total = 1] \in Pipe
  /\ \A x \in Pipe : Closed(x) \in Pipe
  /\ \A x \in Pipe, c \in Byte \cup {Eof} :
       /\ Stored(x, c) \in Pipe
       /\ Stored(x, c).total = x.total /\ Stored(x, c).open = x.open
  /\ \A x \in Pipe :
       /\ Fetched(x) \in Pipe
       /\ Fetched(x).total = x.total /\ Fetched(x).open = x.open
       /\ x.buffer[x.readIndex] \in Byte \cup {None, Eof}
  <1>1. NoPipe \in Pipe /\ ~NoPipe.open /\ NoPipe.total = 0
    BY CapacityFacts DEF NoPipe, Pipe, Semaphore
  <1>2. [NewPipe EXCEPT !.total = 1] \in Pipe
    <2> DEFINE w == [NoPipe.writeSem EXCEPT !.value = Capacity]
    <2>1. w \in Semaphore(Program)
      BY <1>1, CapacityFacts DEF Pipe, Semaphore
    <2>2. NewPipe = [NoPipe EXCEPT !.open = TRUE, !.writeSem = w]
      BY <1>1 DEF NewPipe, Pipe
    <2> HIDE DEF w
    <2> QED BY <1>1, <2>1, <2>2 DEF Pipe
  <1>3. \A x \in Pipe : Closed(x) \in Pipe
    BY <1>1 DEF Closed, Pipe
  <1>4. ASSUME NEW x \in Pipe, NEW c \in Byte \cup {Eof}
        PROVE  /\ Stored(x, c) \in Pipe
               /\ Stored(x, c).total = x.total /\ Stored(x, c).open = x.open
    <2>1. Post(x.readSem) \in Semaphore(Program)
      BY SemaphoreTypes DEF Pipe
    <2>2. (x.writeIndex + 1) % Capacity \in 0..(Capacity - 1)
      BY CapacityFacts DEF Pipe
    <2> QED BY <2>1, <2>2 DEF Stored, Pipe
  <1>5. ASSUME NEW x \in Pipe
        PROVE  /\ Fetched(x) \in Pipe
               /\ Fetched(x).total = x.total /\ Fetched(x).open = x.open
               /\ x.buffer[x.readIndex] \in Byte \cup {None, Eof}
    <2>1. Post(x.writeSem) \in Semaphore(Program)
      BY SemaphoreTypes DEF Pipe
    <2>2. (x.readIndex + 1) % Capacity \in 0..(Capacity - 1)
      BY CapacityFacts DEF Pipe
    <2> QED BY <2>1, <2>2 DEF Fetched, Pipe
  <1> QED BY <1>1, <1>2, <1>3, <1>4, <1>5

-----------------------------------------------------------------------------
(* Processes and descriptors.                                               *)

(* What a step that leaves the shell where it is does to a program and to   *)
(* the shell: it wakes it, it ends it, or init reaps it.                    *)
Proceeds(p) ==
  \/ state'[p] = state[p]
  \/ state[p] \in Awake /\ state'[p] \in Awake \cup {"EXITED"}
  \/ state[p] = "EXITED" /\ state'[p] = "TERMINATED" /\ JobOf(p) \notin shell.fg
ShellResumed ==
  \/ state'[Shell] = state[Shell]
  \/ /\ state[Shell] = "BLOCKED" /\ state'[Shell] = "READY"
     /\ \/ shell.at = "waiting1" /\ state'[Writer(shell.job)] = "EXITED"
        \/ shell.at = "waiting2" /\ state'[Reader(shell.job)] = "EXITED"

LEMMA ShellIn ==
  ASSUME Base, shell.at # "prompt"
  PROVE  /\ shell.job \in Job
         /\ Writer(shell.job) \in Program /\ Reader(shell.job) \in Program
  BY Names DEF Base, ShellOK

(* What such a step, or one that frees a program or gives the shell the list  *)
(* of the pipes, leaves true of the shell.                                  *)
Freed(p) == state[p] = "TERMINATED" /\ state'[p] = "freed"
LEMMA ShellKeeps ==
  ASSUME Base, UNCHANGED shell, \A p \in Program : Proceeds(p) \/ Freed(p),
         ShellResumed \/ (shell.at = "opening" /\ state'[Shell] = "READY")
  PROVE  ShellOK'
  <1>1. /\ state'[Shell] \in Awake
        /\ state'[Shell] = "BLOCKED" => state[Shell] = "BLOCKED"
    BY DEF Base, ShellOK, ShellResumed, Awake
  <1>2. CASE shell.at \in {"prompt", "opening"}
    BY <1>1, <1>2 DEF Base, ShellOK
  <1>3. CASE shell.at \notin {"prompt", "opening"}
    <2> DEFINE w == Writer(shell.job)
               r == Reader(shell.job)
    <2>1. /\ w \in Program /\ r \in Program /\ JobOf(w) = shell.job /\ JobOf(r) = shell.job
          /\ shell.job \in Job
      BY <1>3, ShellIn, Names
    <2>2. /\ Proceeds(w) \/ Freed(w)
          /\ Proceeds(r) \/ Freed(r)
          /\ ShellKnows(state[w], state[r], shell.job \in shell.fg)
      BY <1>3, <2>1 DEF Base, ShellOK
    <2> HIDE DEF w, r
    <2>3. ShellKnows(state[w], state[r], shell.job \in shell.fg)'
      <3>1. /\ state'[w] = "none" <=> state[w] = "none"
            /\ state'[r] = "none" <=> state[r] = "none"
        BY <2>2 DEF Proceeds, Freed, Awake
      <3>2. /\ state'[w] \in {"TERMINATED", "freed"} =>
                 state[w] \in {"TERMINATED", "freed"} \/ shell.job \notin shell.fg
            /\ state'[r] \in {"TERMINATED", "freed"} =>
                 state[r] \in {"TERMINATED", "freed"} \/ shell.job \notin shell.fg
        BY <2>1, <2>2 DEF Proceeds, Freed, Awake
      <3>3. /\ state[w] = "EXITED" => state'[w] = "EXITED" \/ shell.job \notin shell.fg
            /\ state[r] = "EXITED" => state'[r] = "EXITED" \/ shell.job \notin shell.fg
        BY <2>1, <2>2 DEF Proceeds, Freed, Awake
      <3>4. state'[Shell] = "READY" =>
              \/ state[Shell] = "READY"
              \/ shell.at = "waiting1" /\ state'[w] = "EXITED"
              \/ shell.at = "waiting2" /\ state'[r] = "EXITED"
        BY <1>3 DEF ShellResumed, w, r
      <3> QED BY <2>2, <3>1, <3>2, <3>3, <3>4 DEF ShellKnows, w, r
    <2> QED BY <1>1, <1>3, <2>3 DEF Base, ShellOK, w, r
  <1> QED BY <1>2, <1>3

LEMMA BaseKeeps ==
  ASSUME Base, TypeOK', UNCHANGED <<allPipes, shell>>,
         \A j \in Job : pipe'[j].total = pipe[j].total /\ pipe'[j].open = pipe[j].open,
         \A j \in Job \ shell.typed :
           pipe'[j] = pipe[j] /\ out'[j] = out[j] /\ in'[j] = in[j],
         cached' = None \/ (cached' \in Job /\ pipe[cached'].open),
         Calls', \A p \in Program : Proceeds(p), ShellResumed, RunningOK'
  PROVE  Base'
  <1>1. ShellOK'
    BY ShellKeeps
  <1>2. \A p \in Program : /\ Holds(state'[p]) <=> Holds(state[p])
                           /\ state[p] = "freed" => state'[p] = "freed"
                           /\ state'[p] = "none" <=> state[p] = "none"
    BY DEF Proceeds, Awake, Holds
  <1>3. Fresh'
    BY <1>2, Names DEF Base, Fresh
  <1>4. Sleepers'
    <2>1. shell.at = "opening" => state'[Shell] = state[Shell]
      BY DEF ShellResumed
    <2> QED BY <1>2, <2>1 DEF Base, Sleepers
  <1>5. Counted'
    <2>1. \A j \in Job : Count(j)' = Count(j) /\ (Aborted(j)' <=> Aborted(j))
      <3> SUFFICES ASSUME NEW j \in Job PROVE Count(j)' = Count(j) /\ (Aborted(j)' <=> Aborted(j))
        OBVIOUS
      <3>1. Writer(j) \in Program /\ Reader(j) \in Program
        BY Names
      <3>2. /\ Holds(state'[Writer(j)]) <=> Holds(state[Writer(j)])
            /\ Holds(state'[Reader(j)]) <=> Holds(state[Reader(j)])
        BY <1>2, <3>1
      <3>3. Count(j)' = Count(j)
        BY <3>2 DEF Count, One
      <3>4. Aborted(j)' <=> Aborted(j)
        BY <1>2, <3>1 DEF Aborted
      <3> QED BY <3>3, <3>4
    <2> QED BY <2>1 DEF Base, Counted
  <1> QED BY <1>1, <1>3, <1>4, <1>5 DEF Base

(* Typing, field by field. *)
LEMMA Typings ==
  ASSUME Base
  PROVE  /\ pipe \in [Job -> Pipe] /\ cached \in Job \cup {None}
         /\ allPipes \in Semaphore(Process)
         /\ state \in [Process -> State] /\ running \in Process \cup {Scheduler}
         /\ call \in [Program -> Byte \cup {None, "get"}]
         /\ out \in [Job -> Seq(Byte \cup {Eof})]
         /\ in \in [Job -> Seq(Byte \cup {None, Eof})]
  BY DEF Base, TypeOK, Pipe

LEMMA PipeSemTypes ==
  ASSUME NEW x \in Pipe
  PROVE  /\ x.writeSem.value > 0 => [x EXCEPT !.writeSem = Taken(x.writeSem)] \in Pipe
         /\ x.readSem.value > 0 => [x EXCEPT !.readSem = Taken(x.readSem)] \in Pipe
         /\ \A p \in Program : /\ [x EXCEPT !.writeSem = Enlisted(x.writeSem, p)] \in Pipe
                               /\ [x EXCEPT !.readSem = Enlisted(x.readSem, p)] \in Pipe
  <1>1. x.writeSem \in Semaphore(Program) /\ x.readSem \in Semaphore(Program)
    BY DEF Pipe
  <1>2. /\ x.writeSem.value > 0 => Taken(x.writeSem) \in Semaphore(Program)
        /\ x.readSem.value > 0 => Taken(x.readSem) \in Semaphore(Program)
        /\ \A p \in Program : /\ Enlisted(x.writeSem, p) \in Semaphore(Program)
                              /\ Enlisted(x.readSem, p) \in Semaphore(Program)
    BY <1>1, SemaphoreTypes
  <1> QED BY <1>2 DEF Pipe

(* A semPost of a program wakes programs only. *)
LEMMA WakeFacts ==
  ASSUME Base, NEW P \in SUBSET Program, \A p \in P : state[p] \in Awake,
         state' = Wake(state, P)
  PROVE  /\ state' \in [Process -> State]
         /\ \A p \in Program : Proceeds(p) /\ (state'[p] = "none" <=> state[p] = "none")
         /\ state'[Shell] = state[Shell] /\ ShellResumed
         /\ \A p \in Process : state[p] = "READY" => state'[p] = "READY"
  <1>1. \A p \in Process : state'[p] = IF p \in P THEN "READY" ELSE state[p]
    BY DEF Wake
  <1>2. state \in [Process -> State]
    BY Typings
  <1> QED BY <1>1, <1>2, Names DEF Wake, State, Proceeds, ShellResumed, Awake

LEMMA BlockFacts ==
  ASSUME Base, NEW p \in Process, state[p] = "READY", Block(p)
  PROVE  /\ state' \in [Process -> State] /\ running' = Scheduler
         /\ \A q \in Process \ {p} : state'[q] = state[q]
         /\ state'[p] = "BLOCKED"
         /\ \A q \in Program : Proceeds(q) /\ (state'[q] = "none" <=> state[q] = "none")
  BY Typings, Names DEF Block, State, Proceeds, Awake

LEMMA RunningFacts ==
  ASSUME Base, NEW p \in Process, running = p
  PROVE  state[p] = "READY"
  BY Names DEF Base, RunningOK

LEMMA LookupFacts ==
  ASSUME Base, NEW j \in Job
  PROVE  Lookup(j) = None \/ (Lookup(j) = j /\ pipe[j].open)
  BY DEF Base, Counted, Lookup, TypeOK

(* A process that is alive holds its pipe open, and was typed. *)
LEMMA Holding ==
  ASSUME Base, NEW j \in Job, NEW p \in {Writer(j), Reader(j)}, Holds(state[p])
  PROVE  pipe[j].open /\ pipe[j].total > 0 /\ j \in shell.typed
  <1>1. Count(j) > 0
    BY DEF Count, One
  <1>2. j \in shell.typed
    BY Names DEF Base, Fresh, Holds
  <1>3. Count(j) \in Nat /\ pipe[j].total \in {Count(j), Count(j) + 1}
    BY DEF Base, Counted, Count, One
  <1> QED BY <1>1, <1>2, <1>3 DEF Base, Counted

(* A byte is stored in, or fetched from, a pipe that is open and stays so.  *)
LEMMA StoreBase ==
  ASSUME Base, NEW j \in Job, state[Writer(j)] = "READY", NEW x \in Pipe, NEW c \in Byte,
         x.total = pipe[j].total, x.open = pipe[j].open, Store(j, x, c),
         UNCHANGED <<allPipes, shell, in>>,
         call' = call \/ call' = [call EXCEPT ![Writer(j)] = None],
         cached' = None \/ (cached' \in Job /\ pipe[cached'].open)
  PROVE  Base'
  <1>1. /\ pipe' = [pipe EXCEPT ![j] = Stored(x, c)]
        /\ state' = Wake(state, Resumed(x.readSem))
        /\ out' = [out EXCEPT ![j] = Append(out[j], c)]
        /\ UNCHANGED running
    BY DEF Store
  <1>2. j \in shell.typed
    BY Holding DEF Holds
  <1>3. /\ Stored(x, c) \in Pipe
        /\ Stored(x, c).total = pipe[j].total /\ Stored(x, c).open = pipe[j].open
    BY PipeTypes
  <1>4. /\ state' \in [Process -> State] /\ \A p \in Program : Proceeds(p)
        /\ \A p \in Program : state'[p] = "none" <=> state[p] = "none"
        /\ ShellResumed
        /\ \A p \in Process : state[p] = "READY" => state'[p] = "READY"
    <2>1. /\ Resumed(x.readSem) \subseteq Program
          /\ \A p \in Resumed(x.readSem) : state[p] \in Awake
      BY SemaphoreTypes DEF Pipe
    <2> QED BY <1>1, <2>1, WakeFacts
  <1>5. call' \in [Program -> Byte \cup {None, "get"}]
    BY Typings
  <1>6. TypeOK'
    <2>1. out' \in [Job -> Seq(Byte \cup {Eof})]
      BY <1>1, Typings
    <2>2. pipe' \in [Job -> Pipe]
      BY <1>1, <1>3, Typings
    <2> QED BY <1>1, <1>4, <1>5, <2>1, <2>2 DEF Base, TypeOK, Pipe
  <1>7. Calls' /\ RunningOK'
    <2>1. RunningOK'
      BY <1>1, <1>4, Typings, Names DEF Base, RunningOK
    <2>2. Calls'
      BY <1>4, Typings, Names DEF Base, Calls
    <2> QED BY <2>1, <2>2
  <1>8. \A i \in Job \ shell.typed :
           pipe'[i] = pipe[i] /\ out'[i] = out[i] /\ in'[i] = in[i]
    BY <1>1, <1>2
  <1>9. \A i \in Job : pipe'[i].total = pipe[i].total /\ pipe'[i].open = pipe[i].open
    BY <1>1, <1>3, Typings
  <1> QED BY <1>4, <1>6, <1>7, <1>8, <1>9, BaseKeeps

LEMMA FetchBase ==
  ASSUME Base, NEW j \in Job, state[Reader(j)] = "READY", NEW x \in Pipe,
         x.total = pipe[j].total, x.open = pipe[j].open, Fetch(j, x),
         UNCHANGED <<allPipes, shell, out>>,
         call' = call \/ call' = [call EXCEPT ![Reader(j)] = None],
         cached' = None \/ (cached' \in Job /\ pipe[cached'].open)
  PROVE  Base'
  <1>1. /\ pipe' = [pipe EXCEPT ![j] = Fetched(x)]
        /\ state' = Wake(state, Resumed(x.writeSem))
        /\ in' = [in EXCEPT ![j] = Append(in[j], x.buffer[x.readIndex])]
        /\ UNCHANGED running
    BY DEF Fetch
  <1>2. j \in shell.typed
    BY Holding DEF Holds
  <1>3. /\ Fetched(x) \in Pipe /\ x.buffer[x.readIndex] \in Byte \cup {None, Eof}
        /\ Fetched(x).total = pipe[j].total /\ Fetched(x).open = pipe[j].open
    BY PipeTypes
  <1>4. /\ state' \in [Process -> State] /\ \A p \in Program : Proceeds(p)
        /\ \A p \in Program : state'[p] = "none" <=> state[p] = "none"
        /\ ShellResumed
        /\ \A p \in Process : state[p] = "READY" => state'[p] = "READY"
    <2>1. /\ Resumed(x.writeSem) \subseteq Program
          /\ \A p \in Resumed(x.writeSem) : state[p] \in Awake
      BY SemaphoreTypes DEF Pipe
    <2> QED BY <1>1, <2>1, WakeFacts
  <1>5. call' \in [Program -> Byte \cup {None, "get"}]
    BY Typings
  <1>6. TypeOK'
    <2>1. in' \in [Job -> Seq(Byte \cup {None, Eof})]
      BY <1>1, <1>3, Typings
    <2>2. pipe' \in [Job -> Pipe]
      BY <1>1, <1>3, Typings
    <2> QED BY <1>1, <1>4, <1>5, <2>1, <2>2 DEF Base, TypeOK, Pipe
  <1>7. Calls' /\ RunningOK'
    <2>1. RunningOK'
      BY <1>1, <1>4, Typings, Names DEF Base, RunningOK
    <2>2. Calls'
      BY <1>4, Typings, Names DEF Base, Calls
    <2> QED BY <2>1, <2>2
  <1>8. \A i \in Job \ shell.typed :
           pipe'[i] = pipe[i] /\ out'[i] = out[i] /\ in'[i] = in[i]
    BY <1>1, <1>2
  <1>9. \A i \in Job : pipe'[i].total = pipe[i].total /\ pipe'[i].open = pipe[i].open
    BY <1>1, <1>3, Typings
  <1> QED BY <1>4, <1>6, <1>7, <1>8, <1>9, BaseKeeps

(* The process p of the pipe j goes to sleep; its call goes on later as c.  *)
LEMMA BlockBase ==
  ASSUME Base, NEW j \in Job, NEW p \in {Writer(j), Reader(j)}, state[p] = "READY",
         NEW y \in Pipe, y.total = pipe[j].total, y.open = pipe[j].open,
         pipe' = [pipe EXCEPT ![j] = y], Block(p),
         NEW c, c \in Byte \/ (p = Reader(j) /\ c = "get"),
         call' = [call EXCEPT ![p] = c],
         cached' = None \/ (cached' \in Job /\ pipe[cached'].open),
         UNCHANGED <<allPipes, shell, out, in>>
  PROVE  Base'
  <1>1. p \in Program /\ p \in Process /\ p # Shell /\ j \in shell.typed
    BY Names, Holding DEF Holds
  <1>2. /\ state' \in [Process -> State] /\ running' = Scheduler
        /\ \A q \in Program : Proceeds(q)
        /\ \A q \in Program : state'[q] = "none" <=> state[q] = "none"
        /\ ShellResumed
    BY <1>1, BlockFacts, Names DEF ShellResumed
  <1>3. TypeOK'
    <2>1. pipe' \in [Job -> Pipe]
      BY Typings
    <2>2. call' \in [Program -> Byte \cup {None, "get"}]
      BY <1>1, Typings
    <2> QED BY <1>2, <2>1, <2>2 DEF Base, TypeOK, Pipe
  <1>4. Calls' /\ RunningOK'
    <2>1. \A q \in Program : state'[q] = "none" => call'[q] = None
      BY <1>1, <1>2, Typings DEF Base, Calls
    <2>2. \A i \in Job : call'[Writer(i)] \in Byte \cup {None}
      BY <1>1, Typings, Names DEF Base, Calls
    <2> QED BY <1>2, <2>1, <2>2 DEF Calls, RunningOK
  <1>5. \A i \in Job \ shell.typed :
           pipe'[i] = pipe[i] /\ out'[i] = out[i] /\ in'[i] = in[i]
    BY <1>1
  <1>6. \A i \in Job : pipe'[i].total = pipe[i].total /\ pipe'[i].open = pipe[i].open
    BY Typings
  <1> QED BY <1>2, <1>3, <1>4, <1>5, <1>6, BaseKeeps

LEMMA PutBase ==
  ASSUME Base, NEW j \in Job, NEW c \in Byte, Put(j, c)
  PROVE  Base'
  <1>1. /\ Writer(j) \in Program /\ Writer(j) \in Process /\ running = Writer(j)
        /\ state[Writer(j)] = "READY" /\ pipe[j] \in Pipe
    BY Names, RunningFacts, Typings DEF Put, InUser
  <1>2. UNCHANGED <<allPipes, shell, in>> /\ cached' = Lookup(j)
    BY DEF Put
  <1>3. cached' = None \/ (cached' \in Job /\ pipe[cached'].open)
    BY <1>2, LookupFacts
  <1>4. CASE pipe[j].writeSem.value > 0
    <2> DEFINE x == [pipe[j] EXCEPT !.writeSem = Taken(pipe[j].writeSem)]
    <2>1. Store(j, x, c) /\ call' = call
      BY <1>4 DEF Put
    <2>2. x \in Pipe /\ x.total = pipe[j].total /\ x.open = pipe[j].open
      BY <1>1, <1>4, PipeSemTypes DEF Pipe
    <2> HIDE DEF x
    <2> QED BY <1>1, <1>2, <1>3, <2>1, <2>2, StoreBase
  <1>5. CASE pipe[j].writeSem.value = 0
    <2> DEFINE y == [pipe[j] EXCEPT !.writeSem = Enlisted(pipe[j].writeSem, Writer(j))]
    <2>1. /\ pipe' = [pipe EXCEPT ![j] = y] /\ Block(Writer(j))
          /\ call' = [call EXCEPT ![Writer(j)] = c] /\ UNCHANGED out
      BY <1>5 DEF Put
    <2>2. y \in Pipe /\ y.total = pipe[j].total /\ y.open = pipe[j].open
      BY <1>1, PipeSemTypes DEF Pipe
    <2> HIDE DEF y
    <2> QED BY <1>1, <1>2, <1>3, <2>1, <2>2, BlockBase
  <1> QED BY <1>4, <1>5 DEF Put

LEMMA PutReturnsBase ==
  ASSUME Base, NEW j \in Job, PutReturns(j)
  PROVE  Base'
  <1>1. /\ Writer(j) \in Program /\ running = Writer(j)
        /\ state[Writer(j)] = "READY" /\ pipe[j] \in Pipe
        /\ call[Writer(j)] \in Byte
    BY Names, RunningFacts, Typings DEF PutReturns, Base, Calls
  <1>2. /\ UNCHANGED <<allPipes, shell, in>> /\ cached' = cached
        /\ Store(j, pipe[j], call[Writer(j)])
        /\ call' = [call EXCEPT ![Writer(j)] = None]
    BY DEF PutReturns
  <1>3. cached' = None \/ (cached' \in Job /\ pipe[cached'].open)
    BY <1>2, Typings DEF Base, Counted
  <1> QED BY <1>1, <1>2, <1>3, StoreBase

LEMMA GetBase ==
  ASSUME Base, NEW j \in Job, Get(j)
  PROVE  Base'
  <1>1. /\ Reader(j) \in Program /\ Reader(j) \in Process /\ running = Reader(j)
        /\ state[Reader(j)] = "READY" /\ pipe[j] \in Pipe
    BY Names, RunningFacts, Typings DEF Get, InUser
  <1>2. UNCHANGED <<allPipes, shell, out>> /\ cached' = Lookup(j)
    BY DEF Get
  <1>3. cached' = None \/ (cached' \in Job /\ pipe[cached'].open)
    BY <1>2, LookupFacts
  <1>4. CASE pipe[j].readSem.value > 0
    <2> DEFINE x == [pipe[j] EXCEPT !.readSem = Taken(pipe[j].readSem)]
    <2>1. Fetch(j, x) /\ call' = call
      BY <1>4 DEF Get
    <2>2. x \in Pipe /\ x.total = pipe[j].total /\ x.open = pipe[j].open
      BY <1>1, <1>4, PipeSemTypes DEF Pipe
    <2> HIDE DEF x
    <2> QED BY <1>1, <1>2, <1>3, <2>1, <2>2, FetchBase
  <1>5. CASE pipe[j].readSem.value = 0
    <2> DEFINE y == [pipe[j] EXCEPT !.readSem = Enlisted(pipe[j].readSem, Reader(j))]
    <2>1. /\ pipe' = [pipe EXCEPT ![j] = y] /\ Block(Reader(j))
          /\ call' = [call EXCEPT ![Reader(j)] = "get"] /\ UNCHANGED in
      BY <1>5 DEF Get
    <2>2. y \in Pipe /\ y.total = pipe[j].total /\ y.open = pipe[j].open
      BY <1>1, PipeSemTypes DEF Pipe
    <2> HIDE DEF y
    <2> QED BY <1>1, <1>2, <1>3, <2>1, <2>2, BlockBase
  <1> QED BY <1>4, <1>5 DEF Get

LEMMA GetReturnsBase ==
  ASSUME Base, NEW j \in Job, GetReturns(j)
  PROVE  Base'
  <1>1. /\ Reader(j) \in Program /\ running = Reader(j)
        /\ state[Reader(j)] = "READY" /\ pipe[j] \in Pipe
    BY Names, RunningFacts, Typings DEF GetReturns
  <1>2. /\ UNCHANGED <<allPipes, shell, out>> /\ cached' = cached
        /\ Fetch(j, pipe[j])
        /\ call' = [call EXCEPT ![Reader(j)] = None]
    BY DEF GetReturns
  <1>3. cached' = None \/ (cached' \in Job /\ pipe[cached'].open)
    BY <1>2, Typings DEF Base, Counted
  <1> QED BY <1>1, <1>2, <1>3, FetchBase

(* A step that touches no pipe: only processes change their states.         *)
LEMMA QuietBase ==
  ASSUME Base, UNCHANGED <<pipe, cached, allPipes, call, shell, out, in>>,
         state' \in [Process -> State], running' \in Process \cup {Scheduler},
         \A p \in Program : Proceeds(p), ShellResumed, RunningOK'
  PROVE  Base'
  <1>1. TypeOK'
    BY DEF Base, TypeOK
  <1>2. Calls'
    BY DEF Base, Calls, Proceeds, Awake
  <1>3. cached' = None \/ (cached' \in Job /\ pipe[cached'].open)
    BY Typings DEF Base, Counted
  <1> QED BY <1>1, <1>2, <1>3, BaseKeeps

LEMMA DiedFacts ==
  ASSUME Base, NEW p \in Program, state[p] \in Awake, state' = Died(p)
  PROVE  /\ state' \in [Process -> State] /\ state'[p] = "EXITED"
         /\ \A q \in Program \ {p} : state'[q] = state[q]
         /\ \A q \in Program : Proceeds(q)
         /\ ShellResumed
         /\ \A q \in Process \ {p} : state[q] = "READY" => state'[q] = "READY"
  <1> DEFINE P == IF ShellWaitsFor(p) THEN {Shell} ELSE {}
  <1>1. \A q \in Process : state'[q] = IF q \in P THEN "READY" ELSE
                                          IF q = p THEN "EXITED" ELSE state[q]
    BY Typings, Names DEF Died, Wake
  <1>2. \A q \in P : q = Shell /\ ShellWaitsFor(p)
    OBVIOUS
  <1> HIDE DEF P
  <1>3. state' \in [Process -> State]
    BY <1>1, Typings DEF Died, Wake, State
  <1>4. /\ state'[p] = "EXITED" /\ \A q \in Program \ {p} : state'[q] = state[q]
    BY <1>1, <1>2, Names
  <1>5. \A q \in Program : Proceeds(q)
    BY <1>4 DEF Proceeds
  <1>6. ShellResumed
    <2>1. CASE Shell \in P
      BY <1>1, <1>2, <1>4, <2>1, Names DEF ShellWaitsFor, ShellResumed
    <2>2. CASE Shell \notin P
      BY <1>1, <2>2, Names DEF ShellResumed
    <2> QED BY <2>1, <2>2
  <1>7. \A q \in Process \ {p} : state[q] = "READY" => state'[q] = "READY"
    BY <1>1
  <1> QED BY <1>3, <1>4, <1>5, <1>6, <1>7

LEMMA ExitBase ==
  ASSUME Base, NEW p \in Program, Exit(p)
  PROVE  Base'
  <1>1. state[p] \in Awake
    BY Names, RunningFacts DEF Exit, InUser, Awake
  <1>2. /\ state' = Died(p) /\ running' = Scheduler
        /\ UNCHANGED <<pipe, cached, allPipes, call, shell, out, in>>
    BY DEF Exit
  <1>3. RunningOK'
    BY <1>2 DEF RunningOK
  <1> QED BY <1>1, <1>2, <1>3, DiedFacts, QuietBase

LEMMA CtrlCBase ==
  ASSUME Base, NEW p \in Program, CtrlC(p)
  PROVE  Base'
  <1>1. state[p] \in Awake
    BY DEF CtrlC, Awake
  <1>2. /\ state' = Died(p) /\ running' \in {running, Scheduler} /\ running' # p
        /\ UNCHANGED <<pipe, cached, allPipes, call, shell, out, in>>
    BY Names DEF CtrlC
  <1>3. RunningOK'
    BY <1>1, <1>2, DiedFacts, Typings DEF RunningOK, Base
  <1>4. running' \in Process \cup {Scheduler}
    BY <1>2, Typings
  <1> QED BY <1>1, <1>2, <1>3, <1>4, DiedFacts, QuietBase

LEMMA InitReapsBase ==
  ASSUME Base, NEW p \in Program, InitReaps(p)
  PROVE  Base'
  <1>1. /\ state[p] = "EXITED" /\ JobOf(p) \notin shell.fg /\ running = Scheduler
        /\ state' = [state EXCEPT ![p] = "TERMINATED"] /\ UNCHANGED running
        /\ UNCHANGED <<pipe, cached, allPipes, call, shell, out, in>>
    BY DEF InitReaps, Foreground
  <1>2. \A q \in Program : Proceeds(q)
    BY <1>1, Typings, Names DEF Proceeds
  <1>3. state' \in [Process -> State] /\ state'[Shell] = state[Shell]
    BY <1>1, Typings, Names DEF State
  <1>4. ShellResumed /\ RunningOK'
    BY <1>1, <1>3 DEF ShellResumed, RunningOK
  <1> QED BY <1>1, <1>2, <1>3, <1>4, Typings, QuietBase

LEMMA TickBase ==
  ASSUME Base, Tick \/ (\E p \in Process : Dispatch(p))
  PROVE  Base'
  <1>1. /\ UNCHANGED <<pipe, cached, allPipes, call, shell, out, in, state>>
        /\ running' \in Process \cup {Scheduler}
        /\ running' # Scheduler => state[running'] = "READY"
    BY DEF Tick, Dispatch
  <1>2. ShellResumed /\ RunningOK' /\ \A p \in Program : Proceeds(p)
    BY <1>1 DEF ShellResumed, RunningOK, Proceeds
  <1> QED BY <1>1, <1>2, Typings, QuietBase

(* A semPost of allPipesSem, or of a semaphore with its waiters: it can      *)
(* wake the shell only, and leaves nobody in the list who could be woken.   *)
LEMMA AllPipesPost ==
  ASSUME Base, NEW s \in Semaphore(Process),
         \A i \in DOMAIN s.waiters :
           \/ s.waiters[i] = Shell
           \/ s.waiters[i] \in Program /\ state[s.waiters[i]] \notin Awake,
         \A i, k \in DOMAIN s.waiters : s.waiters[i] = Shell /\ s.waiters[k] = Shell => i = k
  PROVE  /\ Resumed(s) \subseteq {Shell}
         /\ Shell \in Resumed(s) => \E i \in DOMAIN s.waiters : s.waiters[i] = Shell
         /\ \A i \in DOMAIN Post(s).waiters :
              /\ Post(s).waiters[i] \in Program
              /\ \E k \in DOMAIN s.waiters : Post(s).waiters[i] = s.waiters[k]
  <1> DEFINE w == s.waiters
             f == First(Handover(s))
  <1>1. w \in Seq(Process) /\ Len(w) \in Nat /\ DOMAIN w = 1..Len(w)
    BY DEF Semaphore
  <1>2. state[Shell] \in Awake
    BY DEF Base, ShellOK
  <1>3. \A i \in 1..Len(w) : i \in Handover(s) <=> w[i] = Shell
    BY <1>1, <1>2, Names DEF Handover, Awake
  <1>4. CASE Handover(s) = {}
    BY <1>4 DEF Post, Resumed
  <1>5. CASE Handover(s) # {}
    <2>1. f \in 1..Len(w) /\ state[w[f]] \in Awake
      BY <1>5, FirstOfHandover
    <2>2. w[f] = Shell
      BY <1>1, <2>1
    <2>3. Resumed(s) = {w[f]} /\ Post(s).waiters = SubSeq(w, f + 1, Len(w))
      BY <1>5 DEF Resumed, Post, Semaphore
    <2> HIDE DEF w, f
    <2>4. \A i \in DOMAIN SubSeq(w, f + 1, Len(w)) :
            /\ i + f \in 1..Len(w) /\ i + f # f
            /\ SubSeq(w, f + 1, Len(w))[i] = w[i + f]
      BY <1>1, <2>1, SubSeqProperties
    <2>5. \A k \in 1..Len(w) : k # f => w[k] \in Program
      BY <1>1, <2>1, <2>2 DEF w
    <2>6. \A i \in DOMAIN Post(s).waiters :
            /\ Post(s).waiters[i] \in Program
            /\ \E k \in DOMAIN w : Post(s).waiters[i] = w[k]
      BY <1>1, <2>3, <2>4, <2>5
    <2> QED BY <1>1, <2>1, <2>2, <2>3, <2>6 DEF w
  <1> QED BY <1>4, <1>5

(* The scheduler frees a process: it closes its pipe.                       *)
LEMMA FreeTypes ==
  ASSUME Base, NEW p \in Program, Free(p)
  PROVE  /\ pipe[JobOf(p)] \in Pipe
         /\ \E y \in Pipe : /\ y.total = pipe[JobOf(p)].total /\ y.open
                            /\ pipe' = [pipe EXCEPT ![JobOf(p)] = Closed(y)]
         /\ out' \in [Job -> Seq(Byte \cup {Eof})]
         /\ \A j \in Job \ {JobOf(p)} : out'[j] = out[j]
         /\ \E P \in SUBSET Program :
              /\ \A q \in P : state[q] \in Awake
              /\ state' = Wake([state EXCEPT ![p] = "freed"], P \cup Resumed(allPipes))
         /\ pipe[JobOf(p)].total > 0 /\ pipe[JobOf(p)].open /\ JobOf(p) \in shell.typed
         /\ state[p] = "TERMINATED" /\ Count(JobOf(p)) > 0
  <1> DEFINE j == JobOf(p)
             x == IF pipe[j].writeSem.value > 0
                  THEN [pipe[j] EXCEPT !.writeSem = Taken(pipe[j].writeSem)]
                  ELSE [pipe[j] EXCEPT !.writeSem = Enlisted(pipe[j].writeSem, p)]
  <1>1. j \in Job /\ pipe[j] \in Pipe /\ p \in {Writer(j), Reader(j)}
    BY Names, Typings
  <1>2. state[p] = "TERMINATED" /\ Holds(state[p])
    BY DEF Free, Holds
  <1>3. pipe[j].total > 0 /\ pipe[j].open /\ j \in shell.typed
    BY <1>1, <1>2, Holding
  <1>4. Count(j) > 0
    BY <1>1, <1>2 DEF Count, One
  <1>5. /\ x \in Pipe /\ x.total = pipe[j].total /\ x.open = pipe[j].open
        /\ x.readSem = pipe[j].readSem
    BY <1>1, PipeSemTypes DEF Pipe
  <1>6. \/ /\ pipe' = [pipe EXCEPT ![j] = Closed(Stored(x, Eof))]
           /\ state' = Wake([state EXCEPT ![p] = "freed"],
                            Resumed(x.readSem) \cup Resumed(allPipes))
           /\ out' = [out EXCEPT ![j] = Append(out[j], Eof)]
        \/ /\ pipe' = [pipe EXCEPT ![j] = Closed(pipe[j])]
           /\ state' = Wake([state EXCEPT ![p] = "freed"], Resumed(allPipes))
           /\ UNCHANGED out
    BY DEF Free
  <1> HIDE DEF x, j
  <1>7. /\ Resumed(x.readSem) \in SUBSET Program
        /\ \A q \in Resumed(x.readSem) : state[q] \in Awake
    BY <1>5, SemaphoreTypes DEF Pipe
  <1>8. \E P \in SUBSET Program :
          /\ \A q \in P : state[q] \in Awake
          /\ state' = Wake([state EXCEPT ![p] = "freed"], P \cup Resumed(allPipes))
    <2>1. CASE state' = Wake([state EXCEPT ![p] = "freed"],
                             Resumed(x.readSem) \cup Resumed(allPipes))
      BY <1>7, <2>1
    <2>2. CASE state' = Wake([state EXCEPT ![p] = "freed"], Resumed(allPipes))
      <3>1. state' = Wake([state EXCEPT ![p] = "freed"], {} \cup Resumed(allPipes))
        BY <2>2
      <3> QED BY <3>1
    <2> QED BY <1>6, <2>1, <2>2
  <1>9. \E y \in Pipe : /\ y.total = pipe[j].total /\ y.open
                        /\ pipe' = [pipe EXCEPT ![j] = Closed(y)]
    <2>1. /\ Stored(x, Eof) \in Pipe
          /\ Stored(x, Eof).total = pipe[j].total /\ Stored(x, Eof).open
      BY <1>3, <1>5, PipeTypes
    <2> QED BY <1>1, <1>3, <1>6, <2>1
  <1>10. out' \in [Job -> Seq(Byte \cup {Eof})] /\ \A i \in Job \ {j} : out'[i] = out[i]
    <2>1. out \in [Job -> Seq(Byte \cup {Eof})]
      BY Typings
    <2>2. CASE out' = [out EXCEPT ![j] = Append(out[j], Eof)]
      <3>1. Append(out[j], Eof) \in Seq(Byte \cup {Eof})
        BY <1>1, <2>1
      <3> QED BY <2>1, <2>2, <3>1
    <2>3. CASE out' = out
      BY <2>1, <2>3
    <2> QED BY <1>6, <2>2, <2>3
  <1> QED BY <1>1, <1>2, <1>3, <1>4, <1>8, <1>9, <1>10 DEF j

(* A pipe that loses one of its holders.                                    *)
LEMMA CloseCounted ==
  ASSUME Base, NEW j \in Job, NEW y \in Pipe, y.total = pipe[j].total, y.open,
         pipe' = [pipe EXCEPT ![j] = Closed(y)], cached' = CachedAfterClose(j),
         pipe[j].total > 0, Count(j) > 0,
         Count(j)' = Count(j) - 1, Aborted(j) => Aborted(j)',
         shell'.typed = shell.typed, j \in shell.typed,
         \A i \in Job \ {j} : Count(i)' = Count(i) /\ (Aborted(i) => Aborted(i)')
  PROVE  Counted'
  <1>1. /\ pipe \in [Job -> Pipe] /\ pipe[j].total \in Nat /\ Count(j) \in Nat
        /\ pipe'[j] = Closed(y)
    BY Typings DEF Pipe, Count, One
  <1>2. \A i \in Job : /\ pipe[i].total \in {Count(i), Count(i) + 1}
                       /\ pipe[i].total # Count(i) => i \in shell.typed /\ Aborted(i)
                       /\ pipe[i].open <=> pipe[i].total > 0
    BY DEF Base, Counted
  <1>3. /\ pipe'[j].total = pipe[j].total - 1
        /\ pipe'[j].open <=> pipe[j].total > 1
    BY <1>1, PipeTypes DEF Closed, Pipe
  <1>4. /\ pipe'[j].total \in {Count(j)', Count(j)' + 1}
        /\ pipe'[j].total # Count(j)' => j \in shell'.typed /\ Aborted(j)'
        /\ pipe'[j].open <=> pipe'[j].total > 0
    BY <1>1, <1>2, <1>3
  <1>5. \A i \in Job \ {j} : /\ pipe'[i].total \in {Count(i)', Count(i)' + 1}
                             /\ pipe'[i].total # Count(i)' => i \in shell'.typed /\ Aborted(i)'
                             /\ pipe'[i].open <=> pipe'[i].total > 0
    BY <1>2
  <1>6. cached' # None => pipe'[cached'].open
    BY <1>1, <1>3 DEF CachedAfterClose
  <1> QED BY <1>4, <1>5, <1>6 DEF Counted

LEMMA FreeBase ==
  ASSUME Base, NEW p \in Program, Free(p)
  PROVE  Base'
  <1> DEFINE j == JobOf(p)
             s == Enlisted(allPipes, p)
  <1>1. PICK y \in Pipe : /\ y.total = pipe[j].total /\ y.open
                          /\ pipe' = [pipe EXCEPT ![j] = Closed(y)]
    BY FreeTypes
  <1>2. PICK P \in SUBSET Program :
          /\ \A q \in P : state[q] \in Awake
          /\ state' = Wake([state EXCEPT ![p] = "freed"], P \cup Resumed(allPipes))
    BY FreeTypes
  <1>3. /\ j \in Job /\ (p = Writer(j) \/ p = Reader(j))
        /\ state[p] = "TERMINATED" /\ running = Scheduler
        /\ UNCHANGED <<running, call, shell, in>> /\ cached' = CachedAfterClose(j)
        /\ allPipes' = IF allPipes.value > 0 THEN allPipes ELSE Post(s)
    BY Names, FreeTypes DEF Free
  <1>4. /\ out' \in [Job -> Seq(Byte \cup {Eof})] /\ \A i \in Job \ {j} : out'[i] = out[i]
        /\ pipe[j].total > 0 /\ pipe[j].open /\ j \in shell.typed /\ Count(j) > 0
    BY FreeTypes
  <1> HIDE DEF j, s
  <1>5. allPipes \in Semaphore(Process) /\ s \in Semaphore(Process)
    BY Typings, Names, SemaphoreTypes DEF s
  <1>6. /\ \A i \in DOMAIN allPipes.waiters :
             \/ allPipes.waiters[i] = Shell
             \/ allPipes.waiters[i] \in Program /\ state[allPipes.waiters[i]] = "freed"
        /\ \A i \in DOMAIN allPipes.waiters : allPipes.waiters[i] = Shell =>
             state[Shell] = "BLOCKED" /\ shell.at = "opening" /\ allPipes.value = 0
        /\ \A i, k \in DOMAIN allPipes.waiters :
             allPipes.waiters[i] = Shell /\ allPipes.waiters[k] = Shell => i = k
    BY Names DEF Base, Sleepers
  <1>7. /\ \A i \in DOMAIN s.waiters :
             \/ s.waiters[i] = Shell
             \/ /\ s.waiters[i] \in Program
                /\ state[s.waiters[i]] = "freed" \/ s.waiters[i] = p
        /\ \A i, k \in DOMAIN s.waiters : s.waiters[i] = Shell /\ s.waiters[k] = Shell => i = k
    <2>1. /\ s.waiters = Append(allPipes.waiters, p) /\ allPipes.waiters \in Seq(Process)
          /\ p # Shell
      BY <1>5, Names DEF s, Enlisted, Semaphore
    <2>2. \A i \in DOMAIN s.waiters :
            \/ i \in DOMAIN allPipes.waiters /\ s.waiters[i] = allPipes.waiters[i]
            \/ s.waiters[i] = p
      BY <2>1
    <2> QED BY <1>6, <2>1, <2>2
  <1>8. /\ Resumed(allPipes) \subseteq {Shell}
        /\ Shell \in Resumed(allPipes) =>
             state[Shell] = "BLOCKED" /\ shell.at = "opening" /\ allPipes.value = 0
    BY <1>5, <1>6, AllPipesPost DEF Awake
  <1>9. /\ state' \in [Process -> State] /\ state'[p] = "freed"
        /\ \A q \in Program \ {p} : Proceeds(q)
        /\ \A q \in Program : Proceeds(q) \/ Freed(q)
        /\ state'[Shell] = IF Shell \in Resumed(allPipes) THEN "READY" ELSE state[Shell]
    <2>1. \A q \in Process : state'[q] = IF q \in P \cup Resumed(allPipes) THEN "READY"
                                         ELSE IF q = p THEN "freed" ELSE state[q]
      BY <1>2, Typings, Names DEF Wake
    <2>2. state' \in [Process -> State]
      BY <1>2, <2>1, Typings DEF Wake, State
    <2>3. p \notin P \cup Resumed(allPipes) /\ Shell \notin P
      BY <1>2, <1>3, <1>8, Names DEF Awake
    <2>4. state'[p] = "freed" /\ Freed(p)
      BY <1>3, <2>1, <2>3, Names DEF Freed
    <2>5. \A q \in Program \ {p} : Proceeds(q)
      BY <1>2, <1>8, <2>1, Names DEF Proceeds, Awake
    <2>6. state'[Shell] = IF Shell \in Resumed(allPipes) THEN "READY" ELSE state[Shell]
      BY <2>1, <2>3, Names
    <2> QED BY <2>2, <2>4, <2>5, <2>6
  <1>10. TypeOK'
    <2>1. pipe' \in [Job -> Pipe]
      BY <1>1, Typings, PipeTypes
    <2>2. cached' \in Job \cup {None}
      BY <1>3 DEF CachedAfterClose
    <2>3. allPipes' \in Semaphore(Process)
      BY <1>3, <1>5, SemaphoreTypes
    <2> QED BY <1>3, <1>4, <1>9, <2>1, <2>2, <2>3 DEF Base, TypeOK, Pipe
  <1>11. ShellOK'
    BY <1>3, <1>8, <1>9, ShellKeeps DEF ShellResumed
  <1>12. RunningOK' /\ Calls'
    <2>1. \A q \in Program : state'[q] = "none" => state[q] = "none"
      BY <1>9 DEF Proceeds, Freed, Awake
    <2> QED BY <1>3, <2>1 DEF RunningOK, Base, Calls
  <1>13. \A q \in Program : state'[q] = "none" <=> state[q] = "none"
    BY <1>9 DEF Proceeds, Freed, Awake
  <1>14. Fresh'
    <2>1. \A i \in Job \ shell.typed : pipe'[i] = pipe[i] /\ out'[i] = out[i]
      BY <1>1, <1>4, Typings
    <2>2. UNCHANGED <<shell, in>>
      BY <1>3
    <2> QED BY <2>1, <2>2, <1>13, Names DEF Base, Fresh
  <1>15. Sleepers'
    <2>1. \A q \in Program : state[q] = "freed" => state'[q] = "freed"
      BY <1>9 DEF Proceeds, Freed, Awake
    <2>2. CASE allPipes.value > 0
      <3>1. \A i \in DOMAIN allPipes.waiters :
              allPipes.waiters[i] \in Program /\ state[allPipes.waiters[i]] = "freed"
        BY <1>6, <2>2
      <3> QED BY <1>3, <2>1, <2>2, <3>1, Names DEF Sleepers
    <2>3. CASE ~(allPipes.value > 0)
      <3>1. allPipes' = Post(s)
        BY <1>3, <2>3
      <3>2. \A i \in DOMAIN Post(s).waiters :
              /\ Post(s).waiters[i] \in Program
              /\ \E k \in DOMAIN s.waiters : Post(s).waiters[i] = s.waiters[k]
        BY <1>3, <1>5, <1>7, AllPipesPost DEF Awake
      <3>3. \A i \in DOMAIN Post(s).waiters :
              /\ Post(s).waiters[i] \in Program
              /\ state'[Post(s).waiters[i]] = "freed"
        BY <1>7, <1>9, <2>1, <3>2, Names
      <3> QED BY <3>1, <3>3, Names DEF Sleepers
    <2> QED BY <2>2, <2>3
  <1>16. Counted'
    <2>1. \A q \in Program \ {p} : Holds(state'[q]) <=> Holds(state[q])
      BY <1>9 DEF Proceeds, Awake, Holds
    <2>2. Holds(state[p]) /\ ~Holds(state'[p])
      BY <1>3, <1>9 DEF Holds
    <2>3. Count(j)' = Count(j) - 1
      <3>1. CASE p = Writer(j)
        BY <1>3, <2>1, <2>2, <3>1, Names DEF Count, One
      <3>2. CASE p = Reader(j)
        BY <1>3, <2>1, <2>2, <3>2, Names DEF Count, One
      <3> QED BY <1>3, <3>1, <3>2
    <2>4. ASSUME NEW i \in Job \ {j} PROVE Count(i)' = Count(i)
      <3>1. Writer(i) \in Program \ {p} /\ Reader(i) \in Program \ {p}
        BY <1>3, Names
      <3>2. /\ Holds(state'[Writer(i)]) <=> Holds(state[Writer(i)])
            /\ Holds(state'[Reader(i)]) <=> Holds(state[Reader(i)])
        BY <2>1, <3>1
      <3> QED BY <1>3, <3>2 DEF Count, One
    <2>5. \A i \in Job : Aborted(i) => Aborted(i)'
      BY <1>3, <1>13, Names DEF Aborted
    <2>6. shell' = shell
      BY <1>3
    <2> QED BY <1>1, <1>3, <1>4, <2>3, <2>4, <2>5, <2>6, CloseCounted
  <1> QED BY <1>10, <1>11, <1>12, <1>14, <1>15, <1>16 DEF Base

(* The shell has the processor, in linkPipe.                                *)
LEMMA ShellFacts ==
  ASSUME Base, running = Shell
  PROVE  /\ state[Shell] = "READY"
         /\ \A i \in DOMAIN allPipes.waiters :
              allPipes.waiters[i] \in Program /\ state[allPipes.waiters[i]] = "freed"
         /\ shell.at \notin {"prompt", "opening"} =>
              /\ shell.job \in Job /\ shell.job \in shell.typed
              /\ pipe[shell.job].open /\ pipe[shell.job].total > 0 /\ Count(shell.job) > 0
              /\ ShellKnows(state[Writer(shell.job)], state[Reader(shell.job)],
                            shell.job \in shell.fg)
  <1>1. state[Shell] = "READY"
    BY Names, RunningFacts
  <1>2. \A i \in DOMAIN allPipes.waiters :
          allPipes.waiters[i] \in Program /\ state[allPipes.waiters[i]] = "freed"
    BY <1>1 DEF Base, Sleepers
  <1>3. ASSUME shell.at \notin {"prompt", "opening"}
        PROVE  /\ shell.job \in Job /\ shell.job \in shell.typed
               /\ pipe[shell.job].open /\ pipe[shell.job].total > 0 /\ Count(shell.job) > 0
               /\ ShellKnows(state[Writer(shell.job)], state[Reader(shell.job)],
                             shell.job \in shell.fg)
    <2>1. /\ shell.job \in Job /\ shell.job \in shell.typed
          /\ ShellKnows(state[Writer(shell.job)], state[Reader(shell.job)],
                        shell.job \in shell.fg)
      BY <1>3 DEF Base, ShellOK
    <2>2. Count(shell.job) \in Nat /\ Count(shell.job) > 0
      BY <1>3 DEF Count, One
    <2>3. /\ pipe[shell.job].total \in {Count(shell.job), Count(shell.job) + 1}
          /\ pipe[shell.job].open <=> pipe[shell.job].total > 0
      BY <2>1 DEF Base, Counted
    <2> QED BY <2>1, <2>2, <2>3
  <1> QED BY <1>1, <1>2, <1>3

(* The shell does the next step for its pipeline; no pipe changes.          *)
LEMMA ShellMoves ==
  ASSUME Base, running = Shell, TypeOK', ShellOK', RunningOK',
         UNCHANGED <<pipe, cached, allPipes, call, out, in>>,
         shell.at \notin {"prompt", "opening"},
         shell'.job = shell.job, shell'.typed = shell.typed,
         shell'.at \notin {"prompt", "opening", "start1", "start2"},
         \A p \in Program : /\ state'[p] = "none" <=> state[p] = "none"
                            /\ state'[p] = "freed" <=> state[p] = "freed"
  PROVE  Base'
  <1>1. Calls'
    BY DEF Base, Calls
  <1>2. Fresh'
    BY Names DEF Base, Fresh
  <1>3. Sleepers'
    BY ShellFacts, Names DEF Sleepers
  <1>4. Counted'
    <2>1. ASSUME NEW j \in Job PROVE Count(j)' = Count(j) /\ (Aborted(j) => Aborted(j)')
      <3>1. Writer(j) \in Program /\ Reader(j) \in Program
        BY Names
      <3>2. /\ Holds(state'[Writer(j)]) <=> Holds(state[Writer(j)])
            /\ Holds(state'[Reader(j)]) <=> Holds(state[Reader(j)])
        BY <3>1 DEF Holds
      <3>3. Count(j)' = Count(j)
        BY <3>2 DEF Count, One
      <3>4. Aborted(j) => Aborted(j)'
        BY <3>1 DEF Aborted
      <3> QED BY <3>3, <3>4
    <2> QED BY <2>1 DEF Base, Counted
  <1> QED BY <1>1, <1>2, <1>3, <1>4 DEF Base

LEMMA ShellKillsWriterBase ==
  ASSUME Base, ShellKillsWriter
  PROVE  Base'
  <1> DEFINE w == Writer(shell.job)
  <1>1. /\ running = Shell /\ shell.at = "kill1" /\ running' = running
        /\ shell' = [shell EXCEPT !.at = "close"]
        /\ UNCHANGED <<pipe, cached, allPipes, call, out, in>>
        /\ state' = IF state[w] \in Awake THEN Died(w) ELSE state
    BY DEF ShellKillsWriter, ShellAt, Awake
  <1>2. /\ state[Shell] = "READY" /\ shell.job \in Job /\ shell.job \in shell.typed
        /\ w \in Program /\ w # Shell
    BY <1>1, ShellFacts, Names
  <1> HIDE DEF w
  <1>3. state' = state \/ (state[w] \in Awake /\ state' = [state EXCEPT ![w] = "EXITED"])
    <2>1. ~ShellWaitsFor(w)
      BY <1>2 DEF ShellWaitsFor
    <2>2. Died(w) = [state EXCEPT ![w] = "EXITED"]
      BY <2>1, Typings DEF Died, Wake
    <2> QED BY <1>1, <2>2
  <1>4. state' \in [Process -> State] /\ state'[Shell] = "READY"
    <2>1. state \in [Process -> State] /\ "EXITED" \in State /\ Shell \in Process
      BY Typings, Names DEF State
    <2>2. state' = state \/ state' = [state EXCEPT ![w] = "EXITED"]
      BY <1>3
    <2> QED BY <1>2, <2>1, <2>2
  <1>5. shell' = [at |-> "close", job |-> shell.job, typed |-> shell.typed, fg |-> shell.fg]
    BY <1>1 DEF Base, TypeOK
  <1>6. TypeOK'
    BY <1>1, <1>4, <1>5 DEF Base, TypeOK
  <1>7. ShellOK' /\ RunningOK'
    BY <1>1, <1>2, <1>4, <1>5 DEF Base, ShellOK, ShellKnows, RunningOK, Awake
  <1>8. \A p \in Program : /\ state'[p] = "none" <=> state[p] = "none"
                           /\ state'[p] = "freed" <=> state[p] = "freed"
    BY <1>3, Typings, Names DEF Awake
  <1> QED BY <1>1, <1>5, <1>6, <1>7, <1>8, ShellMoves

(* The shell waits for one of the two: the other one is there as before.    *)
LEMMA ShellWaitsBase ==
  ASSUME Base, ShellWaits
  PROVE  Base'
  <1> DEFINE w == Writer(shell.job)
             r == Reader(shell.job)
  <1>1. /\ running = Shell /\ UNCHANGED <<pipe, cached, allPipes, call, out, in>>
        /\ shell.at \in {"wait1", "waiting1", "wait2", "waiting2"}
    BY DEF ShellWaits, ShellWait, ShellWaited, ShellAt
  <1>2. /\ state[Shell] = "READY" /\ shell.job \in Job /\ shell.job \in shell.typed
        /\ w \in Program /\ r \in Program /\ w # r /\ w # Shell /\ r # Shell
        /\ ShellKnows(state[w], state[r], shell.job \in shell.fg)
    BY <1>1, ShellFacts, Names
  <1> HIDE DEF w, r
  <1>3. \/ /\ shell.at = "wait1" /\ state[w] = "EXITED"
           /\ state' = [state EXCEPT ![w] = "TERMINATED"]
           /\ shell' = [shell EXCEPT !.at = "wait2"] /\ running' = running
        \/ /\ shell.at = "wait1" /\ Block(Shell)
           /\ shell' = [shell EXCEPT !.at = "waiting1"]
        \/ /\ shell.at = "waiting1" /\ state' = [state EXCEPT ![w] = "TERMINATED"]
           /\ shell' = [shell EXCEPT !.at = "wait2"] /\ running' = running
        \/ /\ shell.at = "wait2" /\ state[r] = "EXITED"
           /\ state' = [state EXCEPT ![r] = "TERMINATED"]
           /\ shell' = [shell EXCEPT !.at = "close"] /\ running' = running
        \/ /\ shell.at = "wait2" /\ Block(Shell)
           /\ shell' = [shell EXCEPT !.at = "waiting2"]
        \/ /\ shell.at = "waiting2" /\ state' = [state EXCEPT ![r] = "TERMINATED"]
           /\ shell' = [shell EXCEPT !.at = "close"] /\ running' = running
    BY DEF ShellWaits, ShellWait, ShellWaited, ShellAt, w, r
  <1>4. /\ shell.at = "waiting1" => state[w] = "EXITED"
        /\ shell.at = "waiting2" => state[r] = "EXITED"
        /\ shell.job \in shell.fg /\ state[w] # "none" /\ state[r] # "none"
        /\ state[r] \notin {"TERMINATED", "freed"}
    BY <1>1, <1>2 DEF ShellKnows
  <1>5. /\ shell'.job = shell.job /\ shell'.typed = shell.typed /\ shell'.fg = shell.fg
        /\ shell' \in [at : {"wait2", "waiting1", "waiting2", "close"}, job : Job \cup {None},
                       typed : SUBSET Job, fg : SUBSET Job]
    BY <1>3 DEF Base, TypeOK
  <1>6. \/ /\ state' = [state EXCEPT ![w] = "TERMINATED"] /\ state[w] = "EXITED"
           /\ shell'.at = "wait2" /\ running' = running
        \/ /\ state' = [state EXCEPT ![r] = "TERMINATED"] /\ state[r] = "EXITED"
           /\ shell'.at = "close" /\ running' = running
        \/ /\ state' = [state EXCEPT ![Shell] = "BLOCKED"]
           /\ shell'.at = "waiting1" /\ shell.at = "wait1" /\ running' = Scheduler
        \/ /\ state' = [state EXCEPT ![Shell] = "BLOCKED"]
           /\ shell'.at = "waiting2" /\ running' = Scheduler
    BY <1>3, <1>4 DEF Base, TypeOK, Block
  <1>7. /\ state' \in [Process -> State] /\ running' \in Process \cup {Scheduler}
        /\ state'[Shell] \in Awake /\ RunningOK'
        /\ state'[Shell] = "BLOCKED" => shell'.at \in {"waiting1", "waiting2"}
    <2>1. /\ state \in [Process -> State] /\ {"TERMINATED", "BLOCKED"} \subseteq State
          /\ Shell \in Process
      BY Typings, Names DEF State
    <2>2. running' \in {running, Scheduler}
      BY <1>6
    <2>3. state' \in [Process -> State]
      BY <1>6, <2>1
    <2>4. /\ running' = running => state'[Shell] = "READY"
          /\ running' = Scheduler => state'[Shell] = "BLOCKED"
      BY <1>1, <1>2, <1>6, <2>1, Names
    <2>5. state'[Shell] = "BLOCKED" => shell'.at \in {"waiting1", "waiting2"}
      BY <1>2, <1>6, <2>1
    <2> QED BY <1>1, <2>1, <2>2, <2>3, <2>4, <2>5 DEF Awake, RunningOK
  <1>8. \A p \in Program : /\ state'[p] = "none" <=> state[p] = "none"
                           /\ state'[p] = "freed" <=> state[p] = "freed"
    BY <1>2, <1>6, Typings, Names
  <1>9. ShellKnows(state[w], state[r], shell.job \in shell.fg)'
    <2>1. w' = w /\ r' = r
      BY <1>5 DEF w, r
    <2>2. shell'.at # "close" => state'[r] = state[r]
      BY <1>2, <1>6, Typings, Names
    <2>3. shell'.at = "waiting1" => state'[w] = state[w] /\ shell.at = "wait1"
      BY <1>2, <1>6, Typings, Names
    <2>4. state'[Shell] = "READY" => shell'.at \in {"wait2", "close"}
      BY <1>2, <1>6, Typings, Names
    <2> QED BY <1>2, <1>4, <1>5, <1>8, <2>1, <2>2, <2>3, <2>4 DEF ShellKnows
  <1>10. ShellOK'
    BY <1>2, <1>5, <1>7, <1>9 DEF Base, ShellOK, w, r
  <1>11. TypeOK'
    BY <1>1, <1>5, <1>7 DEF Base, TypeOK
  <1> QED BY <1>1, <1>5, <1>7, <1>8, <1>10, <1>11, ShellMoves

LEMMA ShellCloseBase ==
  ASSUME Base, ShellClose
  PROVE  Base'
  <1> DEFINE j == shell.job
  <1>1. /\ running = Shell /\ shell.at = "close"
        /\ pipe' = [pipe EXCEPT ![j] = Closed(pipe[j])]
        /\ cached' = CachedAfterClose(j)
        /\ shell' = [shell EXCEPT !.at = "prompt", !.job = None]
        /\ UNCHANGED <<allPipes, state, running, call, out, in>>
    BY DEF ShellClose, ShellAt
  <1>2. /\ state[Shell] = "READY" /\ j \in Job /\ j \in shell.typed
        /\ pipe[j].open /\ pipe[j].total > 0 /\ Count(j) > 0 /\ pipe[j] \in Pipe
    BY <1>1, ShellFacts, Typings
  <1>3. shell' = [at |-> "prompt", job |-> None, typed |-> shell.typed, fg |-> shell.fg]
    BY <1>1 DEF Base, TypeOK
  <1>4. ASSUME NEW i \in Job
        PROVE  /\ Count(i)' = IF i = j THEN Count(i) - 1 ELSE Count(i)
               /\ Aborted(i) => Aborted(i)'
    <2>1. i # None
      BY ValueAssumption
    <2>2. Count(i)' = IF i = j THEN Count(i) - 1 ELSE Count(i)
      BY <1>1, <1>3, <2>1 DEF Count, One
    <2>3. Aborted(i) => Aborted(i)'
      BY <1>1, <1>3 DEF Aborted
    <2> QED BY <2>2, <2>3
  <1> HIDE DEF j
  <1>5. Counted'
    BY <1>1, <1>2, <1>3, <1>4, CloseCounted
  <1>6. TypeOK'
    <2>1. pipe' \in [Job -> Pipe]
      BY <1>1, <1>2, Typings, PipeTypes
    <2>2. cached' \in Job \cup {None}
      BY <1>1, <1>2 DEF CachedAfterClose
    <2> QED BY <1>1, <1>3, <2>1, <2>2 DEF Base, TypeOK, Pipe
  <1>7. ShellOK'
    BY <1>1, <1>2, <1>3 DEF Base, ShellOK, Awake
  <1>8. RunningOK' /\ Calls'
    BY <1>1 DEF Base, RunningOK, Calls
  <1>9. Fresh'
    BY <1>1, <1>2, <1>3 DEF Base, Fresh
  <1>10. Sleepers'
    BY <1>1, ShellFacts, Names DEF Sleepers
  <1> QED BY <1>5, <1>6, <1>7, <1>8, <1>9, <1>10 DEF Base

(* startTask for the next program of the pipeline, and its failures.        *)
LEMMA ShellStartBase ==
  ASSUME Base, NEW at, NEW p, NEW next,
         \/ at = "start1" /\ p = Writer(shell.job) /\ next = "start2"
         \/ /\ at = "start2" /\ p = Reader(shell.job)
            /\ next = IF shell.job \in shell.fg THEN "wait1" ELSE "close",
         ShellStart(at, p, next)
  PROVE  Base'
  <1>0. PICK j \in Job : j = shell.job
    BY ShellFacts DEF ShellStart, ShellAt
  <1> DEFINE failed == IF at = "start1" THEN "close" ELSE "kill1"
             opened == /\ pipe' = [pipe EXCEPT ![j].total = pipe[j].total + 1]
                       /\ cached' = Lookup(j)
  <1>1. /\ running = Shell /\ shell.at = at /\ shell.at \in {"start1", "start2"}
        /\ UNCHANGED <<allPipes, running, call, out, in>>
    BY DEF ShellStart, ShellAt
  <1>2. \/ /\ opened /\ state' = [state EXCEPT ![p] = "READY"]
           /\ shell' = [shell EXCEPT !.at = next]
        \/ /\ UNCHANGED <<pipe, cached, state>> \/ (opened /\ state' = state)
           /\ shell' = [shell EXCEPT !.at = failed]
    BY <1>0 DEF ShellStart
  <1>3. /\ state[Shell] = "READY" /\ j \in Job /\ j \in shell.typed
        /\ pipe[j].open /\ pipe[j].total > 0 /\ pipe[j] \in Pipe
        /\ ShellKnows(state[Writer(j)], state[Reader(j)], j \in shell.fg)
        /\ Writer(j) \in Program /\ Reader(j) \in Program /\ p \in Program /\ p # Shell
        /\ Writer(j) # Reader(j) /\ p \in {Writer(j), Reader(j)}
    BY <1>0, <1>1, ShellFacts, Typings, Names
  <1>4. state[p] = "none" /\ pipe[j].total = Count(j) /\ Count(j) \in Nat
    <2>1. state[p] = "none"
      BY <1>0, <1>1, <1>3 DEF ShellKnows
    <2>2. ~Aborted(j)
      BY <1>0, <1>1 DEF Aborted
    <2> QED BY <1>3, <2>1, <2>2 DEF Base, Counted, Count, One
  <1>5. /\ shell'.job = j /\ shell'.typed = shell.typed /\ shell'.fg = shell.fg
        /\ shell' \in [at : {"start2", "wait1", "close", "kill1"}, job : Job \cup {None},
                       typed : SUBSET Job, fg : SUBSET Job]
    BY <1>0, <1>2 DEF Base, TypeOK
  <1>6. state' = state \/ state' = [state EXCEPT ![p] = "READY"]
    BY <1>2
  <1>7. state \in [Process -> State] /\ "READY" \in State /\ p \in Process
    BY <1>3, Typings, Names DEF State
  <1>8. /\ state' \in [Process -> State] /\ state'[Shell] = "READY"
        /\ \A q \in Process \ {p} : state'[q] = state[q]
        /\ state'[p] = IF state' = state THEN "none" ELSE "READY"
    BY <1>3, <1>4, <1>6, <1>7, Names
  <1>9. (UNCHANGED <<pipe, cached>> /\ state' = state) \/ opened
    BY <1>2
  <1>10. opened => /\ pipe'[j].total = pipe[j].total + 1 /\ pipe'[j].open
                   /\ \A i \in Job \ {j} : pipe'[i] = pipe[i]
                   /\ pipe' \in [Job -> Pipe]
    <2> DEFINE y == [pipe[j] EXCEPT !.total = pipe[j].total + 1]
    <2>1. y \in Pipe /\ y.total = pipe[j].total + 1 /\ y.open
      BY <1>3 DEF Pipe
    <2>2. opened => pipe' = [pipe EXCEPT ![j] = y]
      OBVIOUS
    <2> HIDE DEF y, opened
    <2>3. pipe \in [Job -> Pipe]
      BY Typings
    <2> QED BY <1>3, <2>1, <2>2, <2>3
  <1>11. TypeOK'
    <2>1. pipe' \in [Job -> Pipe]
      BY <1>9, <1>10, Typings
    <2>2. cached' \in Job \cup {None}
      BY <1>3, <1>9, LookupFacts, Typings
    <2> QED BY <1>1, <1>5, <1>8, <2>1, <2>2 DEF Base, TypeOK, Pipe
  <1>12. ShellOK'
    <2>1. \/ /\ at = "start1" /\ p = Writer(j) /\ state'[p] = "READY" /\ shell'.at = "start2"
          \/ /\ at = "start2" /\ p = Reader(j) /\ state'[p] = "READY"
             /\ shell'.at = IF j \in shell.fg THEN "wait1" ELSE "close"
          \/ at = "start1" /\ shell'.at = "close"
          \/ at = "start2" /\ p = Reader(j) /\ state' = state /\ shell'.at = "kill1"
      <3>1. shell' = [shell EXCEPT !.at = next] => shell'.at = next
        BY DEF Base, TypeOK
      <3>2. shell' = [shell EXCEPT !.at = failed] => shell'.at = failed
        BY DEF Base, TypeOK
      <3>3. \/ state'[p] = "READY" /\ shell'.at = next
            \/ state' = state /\ shell'.at = failed
        BY <1>2, <1>7, <3>1, <3>2
      <3> QED BY <1>0, <1>1, <3>3
    <2>2. ShellKnows(state[Writer(j)], state[Reader(j)], j \in shell.fg)'
      <3>1. /\ p # Writer(j) => state'[Writer(j)] = state[Writer(j)]
            /\ p # Reader(j) => state'[Reader(j)] = state[Reader(j)]
        BY <1>3, <1>8, Names
      <3>2. at = shell.at /\ (shell'.at \notin {"start1", "waiting1", "waiting2", "wait2"})
        BY <1>1, <2>1
      <3> HIDE DEF failed, opened
      <3> QED BY <1>3, <1>4, <1>5, <2>1, <3>1, <3>2 DEF ShellKnows
    <2> QED BY <1>3, <1>5, <1>8, <2>1, <2>2 DEF Base, ShellOK, Awake
  <1>13. RunningOK' /\ Calls'
    <2>1. \A q \in Program : state'[q] = "none" => state[q] = "none"
      BY <1>4, <1>8, Names
    <2> QED BY <1>1, <1>8, <2>1 DEF Base, RunningOK, Calls
  <1>14. Fresh'
    <2>1. ASSUME NEW i \in Job \ shell.typed
          PROVE  /\ pipe'[i] = pipe[i] /\ state'[Writer(i)] = state[Writer(i)]
                 /\ state'[Reader(i)] = state[Reader(i)]
      <3>1. i # j /\ Writer(i) # p /\ Reader(i) # p
        BY <1>3, Names
      <3> QED BY <1>8, <1>9, <1>10, <3>1, Names
    <2> QED BY <1>1, <1>5, <2>1 DEF Base, Fresh
  <1>15. Sleepers'
    <2>1. \A q \in Program : state[q] = "freed" => state'[q] = "freed"
      BY <1>4, <1>8, Names
    <2> QED BY <1>1, <2>1, ShellFacts, Names DEF Sleepers
  <1>16. Counted'
    <2>1. ASSUME NEW i \in Job \ {j}
          PROVE  Count(i)' = Count(i) /\ (Aborted(i) => Aborted(i)') /\ pipe'[i] = pipe[i]
      <3>1. /\ Writer(i) \in Program /\ Reader(i) \in Program
            /\ Writer(i) # p /\ Reader(i) # p
        BY <1>3, Names
      <3>2. /\ state'[Writer(i)] = state[Writer(i)] /\ state'[Reader(i)] = state[Reader(i)]
            /\ shell.job # i /\ shell'.job # i
        BY <1>5, <1>8, <3>1, Names, <1>0
      <3>3. Count(i)' = Count(i)
        BY <3>2 DEF Count, One
      <3>4. Aborted(i) => Aborted(i)'
        BY <3>2 DEF Aborted
      <3> QED BY <1>9, <1>10, <3>3, <3>4
    <2>2. /\ shell'.at # "opening" /\ shell.at # "opening" /\ shell.job = j
      BY <1>0, <1>1, <1>5
    <2>3. /\ pipe'[j].total \in {Count(j)', Count(j)' + 1}
          /\ pipe'[j].total # Count(j)' => Aborted(j)'
      <3>1. CASE state' = state
        <4>1. Count(j)' = Count(j)
          BY <1>5, <2>2, <3>1 DEF Count
        <4>2. pipe'[j].total \in {pipe[j].total, pipe[j].total + 1}
          BY <1>9, <1>10
        <4>3. Aborted(j)' \/ pipe'[j].total = pipe[j].total
          <5>1. CASE shell'.at \in {"start1", "start2"}
            BY <1>2, <1>4, <1>7, <3>1, <5>1 DEF Base, TypeOK
          <5>2. CASE shell'.at \notin {"start1", "start2"}
            BY <1>3, <1>4, <3>1, <5>2 DEF Aborted
          <5> QED BY <5>1, <5>2
        <4> QED BY <1>4, <4>1, <4>2, <4>3
      <3>2. CASE state' # state
        <4>1. state'[p] = "READY" /\ opened
          BY <1>8, <1>9, <3>2
        <4>2. Count(j)' = Count(j) + 1
          <5>1. CASE p = Writer(j)
            BY <1>3, <1>4, <1>5, <1>8, <2>2, <4>1, <5>1, Names DEF Count, One, Holds
          <5>2. CASE p = Reader(j)
            BY <1>3, <1>4, <1>5, <1>8, <2>2, <4>1, <5>2, Names DEF Count, One, Holds
          <5> QED BY <1>3, <5>1, <5>2
        <4> QED BY <1>4, <1>10, <4>1, <4>2
      <3> QED BY <3>1, <3>2
    <2>4. pipe'[j].open /\ pipe'[j].total > 0
      BY <1>3, <1>9, <1>10, Typings DEF Pipe
    <2>5. \A i \in Job : pipe[i].open => pipe'[i].open
      BY <2>1, <2>4
    <2>6. cached' # None => cached' \in Job /\ pipe[cached'].open
      BY <1>3, <1>9, LookupFacts, Typings DEF Base, Counted
    <2> QED BY <1>3, <1>5, <2>1, <2>3, <2>4, <2>5, <2>6 DEF Base, Counted
  <1> QED BY <1>11, <1>12, <1>13, <1>14, <1>15, <1>16 DEF Base

(* The shell gets the list of the pipes and opens one, or finds no memory.  *)
LEMMA OpenedBase ==
  ASSUME Base, running = Shell, NEW j \in Job, j \notin shell.typed,
         shell.at = "prompt" \/ (shell.at = "opening" /\ shell.job = j),
         NEW fg \in BOOLEAN, NEW s \in Semaphore(Process), s.waiters = allPipes.waiters,
         Opened(j, fg, s), UNCHANGED <<state, running, call, out, in>>
  PROVE  Base'
  <1>1. /\ pipe' = [pipe EXCEPT ![j] = [NewPipe EXCEPT !.total = 1]] /\ cached' = None
        /\ allPipes' = Post(s)
        /\ shell' = [at |-> "start1", job |-> j, typed |-> shell.typed \cup {j},
                     fg |-> IF fg THEN shell.fg \cup {j} ELSE shell.fg]
    BY DEF Opened
  <1>2. /\ state[Shell] = "READY"
        /\ state[Writer(j)] = "none" /\ state[Reader(j)] = "none"
    BY ShellFacts DEF Base, Fresh
  <1>3. allPipes' \in Semaphore(Process) /\ allPipes'.waiters = <<>>
    <2>1. \A i \in DOMAIN s.waiters :
            s.waiters[i] \in Program /\ state[s.waiters[i]] = "freed"
      BY ShellFacts
    <2>2. Handover(s) = {}
      BY <2>1 DEF Handover, Semaphore
    <2> QED BY <1>1, <2>2, SemaphoreTypes DEF Post
  <1>4. /\ [NewPipe EXCEPT !.total = 1] \in Pipe
        /\ pipe' \in [Job -> Pipe] /\ \A i \in Job \ {j} : pipe'[i] = pipe[i]
        /\ pipe'[j].total = 1 /\ pipe'[j].open
    BY <1>1, Typings, PipeTypes DEF NewPipe, NoPipe
  <1>5. TypeOK'
    <2>1. shell' \in [at : {"start1"}, job : Job, typed : SUBSET Job, fg : SUBSET Job]
      BY <1>1 DEF Base, TypeOK
    <2> QED BY <1>1, <1>3, <1>4, <2>1 DEF Base, TypeOK, Pipe
  <1>6. ShellOK'
    BY <1>1, <1>2 DEF Base, ShellOK, ShellKnows, Awake
  <1>7. RunningOK' /\ Calls'
    BY DEF Base, RunningOK, Calls
  <1>8. Fresh'
    BY <1>1, <1>4 DEF Base, Fresh
  <1>9. Sleepers'
    BY <1>3 DEF Sleepers
  <1>10. Counted'
    <2>1. ASSUME NEW i \in Job \ {j} PROVE Count(i)' = Count(i) /\ (Aborted(i) => Aborted(i)')
      <3>1. ~(shell.job = i /\ shell.at # "opening")
        BY ValueAssumption DEF Base, ShellOK
      <3> QED BY <1>1, <3>1 DEF Count, Aborted
    <2>2. Count(j)' = 1
      BY <1>1, <1>2 DEF Count, One, Holds
    <2> QED BY <1>1, <1>4, <2>1, <2>2 DEF Base, Counted
  <1> QED BY <1>5, <1>6, <1>7, <1>8, <1>9, <1>10 DEF Base

(* The shell at its prompt, or waiting for the list of the pipes, goes to   *)
(* another of the two.                                                      *)
LEMMA NotOpenedBase ==
  ASSUME Base, shell.at \in {"prompt", "opening"}, shell'.at \in {"prompt", "opening"},
         UNCHANGED <<pipe, call, out, in>>, cached' \in {cached, None},
         shell'.typed = shell.typed, shell'.fg = shell.fg,
         TypeOK', ShellOK', RunningOK', Sleepers',
         \A p \in Program : state'[p] = state[p]
  PROVE  Base'
  <1>1. Calls' /\ Fresh'
    BY Names DEF Base, Calls, Fresh
  <1>2. Counted'
    <2>1. ASSUME NEW j \in Job PROVE Count(j)' = Count(j) /\ (Aborted(j) => Aborted(j)')
      <3>1. /\ ~(shell.job = j /\ shell.at # "opening")
            /\ ~(shell'.job = j /\ shell'.at # "opening")
        BY ValueAssumption DEF Base, ShellOK
      <3>2. state'[Writer(j)] = state[Writer(j)] /\ state'[Reader(j)] = state[Reader(j)]
        BY Names
      <3> QED BY <3>1, <3>2 DEF Count, Aborted
    <2> QED BY <2>1 DEF Base, Counted
  <1> QED BY <1>1, <1>2 DEF Base

LEMMA ShellOpenBase ==
  ASSUME Base, ShellOpens \/ (\E j \in Job, fg \in BOOLEAN : ShellOpen(j, fg))
  PROVE  Base'
  <1>1. /\ running = Shell /\ state[Shell] = "READY" /\ UNCHANGED <<call, out, in>>
        /\ shell.at \in {"prompt", "opening"} /\ allPipes \in Semaphore(Process)
    BY ShellFacts, Typings DEF ShellOpens, ShellOpen, ShellAt
  <1>2. allPipes.value > 0 => /\ Taken(allPipes) \in Semaphore(Process)
                              /\ Taken(allPipes).waiters = allPipes.waiters
    BY <1>1, SemaphoreTypes DEF Taken, Semaphore
  <1>3. \A i \in DOMAIN allPipes.waiters :
          allPipes.waiters[i] \in Program /\ state[allPipes.waiters[i]] = "freed"
    BY <1>1, ShellFacts
  <1>4. CASE UNCHANGED <<state, running>> /\
             \E s \in Semaphore(Process) : NotOpened(s) /\ s.waiters = allPipes.waiters
    <2>1. /\ shell' = [at |-> "prompt", job |-> None, typed |-> shell.typed, fg |-> shell.fg]
          /\ cached' = None /\ UNCHANGED pipe /\ allPipes' \in Semaphore(Process)
          /\ allPipes'.waiters = allPipes.waiters
      BY <1>4 DEF NotOpened, Base, TypeOK
    <2>2. TypeOK'
      BY <1>1, <1>4, <2>1 DEF Base, TypeOK
    <2>3. ShellOK' /\ RunningOK'
      BY <1>1, <1>4, <2>1 DEF Base, ShellOK, RunningOK, Awake
    <2>4. Sleepers'
      BY <1>3, <1>4, <2>1, Names DEF Sleepers
    <2> QED BY <1>1, <1>4, <2>1, <2>2, <2>3, <2>4, NotOpenedBase
  <1>5. CASE ShellOpens
    <2>1. UNCHANGED <<state, running>> /\ shell.at = "opening"
      BY <1>5 DEF ShellOpens, ShellAt
    <2>2. shell.job \in Job /\ shell.job \notin shell.typed
      BY <2>1 DEF Base, ShellOK
    <2>3. (\E fg \in BOOLEAN : Opened(shell.job, fg, allPipes)) \/ NotOpened(allPipes)
      BY <1>5 DEF ShellOpens
    <2>4. PICK j \in Job : j = shell.job
      BY <2>2
    <2> QED BY <1>1, <1>4, <2>1, <2>2, <2>3, <2>4, OpenedBase
  <1>6. CASE \E j \in Job, fg \in BOOLEAN : ShellOpen(j, fg)
    <2>1. PICK j \in Job, fg \in BOOLEAN : ShellOpen(j, fg)
      BY <1>6
    <2>2. shell.at = "prompt" /\ j \notin shell.typed
      BY <2>1 DEF ShellOpen, ShellAt
    <2>3. CASE /\ allPipes.value > 0
               /\ Opened(j, fg, Taken(allPipes)) \/ NotOpened(Taken(allPipes))
               /\ UNCHANGED <<state, running>>
      BY <1>1, <1>2, <1>4, <2>2, <2>3, OpenedBase
    <2>4. CASE /\ allPipes.value = 0 /\ allPipes' = Enlisted(allPipes, Shell)
               /\ shell' = [shell EXCEPT !.at = "opening", !.job = j]
               /\ Block(Shell) /\ UNCHANGED <<pipe, cached>>
      <3>1. shell' = [at |-> "opening", job |-> j, typed |-> shell.typed, fg |-> shell.fg]
        BY <2>4 DEF Base, TypeOK
      <3>2. /\ state' \in [Process -> State] /\ running' = Scheduler
            /\ \A q \in Process \ {Shell} : state'[q] = state[q]
            /\ state'[Shell] = "BLOCKED"
        BY <1>1, <2>4, BlockFacts, Names
      <3>3. allPipes' \in Semaphore(Process)
        BY <1>1, <2>4, SemaphoreTypes, Names
      <3>4. TypeOK'
        BY <1>1, <2>4, <3>1, <3>2, <3>3 DEF Base, TypeOK
      <3>5. ShellOK' /\ RunningOK'
        BY <2>2, <3>1, <3>2 DEF Base, ShellOK, RunningOK, Awake
      <3>6. Sleepers'
        <4> DEFINE w == allPipes.waiters
        <4>1. w \in Seq(Process)
          BY <1>1 DEF Semaphore
        <4>2. allPipes'.waiters = Append(w, Shell) /\ allPipes'.value = 0
          BY <2>4, <1>1 DEF Enlisted, Semaphore
        <4>3. \A i \in DOMAIN Append(w, Shell) :
                \/ i \in DOMAIN w /\ Append(w, Shell)[i] = w[i]
                \/ i = Len(w) + 1 /\ Append(w, Shell)[i] = Shell
          BY <4>1
        <4>4. \A i \in DOMAIN w : w[i] \in Program /\ state'[w[i]] = "freed" /\ w[i] # Shell
          BY <1>3, <3>2, Names
        <4> HIDE DEF w
        <4>5. \A i \in DOMAIN Append(w, Shell) :
                \/ Append(w, Shell)[i] \in Program /\ state'[Append(w, Shell)[i]] = "freed"
                \/ Append(w, Shell)[i] = Shell
          BY <4>3, <4>4
        <4>6. \A i \in DOMAIN Append(w, Shell) : Append(w, Shell)[i] = Shell => i = Len(w) + 1
          BY <4>3, <4>4
        <4> QED BY <3>1, <3>2, <4>2, <4>5, <4>6 DEF Sleepers
      <3>7. \A p \in Program : state'[p] = state[p]
        BY <3>2, Names
      <3> QED BY <1>1, <2>2, <2>4, <3>1, <3>4, <3>5, <3>6, <3>7, NotOpenedBase
    <2> QED BY <2>1, <2>3, <2>4 DEF ShellOpen
  <1> QED BY <1>5, <1>6

LEMMA BaseInit == Init => Base
  <1> SUFFICES ASSUME Init PROVE Base
    OBVIOUS
  <1>1. \A p \in Program : state[p] = "none"
    BY Names DEF Init
  <1>2. state \in [Process -> State] /\ state[Shell] = "READY"
    BY Names DEF Init, State
  <1>3. TypeOK
    BY <1>2, PipeTypes, Names DEF Init, TypeOK, Pipe, Semaphore
  <1>4. ShellOK /\ RunningOK /\ Calls
    BY <1>1, <1>2, Names DEF Init, ShellOK, RunningOK, Calls, Awake
  <1>5. Fresh /\ Sleepers
    BY <1>1, Names DEF Init, Fresh, Sleepers
  <1>6. Counted
    <2>1. \A j \in Job : Count(j) = 0
      BY <1>1, Names, ValueAssumption DEF Init, Count, One, Holds
    <2>2. \A j \in Job : pipe[j].total = 0 /\ ~pipe[j].open
      BY PipeTypes DEF Init
    <2> QED BY <2>1, <2>2 DEF Init, Counted
  <1> QED BY <1>3, <1>4, <1>5, <1>6 DEF Base

LEMMA BaseNext == Base /\ [Next]_vars => Base'
  <1> SUFFICES ASSUME Base, [Next]_vars PROVE Base'
    OBVIOUS
  <1>1. CASE \E j \in Job : WriterStep(j) \/ ReaderStep(j)
    BY <1>1, Names, PutBase, PutReturnsBase, GetBase, GetReturnsBase, ExitBase
       DEF WriterStep, ReaderStep
  <1>2. CASE ShellStep \/ (\E j \in Job, fg \in BOOLEAN : ShellOpen(j, fg))
    BY <1>2, ShellOpenBase, ShellStartBase, ShellKillsWriterBase, ShellWaitsBase,
       ShellCloseBase DEF ShellStep, ShellStartWriter, ShellStartReader
  <1>3. CASE \E p \in Program : CtrlC(p) \/ Reap(p)
    BY <1>3, CtrlCBase, InitReapsBase, FreeBase DEF Reap
  <1>4. CASE Tick \/ (\E p \in Process : Dispatch(p))
    BY <1>4, TickBase
  <1>5. CASE UNCHANGED vars
    <2>1. UNCHANGED <<pipe, cached, allPipes, call, shell, out, in, state, running>>
      BY <1>5 DEF vars
    <2>2. ShellResumed /\ \A p \in Program : Proceeds(p)
      BY <2>1 DEF ShellResumed, Proceeds
    <2>3. RunningOK'
      BY <2>1 DEF Base, RunningOK
    <2> QED BY <2>1, <2>2, <2>3, Typings, QuietBase
  <1> QED BY <1>1, <1>2, <1>3, <1>4, <1>5 DEF Next

-----------------------------------------------------------------------------
(* Every variable of a pipeline keeps its type: in particular the indexes   *)
(* stay inside the buffer of the pipe, and the semaphores and the number of *)
(* holders never become negative (writeToPipe, pipeRead, pipeClose).        *)
THEOREM PipelineTyped == Spec => []TypeOK
  <1>1. Base => TypeOK
    BY DEF Base
  <1> QED BY <1>1, BaseInit, BaseNext, PTL DEF Spec

LEMMA HoldersCounted ==
  ASSUME Base, NEW j \in Job
  PROVE  Cardinality(Holders(j)) = Count(j)
  <1> DEFINE A == {p \in {Writer(j)} : Holds(state[p])}
             B == {p \in {Reader(j)} : Holds(state[p])}
             C == {p \in {Shell} : shell.job = j /\ shell.at # "opening"}
  <1>1. Writer(j) # Reader(j) /\ Writer(j) # Shell /\ Reader(j) # Shell
    BY Names
  <1>2. Holders(j) = (A \cup B) \cup C
    BY DEF Holders, Holds
  <1>3. IsFiniteSet(A) /\ Cardinality(A) = One(Holds(state[Writer(j)]))
    <2>1. A = {} \/ A = {Writer(j)}
      OBVIOUS
    <2> QED BY <2>1, FS_EmptySet, FS_Singleton DEF One
  <1>4. IsFiniteSet(B) /\ Cardinality(B) = One(Holds(state[Reader(j)]))
    <2>1. B = {} \/ B = {Reader(j)}
      OBVIOUS
    <2> QED BY <2>1, FS_EmptySet, FS_Singleton DEF One
  <1>5. IsFiniteSet(C) /\ Cardinality(C) = One(shell.job = j /\ shell.at # "opening")
    <2>1. C = {} \/ C = {Shell}
      OBVIOUS
    <2> QED BY <2>1, FS_EmptySet, FS_Singleton DEF One
  <1>6. A \cap B = {} /\ (A \cup B) \cap C = {}
    BY <1>1
  <1> HIDE DEF A, B, C
  <1>7. IsFiniteSet(A \cup B) /\ Cardinality(A \cup B) = Cardinality(A) + Cardinality(B)
    BY <1>3, <1>4, <1>6, FS_Union, FS_EmptySet DEF One
  <1>8. Cardinality((A \cup B) \cup C) = Cardinality(A \cup B) + Cardinality(C)
    BY <1>3, <1>4, <1>5, <1>6, <1>7, FS_Union, FS_EmptySet DEF One
  <1> QED BY <1>2, <1>3, <1>4, <1>5, <1>7, <1>8 DEF Count

(* A pipe exists exactly while the shell or a process that was not freed    *)
(* holds it open, and cachedPipe never leads to one that was destroyed      *)
(* (pipeOpen, pipeClose, initializeBlock, freeProcess): whatever fails and  *)
(* whoever is killed, but for the descriptor of a startTask that failed.    *)
THEOREM PipesHeld == Spec => []PipeHeld
  <1>1. Base => PipeHeld
    <2> SUFFICES ASSUME Base PROVE PipeHeld
      OBVIOUS
    <2>1. ASSUME NEW j \in Job
          PROVE  /\ pipe[j].total - Cardinality(Holders(j))
                     \in IF j \in shell.typed /\ Aborted(j) THEN {0, 1} ELSE {0}
                 /\ pipe[j].open <=> pipe[j].total > 0
      <3>1. Count(j) \in Nat /\ Cardinality(Holders(j)) = Count(j)
        BY HoldersCounted DEF Count, One
      <3> QED BY <3>1 DEF Base, Counted
    <2> QED BY <2>1 DEF Base, Counted, PipeHeld
  <1> QED BY <1>1, BaseInit, BaseNext, PTL DEF Spec

=============================================================================
