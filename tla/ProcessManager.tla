--------------------------- MODULE ProcessManager ---------------------------
(***************************************************************************)
(* The process manager and scheduler of Ques-OS (scheduler/                *)
(* processManager.c), the init process (scheduler/initProcess.c) and the   *)
(* semaphore operations the two are built on (semaphores/sem.c: semWait,   *)
(* semPost), for processes whose descriptors are the console.              *)
(*                                                                         *)
(* A process is a pcb at an address: Slot is the set of addresses malloc   *)
(* can hand out for a pcb, and pids are numbers stored in the pcb.  The    *)
(* machine has one core.  A system call runs with interrupts disabled, so  *)
(* it is one step up to the point where it gives up the processor (int     *)
(* 20h); what it does after it is resumed is a later step (cont).  The     *)
(* init process calls the same functions with interrupts enabled; here it  *)
(* is preempted between its calls, and in waitpid where it blocks, but not *)
(* inside another call.  The loop of scheduleTask is one step per          *)
(* iteration, with mode = "scan" and nothing else enabled.                 *)
(* The mallocs of find, enqueue and semWait have memory (see SemTable).    *)
(***************************************************************************)
EXTENDS Integers, Sequences, FiniteSets

CONSTANTS
  Slot,                   \* addresses of pcbs
  Idle, InitProc, Shell,  \* the three processes the kernel starts at boot
  UserSem,                \* semaphores the programs share, opened at boot
  SemValue,               \* their initial value
  MaxPid,                 \* bound: no task is started once pidCounter exceeds it
  MaxSem,                 \* bound: no program posts a semaphore at this value
  MaxWaiters,             \* bound: no process waits where this many pids are queued
  MaxPrio,                \* MAX_PRIO
  Calls                   \* the system calls and keys of the workload

ASSUME SlotAssumption ==
  /\ IsFiniteSet(Slot)
  /\ {Idle, InitProc, Shell} \subseteq Slot
  /\ Idle # InitProc /\ Idle # Shell /\ InitProc # Shell
  /\ UserSem \cap Slot = {}

ASSUME BoundAssumption ==
  /\ SemValue \in Nat /\ MaxPid \in Nat /\ MaxSem \in Nat /\ MaxWaiters \in Nat
  /\ MaxPrio \in Nat /\ MaxPrio >= 2

None == "none"
NoPcb == "free"           \* the state of an address that holds no pcb

IdlePid == 1
InitPid == 2              \* initPid
UserlandPid == 3          \* userlandPid

BackgroundPriority == 1
ForegroundPriority == 2
Priority(fg) == IF fg THEN ForegroundPriority ELSE BackgroundPriority

Sem == Slot \cup UserSem  \* the exit semaphore of a pcb goes by the pcb's slot

VARIABLES
  pcb,         \* the process table, by address
  queue,       \* processes that are not running, idle excluded
  cur,         \* currentProcessPCB
  mode,        \* "run", or "scan" inside the loop of scheduleTask
  cycles,      \* currentCycles
  readyCount,
  pidCounter,
  sem,         \* value and blocked pids of every semaphore
  cont         \* what a process still has to do in the kernel when it runs

vars == <<pcb, queue, cur, mode, cycles, readyCount, pidCounter, sem, cont>>

FreePcb == [pid |-> 0, ppid |-> 0, fg |-> FALSE, prio |-> 0, state |-> NoPcb]
NewPcb(pid, ppid, fg) ==
  [pid |-> pid, ppid |-> ppid, fg |-> fg, prio |-> Priority(fg), state |-> "READY"]

NewSem(value) == [value |-> value, waiters |-> <<>>]
InUser == [at |-> "user", child |-> None]

Live(s) == pcb[s].state # NoPcb

-----------------------------------------------------------------------------
(* The process table.  The functions of the process manager call each other *)
(* in the middle of a step, so each is an operator on the part of the state *)
(* it changes, k = [pcb, sem, ready].                                       *)

K == [pcb |-> pcb, sem |-> sem, ready |-> readyCount]
Commit(k) == /\ pcb' = k.pcb
             /\ sem' = k.sem
             /\ readyCount' = k.ready

(* find and getProcess see the queue; the callers add the current process.  *)
InQueue(s) == \E i \in 1..Len(queue) : queue[i] = s
Visible(s) == s = cur \/ InQueue(s)

(* Faulty variants.  Each Bad operator stands before the definition it is a *)
(* faulty form of and is used nowhere: the mutation runs put it in the      *)
(* place of the correct one.  Here: the dead accept no state at all.        *)
BadAccepts(k, s, state) == k.pcb[s].state \notin {"TERMINATED", "EXITED"}

(* The early return of changeState. *)
Accepts(k, s, state) ==
  /\ k.pcb[s].state # "TERMINATED"
  /\ k.pcb[s].state = "EXITED" => state = "TERMINATED"

WithSem(k, x, s) ==
  [pcb |-> k.pcb, sem |-> [k.sem EXCEPT ![x] = s], ready |-> k.ready]

(* Faulty: changes of a process that was not ready are counted. *)
BadSetState(k, s, state) ==
  [pcb |-> [k.pcb EXCEPT ![s].state = state],
   sem |-> k.sem,
   ready |-> IF state = "READY" THEN k.ready + 1 ELSE k.ready - 1]

SetState(k, s, state) ==
  [pcb |-> [k.pcb EXCEPT ![s].state = state],
   sem |-> k.sem,
   ready |-> IF k.pcb[s].state # "READY" /\ state = "READY" THEN k.ready + 1
             ELSE IF k.pcb[s].state = "READY" /\ state # "READY" THEN k.ready - 1
             ELSE k.ready]

(* resumeTask as semPost uses it: the processes a pid in a waiting queue    *)
(* stands for now, if they can be resumed.                                  *)
Resumable(k, pid) ==
  {s \in Slot : Visible(s) /\ k.pcb[s].pid = pid /\ Accepts(k, s, "READY")}

(* semPost drops the waiting pids that cannot be resumed, hands the unit to *)
(* the first that can, and counts it if there is none.                      *)
Handover(k, x) ==
  {i \in 1..Len(k.sem[x].waiters) : Resumable(k, k.sem[x].waiters[i]) # {}}
FirstOf(S) == CHOOSE i \in S : \A j \in S : i <= j

(* Faulty: the pids that cannot be resumed stay in the queue. *)
BadPostStale(k, x) ==
  LET i == FirstOf(Handover(k, x))
  IN  IF Handover(k, x) = {}
      THEN WithSem(k, x, [k.sem[x] EXCEPT !.value = @ + 1])
      ELSE SetState(WithSem(k, x, [k.sem[x] EXCEPT !.waiters = SubSeq(@, i + 1, Len(@))]),
                    CHOOSE s \in Resumable(k, k.sem[x].waiters[i]) : TRUE, "READY")

(* Faulty: the pid that is resumed stays in the queue. *)
BadPostPeek(k, x) ==
  LET i == FirstOf(Handover(k, x))
  IN  IF Handover(k, x) = {}
      THEN WithSem(k, x, NewSem(k.sem[x].value + 1))
      ELSE SetState(WithSem(k, x, [k.sem[x] EXCEPT !.waiters = SubSeq(@, i, Len(@))]),
                    CHOOSE s \in Resumable(k, k.sem[x].waiters[i]) : TRUE, "READY")

Post(k, x) ==
  LET waiters == k.sem[x].waiters
      i == FirstOf(Handover(k, x))
  IN  IF Handover(k, x) = {}
      THEN WithSem(k, x, NewSem(k.sem[x].value + 1))
      ELSE SetState(WithSem(k, x, [value |-> k.sem[x].value,
                                   waiters |-> SubSeq(waiters, i + 1, Len(waiters))]),
                    CHOOSE s \in Resumable(k, waiters[i]) : TRUE, "READY")

(* The do-while loops of sendTaskToInit and terminateChildren test hasNext  *)
(* after next: the last process of the queue is fetched and never looked at.*)
Visited(s) == s = cur \/ \E i \in 1..(Len(queue) - 1) : queue[i] = s

(* Faulty: the children that have exited are not handed over. *)
BadSendTaskToInit(k, dead) ==
  [pcb |-> [s \in Slot |-> IF /\ Visited(s)
                              /\ k.pcb[s].ppid = k.pcb[dead].pid
                              /\ k.pcb[s].state \in {"READY", "BLOCKED"}
                           THEN [k.pcb[s] EXCEPT !.ppid = InitPid]
                           ELSE k.pcb[s]],
   sem |-> k.sem,
   ready |-> k.ready]

SendTaskToInit(k, dead) ==
  LET hasParent == \E s \in Slot : /\ Visited(s)
                                   /\ k.pcb[s].pid = k.pcb[dead].ppid
                                   /\ k.pcb[s].state \notin {"TERMINATED", "EXITED"}
      child(s) == /\ Visited(s)
                  /\ k.pcb[s].ppid = k.pcb[dead].pid
                  /\ k.pcb[s].state # "TERMINATED"
      orphan(s) == s = dead /\ InQueue(s) /\ ~hasParent
  IN  [pcb |-> [s \in Slot |-> IF child(s) \/ orphan(s)
                               THEN [k.pcb[s] EXCEPT !.ppid = InitPid]
                               ELSE k.pcb[s]],
       sem |-> k.sem,
       ready |-> k.ready]

(* Faulty: an exit is not posted. *)
BadChangeState(k, s, state) ==
  SetState(IF state = "TERMINATED" THEN SendTaskToInit(k, s) ELSE k, s, state)

(* changeState past its early return. *)
ChangeState(k, s, state) ==
  SetState(CASE state = "EXITED" -> Post(k, s)
             [] state = "TERMINATED" -> SendTaskToInit(k, s)
             [] OTHER -> k,
           s, state)

TryChangeState(k, s, state) == IF Accepts(k, s, state) THEN ChangeState(k, s, state) ELSE k

(* Faulty: the state is assigned without changeState's bookkeeping. *)
BadTerminateChildren(k, parent) ==
  [k EXCEPT !.pcb = [s \in Slot |->
     IF Visited(s) /\ k.pcb[s].ppid = k.pcb[parent].pid
     THEN [k.pcb[s] EXCEPT !.ppid = InitPid, !.state = "TERMINATED"]
     ELSE k.pcb[s]]]

TerminateChildren(k, parent) ==
  LET child(s) == Visited(s) /\ k.pcb[s].ppid = k.pcb[parent].pid
      grandchild(s) == /\ Visited(s)
                       /\ k.pcb[s].state # "TERMINATED"
                       /\ \E c \in Slot : /\ child(c)
                                          /\ k.pcb[c].state # "TERMINATED"
                                          /\ k.pcb[s].ppid = k.pcb[c].pid
  IN  [pcb |-> [s \in Slot |->
                  IF child(s)
                  THEN [k.pcb[s] EXCEPT !.ppid = InitPid, !.state = "TERMINATED"]
                  ELSE IF grandchild(s) THEN [k.pcb[s] EXCEPT !.ppid = InitPid]
                  ELSE k.pcb[s]],
       sem |-> k.sem,
       ready |-> k.ready - Cardinality({s \in Slot : child(s) /\ k.pcb[s].state = "READY"})]

-----------------------------------------------------------------------------
(* scheduleTask, entered by the timer or by _callTimerTick with k the state *)
(* the caller leaves and c what is left of the time slice.                  *)

(* Faulty: the time slice is never over, or never gets shorter. *)
BadKeepRunning(k, c) ==
  /\ k.pcb[cur].state = "READY"
  /\ cycles' = c - 1
  /\ UNCHANGED <<cur, queue, mode>>

BadKeepRunningFree(k, c) ==
  /\ k.pcb[cur].state = "READY"
  /\ c > 0
  /\ UNCHANGED <<cur, queue, mode, cycles>>

KeepRunning(k, c) ==
  /\ k.pcb[cur].state = "READY"
  /\ c > 0
  /\ cycles' = c - 1
  /\ UNCHANGED <<cur, queue, mode>>

Preempted(k, c) == ~(k.pcb[cur].state = "READY" /\ c > 0)
BadRequeued == Append(queue, cur)   \* faulty: idle joins the queue
Requeued == IF cur = Idle THEN queue ELSE Append(queue, cur)

SwitchToQueue(k, c) ==
  /\ Preempted(k, c)
  /\ k.ready > 0
  /\ cur' = Head(Requeued)
  /\ queue' = Tail(Requeued)
  /\ mode' = "scan"
  /\ cycles' = c

SwitchToIdle(k, c) ==
  /\ Preempted(k, c)
  /\ k.ready <= 0
  /\ cur' = Idle
  /\ queue' = Requeued
  /\ cycles' = k.pcb[Idle].prio
  /\ UNCHANGED mode

Schedule(k, c) ==
  /\ Commit(k)
  /\ KeepRunning(k, c) \/ SwitchToQueue(k, c) \/ SwitchToIdle(k, c)

(* _callTimerTick if the step touched the running process, return if not.   *)
Reschedule(k, s) ==
  IF s = cur THEN Schedule(k, cycles)
             ELSE Commit(k) /\ UNCHANGED <<cur, queue, mode, cycles>>

Stay(k) == Commit(k) /\ UNCHANGED <<cur, queue, mode, cycles>>

(* The loop of scheduleTask: cur is the process dequeued last. *)
ScanRun ==
  /\ mode = "scan"
  /\ pcb[cur].state = "READY"
  /\ mode' = "run"
  /\ cycles' = pcb[cur].prio
  /\ UNCHANGED <<pcb, queue, cur, readyCount, pidCounter, sem, cont>>

ScanSkip ==
  /\ mode = "scan"
  /\ pcb[cur].state \notin {"READY", "TERMINATED"}
  /\ cur' = Head(Append(queue, cur))
  /\ queue' = Tail(Append(queue, cur))
  /\ UNCHANGED <<pcb, mode, cycles, readyCount, pidCounter, sem, cont>>

(* freeProcess: a waiter that nobody woke is woken, then the exit semaphore *)
(* and the pcb are gone.                                                    *)
(* Faulty: the exit semaphore outlives its process. *)
BadFreed(s) ==
  [(IF sem[s].value = 0 THEN Post(K, s) ELSE K) EXCEPT !.pcb[s] = FreePcb]

Freed(s) ==
  LET k == IF sem[s].value = 0 THEN Post(K, s) ELSE K
  IN  [pcb |-> [k.pcb EXCEPT ![s] = FreePcb],
       sem |-> [k.sem EXCEPT ![s] = NewSem(0)],
       ready |-> k.ready]

(* The pid of the last process started is given back. *)
BadPidCounterAfter(s) == pidCounter - 1   \* faulty: so is any other
PidCounterAfter(s) == IF pcb[s].pid = pidCounter - 1 THEN pidCounter - 1 ELSE pidCounter

ScanFree ==
  /\ mode = "scan"
  /\ pcb[cur].state = "TERMINATED"
  /\ Commit(Freed(cur))
  /\ pidCounter' = PidCounterAfter(cur)
  /\ cont' = [cont EXCEPT ![cur] = InUser]
  /\ cur' = Head(queue)
  /\ queue' = Tail(queue)
  /\ UNCHANGED <<mode, cycles>>

Scan == ScanRun \/ ScanSkip \/ ScanFree

-----------------------------------------------------------------------------
(* Interrupts arrive between two steps of the process that runs.  That is   *)
(* also when a process has just been switched to: endInterrupt enables      *)
(* interrupts before iretq, so that it can be preempted, or hit by Ctrl-C,  *)
(* before it goes on with the system call it waited in.                     *)
InterruptsOn == mode = "run"

Tick ==
  /\ InterruptsOn
  /\ Schedule(K, cycles)
  /\ UNCHANGED <<pidCounter, cont>>

(* killTask *)
Killable(k, t) == t \notin {InitProc, Shell} /\ Accepts(k, t, "EXITED")

(* Ctrl-C: killCurrentForeground in the context of whatever is running.  A  *)
(* foreground process is the first of the queue, whatever its state is.     *)
Foreground(s) == pcb[s].fg /\ s \notin {InitProc, Shell}
FirstForeground(s) ==
  \E i \in 1..Len(queue) : /\ queue[i] = s
                           /\ Foreground(s)
                           /\ \A j \in 1..(i - 1) : ~Foreground(queue[j])
CtrlCTarget(s) == \/ s = cur /\ Foreground(cur)
                  \/ ~Foreground(cur) /\ FirstForeground(s)

CtrlC ==
  /\ "ctrlc" \in Calls
  /\ InterruptsOn
  /\ \E s \in Slot :
       /\ CtrlCTarget(s)
       /\ LET k == TerminateChildren(K, s)
          IN  \/ Killable(k, s) /\ Reschedule(ChangeState(k, s, "EXITED"), s)
              \/ ~Killable(k, s) /\ Stay(k)
  /\ UNCHANGED <<pidCounter, cont>>

-----------------------------------------------------------------------------
(* System calls of the running program. *)
Calling(call) ==
  /\ call \in Calls
  /\ mode = "run"
  /\ cur \notin {Idle, InitProc}
  /\ cont[cur] = InUser

(* startTask.  The new pcb may be at any free address. *)
StartTask ==
  /\ Calling("start")
  /\ pidCounter <= MaxPid
  /\ \E s \in Slot, fg \in BOOLEAN :
       /\ ~Live(s)
       /\ LET ppid == IF cur = Shell /\ ~fg THEN InitPid ELSE pcb[cur].pid
          IN  pcb' = [pcb EXCEPT ![s] = NewPcb(pidCounter, ppid, fg)]
       /\ queue' = Append(queue, s)
  /\ readyCount' = readyCount + 1
  /\ pidCounter' = pidCounter + 1
  /\ UNCHANGED <<cur, mode, cycles, sem, cont>>

(* startTask when malloc fails after the pid was taken: the stack or the    *)
(* exit semaphore (initializeBlock gives up) or the arguments (freeProcess, *)
(* which compares the pid of the caller and never gives the new one back).  *)
StartTaskFails ==
  /\ Calling("nomem")
  /\ pidCounter <= MaxPid
  /\ pidCounter' = pidCounter + 1
  /\ UNCHANGED <<pcb, queue, cur, mode, cycles, readyCount, sem, cont>>

(* The end of a program (processWrapper, killCurrent), and kill. *)
Exit ==
  /\ Calling("exit")
  /\ Killable(K, cur)
  /\ Schedule(ChangeState(K, cur, "EXITED"), cycles)
  /\ UNCHANGED <<pidCounter, cont>>

KillTask ==
  /\ Calling("kill")
  /\ \E t \in Slot : /\ Visible(t)
                     /\ Killable(K, t)
                     /\ Reschedule(ChangeState(K, t, "EXITED"), t)
  /\ UNCHANGED <<pidCounter, cont>>

BlockTask ==
  /\ Calling("block")
  /\ \E t \in Slot : /\ Visible(t)
                     /\ Accepts(K, t, "BLOCKED")
                     /\ Reschedule(ChangeState(K, t, "BLOCKED"), t)
  /\ UNCHANGED <<pidCounter, cont>>

ResumeTask ==
  /\ Calling("resume")
  /\ \E t \in Slot : /\ Visible(t)
                     /\ Accepts(K, t, "READY")
                     /\ Stay(ChangeState(K, t, "READY"))
  /\ UNCHANGED <<pidCounter, cont>>

(* nice looks in the queue only: a process cannot renice itself. *)
Nice ==
  /\ Calling("nice")
  /\ \E t \in Slot, prio \in 0..MaxPrio :
       InQueue(t) /\ pcb' = [pcb EXCEPT ![t].prio = prio]
  /\ UNCHANGED <<queue, cur, mode, cycles, readyCount, pidCounter, sem, cont>>

Yield ==
  /\ Calling("yield")
  /\ Schedule(K, 0)
  /\ UNCHANGED <<pidCounter, cont>>

-----------------------------------------------------------------------------
(* Semaphores.  A process that finds no unit leaves its pid in the queue of *)
(* the semaphore and blocks itself; one that cannot be blocked (Ctrl-C has  *)
(* terminated it while it ran) goes on as if it had got a unit.             *)
Take(x) == WithSem(K, x, [sem[x] EXCEPT !.value = @ - 1])
HasRoom(x) == Len(sem[x].waiters) < MaxWaiters
Enlist(x) == WithSem(K, x, [sem[x] EXCEPT !.waiters = Append(@, pcb[cur].pid)])

SemWait ==
  /\ Calling("sem")
  /\ \E x \in UserSem :
       /\ HasRoom(x)
       /\ \/ sem[x].value > 0 /\ Stay(Take(x))
          \/ /\ sem[x].value = 0
             /\ Accepts(K, cur, "BLOCKED")
             /\ Schedule(SetState(Enlist(x), cur, "BLOCKED"), cycles)
          \/ /\ sem[x].value = 0
             /\ ~Accepts(K, cur, "BLOCKED")
             /\ Stay(Enlist(x))
  /\ UNCHANGED <<pidCounter, cont>>

SemPost ==
  /\ Calling("sem")
  /\ \E x \in UserSem : sem[x].value < MaxSem /\ Stay(Post(K, x))
  /\ UNCHANGED <<pidCounter, cont>>

(* waitpid up to the point where it blocks on the exit semaphore of t.      *)
(* Programs wait once for each of their children; "waitany" lets them wait  *)
(* for any process, "rewait" for one that has been waited for.              *)
MayWait(t) ==
  /\ Calling("wait")
  /\ Visible(t)
  /\ HasRoom(t)
  /\ "waitany" \in Calls \/ pcb[t].ppid = pcb[cur].pid
  /\ "rewait" \in Calls \/ pcb[t].state # "TERMINATED"

Waitpid ==
  /\ \E t \in Slot :
       /\ MayWait(t)
       /\ \/ /\ sem[t].value > 0
             /\ Stay(TryChangeState(Take(t), t, "TERMINATED"))
             /\ UNCHANGED cont
          \/ /\ sem[t].value = 0
             /\ Accepts(K, cur, "BLOCKED")
             /\ Schedule(SetState(Enlist(t), cur, "BLOCKED"), cycles)
             /\ cont' = [cont EXCEPT ![cur] = [at |-> "waitpid", child |-> t]]
          \/ /\ sem[t].value = 0
             /\ ~Accepts(K, cur, "BLOCKED")
             /\ Stay(TryChangeState(Enlist(t), t, "TERMINATED"))
             /\ UNCHANGED cont
  /\ UNCHANGED pidCounter

(* The pcb waitpid kept a pointer to may be gone, and its memory may hold   *)
(* another pcb or anything else.                                            *)
ReadPid(s) == IF Live(s) THEN {pcb[s].pid} ELSE 0..pidCounter

(* The rest of waitpid, when the caller runs again. *)
WaitpidReturn ==
  /\ mode = "run"
  /\ cont[cur].at = "waitpid"
  /\ \E pid \in ReadPid(cont[cur].child) :
       LET found == {s \in Slot : Visible(s) /\ pcb[s].pid = pid}
       IN  \/ found = {} /\ Stay(K)
           \/ \E s \in found : Stay(TryChangeState(K, s, "TERMINATED"))
  /\ cont' = [cont EXCEPT ![cur] = InUser]
  /\ UNCHANGED pidCounter

-----------------------------------------------------------------------------
(* The init process: it looks for an exited child in the process queue,     *)
(* waits for it by pid, and sleeps between two passes.  It looks at         *)
(* processes that are in the queue when it does, in any order: that its     *)
(* iterator may stand on a node dequeue has freed while init was preempted  *)
(* is left out.  The look-up of waitpid and its semWait are one step, and   *)
(* reading the child again after it another, though init can be preempted   *)
(* inside of each.                                                          *)
InitRuns(at) == mode = "run" /\ cur = InitProc /\ cont[cur].at = at

InitFind(s) ==
  /\ InitRuns("user")
  /\ InQueue(s)
  /\ pcb[s].ppid = InitPid
  /\ pcb[s].state = "EXITED"
  /\ cont' = [cont EXCEPT ![cur] = [at |-> "reap", child |-> s]]
  /\ UNCHANGED <<pcb, queue, cur, mode, cycles, readyCount, pidCounter, sem>>

InitWait ==
  /\ InitRuns("reap")
  /\ \E pid \in ReadPid(cont[cur].child) :
       LET found == {s \in Slot : Visible(s) /\ pcb[s].pid = pid}
           waiting(s) == cont' = [cont EXCEPT ![cur] = [at |-> "waitpid", child |-> s]]
       IN  \/ /\ found = {}
              /\ Stay(K)
              /\ cont' = [cont EXCEPT ![cur] = InUser]
           \/ \E s \in found : sem[s].value > 0 /\ Stay(Take(s)) /\ waiting(s)
           \/ \E s \in found :
                /\ sem[s].value = 0
                /\ HasRoom(s)
                /\ waiting(s)
                /\ \/ /\ Accepts(K, cur, "BLOCKED")
                      /\ Schedule(SetState(Enlist(s), cur, "BLOCKED"), cycles)
                   \/ ~Accepts(K, cur, "BLOCKED") /\ Stay(Enlist(s))
  /\ UNCHANGED pidCounter

InitSleep ==
  /\ InitRuns("user")
  /\ Schedule(K, 0)
  /\ UNCHANGED <<pidCounter, cont>>

-----------------------------------------------------------------------------
(* The first tick after boot has picked init: initScheduler and main have   *)
(* started idle, init and the shell, and taken idle out of the queue.       *)
Init ==
  /\ pcb = [s \in Slot |->
              CASE s = Idle -> NewPcb(IdlePid, 0, FALSE)
                [] s = InitProc -> NewPcb(InitPid, 0, FALSE)
                [] s = Shell -> NewPcb(UserlandPid, 0, TRUE)
                [] OTHER -> FreePcb]
  /\ queue = <<Shell>>
  /\ cur = InitProc
  /\ mode = "run"
  /\ cycles = BackgroundPriority
  /\ readyCount = 2
  /\ pidCounter = UserlandPid + 1
  /\ sem = [x \in Sem |-> NewSem(IF x \in UserSem THEN SemValue ELSE 0)]
  /\ cont = [s \in Slot |-> InUser]

Syscall == \/ StartTask \/ StartTaskFails \/ Exit \/ KillTask \/ BlockTask
           \/ ResumeTask \/ Nice \/ Yield \/ SemWait \/ SemPost \/ Waitpid

InitStep == InitWait \/ InitSleep \/ \E s \in Slot : InitFind(s)

Next == Scan \/ Tick \/ CtrlC \/ Syscall \/ WaitpidReturn \/ InitStep

Spec == Init /\ [][Next]_vars

(* The timer keeps ticking and the loop of scheduleTask goes on.  A time    *)
(* slice is enough for init to make its next call, or to return from one:   *)
(* it is not preempted at the same point for ever.  A pass of init looks at *)
(* every process of the queue.                                              *)
Fairness == /\ WF_vars(Scan \/ Tick)
            /\ SF_vars(InitWait)
            /\ SF_vars(cur = InitProc /\ WaitpidReturn)
            /\ \A s \in Slot : SF_vars(InitFind(s))

FairSpec == Spec /\ Fairness

-----------------------------------------------------------------------------
State == {"READY", "BLOCKED", "EXITED", "TERMINATED", NoPcb}

(* Every variable holds what its declaration in processManager.c allows.    *)
TypeOK ==
  /\ pcb \in [Slot -> [pid : Nat, ppid : Nat, fg : BOOLEAN, prio : Nat, state : State]]
  /\ queue \in Seq(Slot)
  /\ cur \in Slot
  /\ mode \in {"run", "scan"}
  /\ cycles \in Nat
  /\ readyCount \in Int
  /\ pidCounter \in Nat
  /\ sem \in [Sem -> [value : Nat, waiters : Seq(Nat)]]
  /\ cont \in [Slot -> [at : {"user", "reap", "waitpid"}, child : Slot \cup {None}]]

(* readyCount, which scheduleTask trusts to leave its loop and to choose    *)
(* between the queue and idle, counts the ready processes other than idle.  *)
ReadyCountExact ==
  readyCount = Cardinality({s \in Slot \ {Idle} : pcb[s].state = "READY"})

(* The loop of scheduleTask ends: while it runs, a ready process is in the  *)
(* queue or in its hands ("Como readyCount > 0, me aseguro que existe algun *)
(* proceso").                                                               *)
ScanFinds ==
  mode = "scan" => /\ cur # Idle
                   /\ \E s \in Slot : s # Idle /\ Visible(s) /\ pcb[s].state = "READY"

(* Each process other than idle is either the running one or in the queue,  *)
(* once; idle is never in the queue, and no freed pcb is reachable.         *)
QueueExact ==
  /\ \A i, j \in 1..Len(queue) : queue[i] = queue[j] => i = j
  /\ \A s \in Slot : InQueue(s) <=> Live(s) /\ s # cur /\ s # Idle
  /\ Live(cur)

(* No two processes have the same pid, though freeProcess gives pids back.  *)
PidsDistinct ==
  /\ \A s, t \in Slot : Live(s) /\ Live(t) /\ pcb[s].pid = pcb[t].pid => s = t
  /\ \A s \in Slot : Live(s) => pcb[s].pid < pidCounter

(* No unit is counted while a process waits for one: semWait and semPost    *)
(* keep a semaphore either positive or with waiters.                        *)
SemSound == \A x \in Sem : sem[x].value > 0 => sem[x].waiters = <<>>

-----------------------------------------------------------------------------
(* Properties of programs that wait for their own children only and do not  *)
(* block, resume or interrupt each other.                                   *)

WaitsOn(s, x) == \E i \in 1..Len(sem[x].waiters) : sem[x].waiters[i] = pcb[s].pid

(* A process is blocked exactly while its pid is in the waiting queue of    *)
(* one semaphore, and it is there once: no wakeup is lost or misdirected.   *)
BlockedIffWaiting ==
  /\ \A s \in Slot : Live(s) => (pcb[s].state = "BLOCKED" <=> \E x \in Sem : WaitsOn(s, x))
  /\ \A x, y \in Sem : \A i \in 1..Len(sem[x].waiters), j \in 1..Len(sem[y].waiters) :
       sem[x].waiters[i] = sem[y].waiters[j] => x = y /\ i = j

(* The death of a process is never forgotten: until it is reaped, the unit  *)
(* killTask posted is on its exit semaphore or in the hands of a process    *)
(* that is about to return from waitpid.                                    *)
ExitNotLost ==
  \A s \in Slot : pcb[s].state = "EXITED" =>
    \/ sem[s].value > 0
    \/ \E w \in Slot : /\ pcb[w].state = "READY"
                       /\ cont[w] = [at |-> "waitpid", child |-> s]

(* waitpid lets the scheduler free a process only after its death ("Espero  *)
(* a que termine"): TERMINATED is reached from EXITED.                      *)
OnlyDeadReaped ==
  [][\A s \in Slot : pcb[s].state \in {"READY", "BLOCKED"} => pcb'[s].state # "TERMINATED"]_vars

(* No process has a process that can be freed as its parent: sendTaskToInit *)
(* "envia sus procesos hijos no terminados al init para ser procesados".    *)
OrphansAdopted ==
  \A s, t \in Slot : /\ Live(s) /\ pcb[s].state # "TERMINATED"
                     /\ pcb[t].state = "TERMINATED"
                     => pcb[s].ppid # pcb[t].pid

(* Round robin starves nobody: a ready process runs, or stops being ready.  *)
NoStarvation ==
  \A s \in Slot \ {Idle} :
    pcb[s].state = "READY" ~> (cur = s /\ mode = "run") \/ pcb[s].state # "READY"

(* init reaps the processes it adopts, and the scheduler frees them.        *)
ZombiesFreed ==
  \A s \in Slot : pcb[s].state = "EXITED" /\ pcb[s].ppid = InitPid ~> ~Live(s)

(* init goes on with its passes ("mata regularmente procesos hijo que no    *)
(* fueron liberados por wait").                                             *)
InitKeepsReaping == []<>(cont[InitProc] = InUser)

=============================================================================
