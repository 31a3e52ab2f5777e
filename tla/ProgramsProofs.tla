--------------------------- MODULE ProgramsProofs ---------------------------
(***************************************************************************)
(* Proofs about the programs of ProcessManager that start children, wait   *)
(* for them, exit and share semaphores, and do not kill, block, resume or  *)
(* interrupt each other: nobody sleeps without being waited in a queue, no *)
(* death is forgotten, only the dead are reaped, and nobody is left with a *)
(* dead parent.  For any number of addresses, semaphores and priorities.   *)
(***************************************************************************)
EXTENDS ProcessManagerProofs

(* The calls these programs do not make.                                    *)
Disciplined == Calls \cap {"ctrlc", "kill", "block", "resume", "waitany", "rewait"} = {}

Gone(p, s) == p[s].state \in {NoPcb, "TERMINATED"}

(* What a process that waits in the queue of x does when it runs again.     *)
Returning(s) == [at |-> "waitpid", child |-> s]
WaitingAt(x) == IF x \in Slot THEN Returning(x) ELSE InUser

(* The blocked processes of p are those whose pids the semaphores q hold,   *)
(* each at the semaphore it went to sleep at, and no pid is held twice.     *)
Sleepers(p, q, c) ==
  /\ \A w \in Slot : p[w].state = "BLOCKED" =>
       \E x \in Sem : \E i \in 1..Len(q[x].waiters) : q[x].waiters[i] = p[w].pid
  /\ \A x \in Sem : \A i \in 1..Len(q[x].waiters) :
       \E w \in Slot : /\ p[w].state = "BLOCKED" /\ p[w].pid = q[x].waiters[i]
                       /\ c[w] = WaitingAt(x)
Once(q) ==
  \A x, y \in Sem : \A i \in 1..Len(q[x].waiters), j \in 1..Len(q[y].waiters) :
    q[x].waiters[i] = q[y].waiters[j] => x = y /\ i = j

(* Whoever is in waitpid is the parent of the process it waits for, asleep  *)
(* until that exits, and then holds the unit of its exit semaphore.         *)
WaitsForChild(p, q, c, w) ==
  /\ c[w].child \in Slot /\ p[c[w].child].ppid = p[w].pid
  /\ \/ p[w].state = "READY" /\ p[c[w].child].state = "EXITED"
     \/ p[w].state = "BLOCKED" /\ p[c[w].child].state \in {"READY", "BLOCKED"}
  /\ \/ c[w] = Returning(c[w].child) /\ q[c[w].child].value = 0
     \/ c[w].at = "reap" /\ w = InitProc
Waits(p, q, c) == \A w \in Slot : c[w] = InUser \/ WaitsForChild(p, q, c, w)

(* The unit of an exit is on the exit semaphore or with the parent.         *)
Exits(p, q, c) ==
  /\ \A s \in Slot : q[s].value > 0 => p[s].state = "EXITED" /\ q[s].value = 1
  /\ \A s \in Slot : p[s].state = "EXITED" =>
       q[s].value > 0 \/ \E w \in Slot : p[w].state = "READY" /\ c[w] = Returning(s)

(* Parents are older than their children and outlive them, or init adopts   *)
(* the children.                                                            *)
Family(p) ==
  /\ p[InitProc].pid = InitPid /\ p[InitProc].state \in {"READY", "BLOCKED"}
  /\ \A s \in Slot : p[s].state # NoPcb => p[s].ppid < p[s].pid
  /\ \A s \in Slot : ~Gone(p, s) =>
       p[s].ppid = 0 \/ \E t \in Slot : ~Gone(p, t) /\ p[t].pid = p[s].ppid

(* The processes in the order in which they will run, from the one that     *)
(* runs now.  In this ring, from a process to its parent, there are only    *)
(* processes started after the parent.                                      *)
Ring == IF cur = Idle THEN queue ELSE <<cur>> \o queue
Between(i, k, j) == IF i <= j THEN i <= k /\ k <= j ELSE k >= i \/ k <= j
Order(p, r) ==
  \A i, j, k \in 1..Len(r) :
    /\ Between(i, k, j)
    /\ ~Gone(p, r[i]) /\ p[r[i]].ppid = p[r[j]].pid /\ r[j] # InitProc
    => p[r[j]].pid <= p[r[k]].pid

Running == mode = "run" => pcb[cur].state = "READY"

Bonds(p, q, c) == Sleepers(p, q, c) /\ Once(q) /\ Waits(p, q, c) /\ Exits(p, q, c) /\ Family(p)
PInv == IInv /\ Bonds(pcb, sem, cont) /\ Order(pcb, Ring) /\ Running
-----------------------------------------------------------------------------
(* What the invariant says of a state.                                      *)

Distinct(p) ==
  \A s, t \in Slot :
    p[s].state # NoPcb /\ p[t].state # NoPcb /\ p[s].pid = p[t].pid => s = t
Typed(p, q, c) == p \in [Slot -> Pcb] /\ q \in [Sem -> Semaphore] /\ c \in Cont /\ Distinct(p)

LEMMA Names ==
  /\ Slot \subseteq Sem /\ UserSem \subseteq Sem /\ \A x \in Sem : x \in Slot \/ x \in UserSem
  /\ \A x \in UserSem : x \notin Slot
  /\ Idle \in Slot /\ InitProc \in Slot /\ Shell \in Slot
  /\ Idle # InitProc /\ Idle # Shell /\ InitProc # Shell
  BY SlotAssumption DEF Sem

LEMMA Facts ==
  ASSUME IInv
  PROVE  /\ Typed(pcb, sem, cont)
         /\ Good(K) /\ K.pcb = pcb /\ K.sem = sem
         /\ cur \in Slot /\ pcb[cur].state # NoPcb /\ queue \in Seq(Slot) /\ pidCounter \in Nat
         /\ \A s \in Slot : pcb[s].state # NoPcb =>
              0 < pcb[s].pid /\ pcb[s].pid < pidCounter /\ (s = Idle \/ Visible(s))
         /\ IdleOK(pcb) /\ cont[Idle] = InUser
  <1>1. Good(K) /\ K.pcb = pcb /\ K.sem = sem /\ cont \in Cont /\ cont[Idle] = InUser
        /\ pidCounter \in Nat
    BY KTypes DEF IInv, Core
  <1>2. pcb \in [Slot -> Pcb] /\ sem \in [Sem -> Semaphore] /\ IdleOK(pcb)
    BY <1>1 DEF Good, Table
  <1>3. Distinct(pcb) /\ \A s \in Slot : pcb[s].state # NoPcb =>
                           0 < pcb[s].pid /\ pcb[s].pid < pidCounter
    BY DEF IInv, Core, Pids, LiveSet, Distinct
  <1>4. cur \in Slot /\ pcb[cur].state # NoPcb /\ queue \in Seq(Slot)
    BY IInvReachable
  <1>5. ASSUME NEW s \in Slot, pcb[s].state # NoPcb, s # Idle
        PROVE  Visible(s)
    <2>1. Lists(queue, LiveSet(pcb) \ {cur, Idle})
      BY DEF IInv, Core, Placed
    <2> QED BY <1>5, <2>1 DEF Lists, LiveSet, Visible, InQueue
  <1> QED BY <1>1, <1>2, <1>3, <1>4, <1>5 DEF Typed

(* Who waits where.                                                         *)
LEMMA Sleeping ==
  ASSUME NEW p, NEW q, NEW c, Typed(p, q, c), Sleepers(p, q, c), NEW w \in Slot
  PROVE  /\ p[w].state = "BLOCKED" =>
              \E x \in Sem : \E i \in 1..Len(q[x].waiters) :
                q[x].waiters[i] = p[w].pid /\ c[w] = WaitingAt(x)
         /\ \A x \in Sem : \A i \in 1..Len(q[x].waiters) :
              p[w].state # NoPcb /\ q[x].waiters[i] = p[w].pid =>
                p[w].state = "BLOCKED" /\ c[w] = WaitingAt(x)
  <1>1. ASSUME NEW x \in Sem, NEW i \in 1..Len(q[x].waiters),
               p[w].state # NoPcb, q[x].waiters[i] = p[w].pid
        PROVE  p[w].state = "BLOCKED" /\ c[w] = WaitingAt(x)
    <2>1. PICK v \in Slot : /\ p[v].state = "BLOCKED" /\ p[v].pid = q[x].waiters[i]
                            /\ c[v] = WaitingAt(x)
      BY DEF Sleepers
    <2>2. v = w
      BY <1>1, <2>1 DEF Typed, Distinct, NoPcb
    <2> QED BY <2>1, <2>2
  <1>2. ASSUME p[w].state = "BLOCKED"
        PROVE  \E x \in Sem : \E i \in 1..Len(q[x].waiters) :
                 q[x].waiters[i] = p[w].pid /\ c[w] = WaitingAt(x)
    <2>1. PICK x \in Sem : \E i \in 1..Len(q[x].waiters) : q[x].waiters[i] = p[w].pid
      BY <1>2 DEF Sleepers
    <2>2. PICK i \in 1..Len(q[x].waiters) : q[x].waiters[i] = p[w].pid
      BY <2>1
    <2>3. c[w] = WaitingAt(x)
      BY <1>1, <1>2, <2>2 DEF NoPcb
    <2> QED BY <2>2, <2>3
  <1> QED BY <1>1, <1>2

(* A process has one parent, and nobody else waits for it.                  *)
LEMMA OneWaiter ==
  ASSUME NEW p, NEW q, NEW c, Typed(p, q, c), Waits(p, q, c),
         NEW w \in Slot, c[w] # InUser, NEW v \in Slot, p[v].state # NoPcb,
         p[c[w].child].ppid = p[v].pid
  PROVE  w = v
  <1>1. p[w].state # NoPcb /\ p[w].pid = p[v].pid
    BY DEF Waits, WaitsForChild, NoPcb
  <1> QED BY <1>1 DEF Typed, Distinct
-----------------------------------------------------------------------------
(* Who sleeps, after a step that leaves the queues, wakes the first of one  *)
(* or puts one more process at the end of one.                              *)

LEMMA OnceAt ==
  ASSUME NEW q, Once(q), NEW y \in Sem, NEW z \in Sem,
         NEW i \in 1..Len(q[y].waiters), NEW j \in 1..Len(q[z].waiters),
         q[y].waiters[i] = q[z].waiters[j]
  PROVE  y = z /\ i = j
  BY DEF Once

LEMMA SleepersQuiet ==
  ASSUME NEW p, NEW q, NEW c, NEW p2, NEW q2, NEW c2,
         Sleepers(p, q, c), Once(q),
         \A x \in Sem : q2[x].waiters = q[x].waiters,
         \A s \in Slot : p2[s].state = "BLOCKED" <=> p[s].state = "BLOCKED",
         \A s \in Slot : p[s].state = "BLOCKED" => p2[s].pid = p[s].pid /\ c2[s] = c[s]
  PROVE  Sleepers(p2, q2, c2) /\ Once(q2)
  <1>1. Once(q2)
    BY DEF Once
  <1>2. ASSUME NEW w \in Slot, p2[w].state = "BLOCKED"
        PROVE  \E x \in Sem : \E i \in 1..Len(q2[x].waiters) : q2[x].waiters[i] = p2[w].pid
    BY <1>2 DEF Sleepers
  <1>3. ASSUME NEW x \in Sem, NEW i \in 1..Len(q2[x].waiters)
        PROVE  \E w \in Slot : /\ p2[w].state = "BLOCKED" /\ p2[w].pid = q2[x].waiters[i]
                               /\ c2[w] = WaitingAt(x)
    <2>1. i \in 1..Len(q[x].waiters) /\ q2[x].waiters[i] = q[x].waiters[i]
      OBVIOUS
    <2>2. PICK w \in Slot : /\ p[w].state = "BLOCKED" /\ p[w].pid = q[x].waiters[i]
                            /\ c[w] = WaitingAt(x)
      BY <2>1 DEF Sleepers
    <2> QED BY <2>1, <2>2
  <1> QED BY <1>1, <1>2, <1>3 DEF Sleepers

LEMMA SleepersWake ==
  ASSUME NEW p, NEW q, NEW c, NEW p2, NEW q2, NEW c2,
         Typed(p, q, c), Sleepers(p, q, c), Once(q),
         NEW x \in Sem, NEW w \in Slot, p[w].state = "BLOCKED",
         Len(q[x].waiters) > 0, q[x].waiters[1] = p[w].pid,
         Len(q2[x].waiters) = Len(q[x].waiters) - 1,
         \A i \in 1..Len(q2[x].waiters) : q2[x].waiters[i] = q[x].waiters[i + 1],
         \A y \in Sem \ {x} : q2[y].waiters = q[y].waiters,
         p2[w].state # "BLOCKED",
         \A s \in Slot : s # w => (p2[s].state = "BLOCKED" <=> p[s].state = "BLOCKED"),
         \A s \in Slot : p[s].state = "BLOCKED" => p2[s].pid = p[s].pid /\ c2[s] = c[s]
  PROVE  Sleepers(p2, q2, c2) /\ Once(q2)
  <1> DEFINE old(y, i) == IF y = x THEN i + 1 ELSE i
  <1>1. ASSUME NEW y \in Sem
        PROVE  Len(q[y].waiters) \in Nat /\ Len(q2[y].waiters) \in Nat
    <2>1. \A z \in Sem : Len(q[z].waiters) \in Nat
      BY LenProperties DEF Typed, Semaphore
    <2>2. y = x => Len(q2[y].waiters) \in Nat
      BY <2>1
    <2> QED BY <2>1, <2>2
  <1>2. ASSUME NEW y \in Sem, NEW i \in 1..Len(q2[y].waiters)
        PROVE  /\ old(y, i) \in 1..Len(q[y].waiters)
               /\ q2[y].waiters[i] = q[y].waiters[old(y, i)]
               /\ ~(y = x /\ old(y, i) = 1)
    <2>1. CASE y = x
      <3> DEFINE n == Len(q[x].waiters)
                 n2 == Len(q2[x].waiters)
      <3>1. n \in Nat /\ n2 \in Nat /\ n2 = n - 1 /\ i \in 1..n2
        BY <2>1, <1>1
      <3>2. q2[x].waiters[i] = q[x].waiters[i + 1]
        BY <2>1
      <3> HIDE DEF n, n2
      <3>3. i + 1 \in 1..n /\ i + 1 # 1
        BY <3>1
      <3> QED BY <2>1, <3>2, <3>3 DEF n
    <2>2. CASE y # x
      BY <2>2
    <2> QED BY <2>1, <2>2
  <1>3. Once(q2)
    <2> SUFFICES ASSUME NEW y \in Sem, NEW z \in Sem, NEW i \in 1..Len(q2[y].waiters),
                        NEW j \in 1..Len(q2[z].waiters), q2[y].waiters[i] = q2[z].waiters[j]
                 PROVE  y = z /\ i = j
      BY DEF Once
    <2> HIDE DEF old
    <2>1. /\ old(y, i) \in 1..Len(q[y].waiters) /\ q2[y].waiters[i] = q[y].waiters[old(y, i)]
          /\ old(z, j) \in 1..Len(q[z].waiters) /\ q2[z].waiters[j] = q[z].waiters[old(z, j)]
      BY <1>2
    <2>4. q[y].waiters[old(y, i)] = q[z].waiters[old(z, j)]
      BY <2>1
    <2> DEFINE oi == old(y, i)
               oj == old(z, j)
    <2>5. oi \in 1..Len(q[y].waiters) /\ oj \in 1..Len(q[z].waiters)
      BY <2>1
    <2> HIDE DEF oi, oj
    <2>2. y = z /\ oi = oj
      <3>1. q[y].waiters[oi] = q[z].waiters[oj]
        BY <2>4 DEF oi, oj
      <3> QED BY <3>1, <2>5, OnceAt
    <2>3. i \in Int /\ j \in Int
      BY <1>1
    <2> QED BY <2>2, <2>3 DEF old, oi, oj
  <1>4. ASSUME NEW y \in Sem, NEW i \in 1..Len(q2[y].waiters)
        PROVE  \E v \in Slot : /\ p2[v].state = "BLOCKED" /\ p2[v].pid = q2[y].waiters[i]
                               /\ c2[v] = WaitingAt(y)
    <2> HIDE DEF old
    <2>1. PICK v \in Slot : /\ p[v].state = "BLOCKED" /\ p[v].pid = q[y].waiters[old(y, i)]
                            /\ c[v] = WaitingAt(y)
      BY <1>2 DEF Sleepers
    <2>2. v # w
      <3> SUFFICES ASSUME v = w PROVE FALSE
        OBVIOUS
      <3>1. 1 \in 1..Len(q[x].waiters) /\ q[x].waiters[1] = q[y].waiters[old(y, i)]
        BY <2>1, <1>1
      <3>2. x = y /\ 1 = old(y, i)
        BY <3>1, <1>2 DEF Once
      <3> QED BY <3>2, <1>2
    <2> QED BY <2>1, <2>2, <1>2
  <1>5. ASSUME NEW v \in Slot, p2[v].state = "BLOCKED"
        PROVE  \E y \in Sem : \E i \in 1..Len(q2[y].waiters) : q2[y].waiters[i] = p2[v].pid
    <2>1. v # w /\ p[v].state = "BLOCKED" /\ p2[v].pid = p[v].pid
      BY <1>5
    <2>2. PICK y \in Sem : \E i \in 1..Len(q[y].waiters) : q[y].waiters[i] = p[v].pid
      BY <2>1 DEF Sleepers
    <2>3. PICK i \in 1..Len(q[y].waiters) : q[y].waiters[i] = p[v].pid
      BY <2>2
    <2>4. CASE y # x
      BY <2>1, <2>3, <2>4
    <2>5. CASE y = x
      <3>1. i # 1
        BY <2>1, <2>3, <2>5 DEF Typed, Distinct, NoPcb
      <3>2. i - 1 \in 1..Len(q2[x].waiters) /\ (i - 1) + 1 = i
        <4>1. i \in 1..Len(q[x].waiters) /\ Len(q[x].waiters) \in Nat
          BY <2>5, <1>1
        <4> QED BY <4>1, <3>1
      <3>3. q2[x].waiters[i - 1] = q[x].waiters[i]
        BY <3>2
      <3> QED BY <2>1, <2>3, <2>5, <3>2, <3>3
    <2> QED BY <2>4, <2>5
  <1> QED BY <1>3, <1>4, <1>5 DEF Sleepers

LEMMA SleepersBlock ==
  ASSUME NEW p, NEW q, NEW c, NEW p2, NEW q2, NEW c2,
         Typed(p, q, c), Sleepers(p, q, c), Once(q),
         NEW x \in Sem, NEW w \in Slot, p[w].state = "READY",
         q2[x].waiters = Append(q[x].waiters, p[w].pid),
         \A y \in Sem \ {x} : q2[y].waiters = q[y].waiters,
         p2[w].state = "BLOCKED", c2[w] = WaitingAt(x), p2[w].pid = p[w].pid,
         \A s \in Slot : s # w => (p2[s].state = "BLOCKED" <=> p[s].state = "BLOCKED"),
         \A s \in Slot : p[s].state = "BLOCKED" => p2[s].pid = p[s].pid /\ c2[s] = c[s]
  PROVE  Sleepers(p2, q2, c2) /\ Once(q2)
  <1> DEFINE n == Len(q[x].waiters)
  <1>1. \A y \in Sem : q[y].waiters \in Seq(Nat) /\ Len(q[y].waiters) \in Nat
    BY LenProperties DEF Typed, Semaphore
  <1>2. p[w].pid \in Nat
    BY DEF Typed, Pcb
  <1>3. /\ n \in Nat /\ Len(q2[x].waiters) = n + 1
        /\ \A i \in 1..n : q2[x].waiters[i] = q[x].waiters[i]
        /\ q2[x].waiters[n + 1] = p[w].pid
    BY <1>1, <1>2, AppendProperties
  <1> HIDE DEF n
  <1>4. ASSUME NEW y \in Sem, NEW i \in 1..Len(q2[y].waiters)
        PROVE  \/ i \in 1..Len(q[y].waiters) /\ q2[y].waiters[i] = q[y].waiters[i]
               \/ y = x /\ i = n + 1 /\ q2[y].waiters[i] = p[w].pid
    <2>1. CASE y # x
      BY <2>1
    <2>2. CASE y = x
      BY <2>2, <1>3 DEF n
    <2> QED BY <2>1, <2>2
  <1>5. \A y \in Sem : \A i \in 1..Len(q[y].waiters) : q[y].waiters[i] # p[w].pid
    <2> SUFFICES ASSUME NEW y \in Sem, NEW i \in 1..Len(q[y].waiters),
                        q[y].waiters[i] = p[w].pid
                 PROVE  FALSE
      OBVIOUS
    <2> QED BY Sleeping DEF NoPcb
  <1>6. Once(q2)
    <2> SUFFICES ASSUME NEW y \in Sem, NEW z \in Sem, NEW i \in 1..Len(q2[y].waiters),
                        NEW j \in 1..Len(q2[z].waiters), q2[y].waiters[i] = q2[z].waiters[j]
                 PROVE  y = z /\ i = j
      BY DEF Once
    <2>1. CASE /\ i \in 1..Len(q[y].waiters) /\ q2[y].waiters[i] = q[y].waiters[i]
               /\ j \in 1..Len(q[z].waiters) /\ q2[z].waiters[j] = q[z].waiters[j]
      <3>1. /\ i \in 1..Len(q[y].waiters) /\ j \in 1..Len(q[z].waiters)
            /\ q[y].waiters[i] = q[z].waiters[j]
        BY <2>1
      <3> QED BY <3>1, OnceAt
    <2>2. CASE /\ y = x /\ i = n + 1 /\ q2[y].waiters[i] = p[w].pid
               /\ z = x /\ j = n + 1 /\ q2[z].waiters[j] = p[w].pid
      BY <2>2
    <2> QED BY <2>1, <2>2, <1>4, <1>5
  <1>7. ASSUME NEW y \in Sem, NEW i \in 1..Len(q2[y].waiters)
        PROVE  \E v \in Slot : /\ p2[v].state = "BLOCKED" /\ p2[v].pid = q2[y].waiters[i]
                               /\ c2[v] = WaitingAt(y)
    <2>1. CASE i \in 1..Len(q[y].waiters) /\ q2[y].waiters[i] = q[y].waiters[i]
      <3>1. PICK v \in Slot : /\ p[v].state = "BLOCKED" /\ p[v].pid = q[y].waiters[i]
                              /\ c[v] = WaitingAt(y)
        BY <2>1 DEF Sleepers
      <3>2. v # w
        BY <3>1
      <3> QED BY <2>1, <3>1, <3>2
    <2>2. CASE y = x /\ i = n + 1 /\ q2[y].waiters[i] = p[w].pid
      BY <2>2
    <2> QED BY <2>1, <2>2, <1>4
  <1>8. ASSUME NEW v \in Slot, p2[v].state = "BLOCKED"
        PROVE  \E y \in Sem : \E i \in 1..Len(q2[y].waiters) : q2[y].waiters[i] = p2[v].pid
    <2>1. CASE v = w
      <3>1. n + 1 \in 1..Len(q2[x].waiters)
        BY <1>3
      <3> QED BY <2>1, <3>1, <1>3
    <2>2. CASE v # w
      <3>1. p[v].state = "BLOCKED" /\ p2[v].pid = p[v].pid
        BY <2>2, <1>8
      <3>2. PICK y \in Sem : \E i \in 1..Len(q[y].waiters) : q[y].waiters[i] = p[v].pid
        BY <3>1 DEF Sleepers
      <3>3. PICK i \in 1..Len(q[y].waiters) : q[y].waiters[i] = p[v].pid
        BY <3>2
      <3>4. i \in 1..Len(q2[y].waiters) /\ q2[y].waiters[i] = q[y].waiters[i]
        <4>1. CASE y = x
          BY <3>3, <4>1, <1>3 DEF n
        <4>2. CASE y # x
          BY <3>3, <4>2
        <4> QED BY <4>1, <4>2
      <3> QED BY <3>1, <3>3, <3>4
    <2> QED BY <2>1, <2>2
  <1> QED BY <1>6, <1>7, <1>8 DEF Sleepers
-----------------------------------------------------------------------------
(* Each kind of step keeps the bonds between processes.                     *)

(* The processes outside S keep what the bonds are about.                   *)
Alike(p, p2, S) ==
  \A s \in Slot \ S : p2[s].state = p[s].state /\ p2[s].pid = p[s].pid /\ p2[s].ppid = p[s].ppid
SameWaiters(q, q2) == \A x \in Sem : q2[x].waiters = q[x].waiters
SameValues(q, q2, S) == \A s \in Slot \ S : q2[s].value = q[s].value

(* A process asleep in waitpid is in the queue of its child.                *)
LEMMA AsleepForChild ==
  ASSUME NEW p, NEW q, NEW c, Typed(p, q, c), Sleepers(p, q, c), Waits(p, q, c),
         NEW w \in Slot, p[w].state = "BLOCKED", c[w] # InUser
  PROVE  /\ c[w].child \in Slot /\ c[w] = Returning(c[w].child)
         /\ \E i \in 1..Len(q[c[w].child].waiters) : q[c[w].child].waiters[i] = p[w].pid
  <1>1. PICK x \in Sem : \E i \in 1..Len(q[x].waiters) :
                           q[x].waiters[i] = p[w].pid /\ c[w] = WaitingAt(x)
    BY Sleeping
  <1>2. x \in Slot /\ c[w] = Returning(x)
    BY <1>1 DEF WaitingAt
  <1>3. c[w].child = x
    BY <1>2 DEF Returning
  <1> QED BY <1>1, <1>2, <1>3

(* No step but a start, the end of a waitpid and a freeProcess changes the  *)
(* family.                                                                  *)
LEMMA FamilyKept ==
  ASSUME NEW p, NEW p2, Family(p),
         \A s \in Slot :
           /\ p2[s].pid = p[s].pid /\ p2[s].ppid = p[s].ppid
           /\ \/ p2[s].state = p[s].state
              \/ p[s].state \in {"READY", "BLOCKED"} /\ p2[s].state \in {"READY", "BLOCKED"}
              \/ p[s].state = "READY" /\ p2[s].state = "EXITED" /\ s # InitProc
  PROVE  Family(p2)
  <1>1. \A s \in Slot : /\ p2[s].pid = p[s].pid /\ p2[s].ppid = p[s].ppid
                        /\ Gone(p2, s) <=> Gone(p, s)
                        /\ p2[s].state = NoPcb <=> p[s].state = NoPcb
    BY DEF Gone, NoPcb
  <1>2. p2[InitProc].state \in {"READY", "BLOCKED"}
    BY Names DEF Family
  <1> QED BY <1>1, <1>2, Names DEF Family

LEMMA BondsQuiet ==
  ASSUME NEW p, NEW q, NEW c, NEW p2, NEW q2, Bonds(p, q, c),
         Alike(p, p2, {}), SameWaiters(q, q2), SameValues(q, q2, {})
  PROVE  Bonds(p2, q2, c)
  <1>1. Sleepers(p2, q2, c) /\ Once(q2)
    <2>1. \A s \in Slot : p2[s].state = "BLOCKED" <=> p[s].state = "BLOCKED"
      BY DEF Alike
    <2>2. \A s \in Slot : p[s].state = "BLOCKED" => p2[s].pid = p[s].pid /\ c[s] = c[s]
      BY DEF Alike
    <2> QED BY <2>1, <2>2, SleepersQuiet DEF Bonds, SameWaiters
  <1>2. Waits(p2, q2, c)
    BY DEF Bonds, Alike, SameValues, Waits, WaitsForChild
  <1>3. Exits(p2, q2, c)
    BY DEF Bonds, Alike, SameValues, Exits
  <1>4. Family(p2)
    BY FamilyKept DEF Bonds, Alike
  <1> QED BY <1>1, <1>2, <1>3, <1>4 DEF Bonds

(* A user semaphore wakes w.                                                *)
LEMMA BondsWake ==
  ASSUME NEW p, NEW q, NEW c, NEW p2, NEW q2, Typed(p, q, c), Bonds(p, q, c),
         NEW w \in Slot, Alike(p, p2, {w}), SameValues(q, q2, {}),
         p[w].state = "BLOCKED", c[w] = InUser,
         p2[w].state = "READY", p2[w].pid = p[w].pid, p2[w].ppid = p[w].ppid,
         Sleepers(p2, q2, c) /\ Once(q2)
  PROVE  Bonds(p2, q2, c)
  <1>1. Waits(p2, q2, c)
    <2> SUFFICES ASSUME NEW v \in Slot, c[v] # InUser PROVE WaitsForChild(p2, q2, c, v)
      BY DEF Waits
    <2>1. v # w /\ WaitsForChild(p, q, c, v)
      BY DEF Bonds, Waits
    <2>2. p2[v].state = p[v].state /\ p2[v].pid = p[v].pid
      BY <2>1 DEF Alike
    <2>3. c[v].child # w \/ p[v].state = "BLOCKED"
      BY <2>1 DEF WaitsForChild
    <2> QED BY <2>1, <2>2, <2>3 DEF WaitsForChild, Alike, SameValues
  <1>2. Exits(p2, q2, c)
    <2>1. \A s \in Slot : p2[s].state = "EXITED" <=> p[s].state = "EXITED"
      BY DEF Alike
    <2>2. \A s \in Slot : p[s].state = "READY" => p2[s].state = "READY"
      BY DEF Alike
    <2> QED BY <2>1, <2>2 DEF Bonds, SameValues, Exits
  <1>3. Family(p2)
    BY FamilyKept DEF Bonds, Alike
  <1> QED BY <1>1, <1>2, <1>3 DEF Bonds

(* e exits and wakes nobody.                                                *)
LEMMA BondsExit ==
  ASSUME NEW p, NEW q, NEW c, NEW p2, NEW q2, Typed(p, q, c), Bonds(p, q, c),
         NEW e \in Slot, e # InitProc, p[e].state = "READY", c[e] = InUser,
         Alike(p, p2, {e}), SameWaiters(q, q2), SameValues(q, q2, {e}),
         p2[e].state = "EXITED", p2[e].pid = p[e].pid, p2[e].ppid = p[e].ppid,
         Len(q[e].waiters) = 0, q2[e].value = 1
  PROVE  Bonds(p2, q2, c)
  <1>1. Sleepers(p2, q2, c) /\ Once(q2)
    <2>1. \A s \in Slot : p2[s].state = "BLOCKED" <=> p[s].state = "BLOCKED"
      BY DEF Alike
    <2>2. \A s \in Slot : p[s].state = "BLOCKED" => p2[s].pid = p[s].pid /\ c[s] = c[s]
      BY DEF Alike
    <2> QED BY <2>1, <2>2, SleepersQuiet DEF Bonds, SameWaiters
  <1>2. Waits(p2, q2, c)
    <2> SUFFICES ASSUME NEW v \in Slot, c[v] # InUser PROVE WaitsForChild(p2, q2, c, v)
      BY DEF Waits
    <2>1. v # e /\ WaitsForChild(p, q, c, v)
      BY DEF Bonds, Waits
    <2>2. p2[v].state = p[v].state /\ p2[v].pid = p[v].pid
      BY <2>1 DEF Alike
    <2>3. c[v].child # e
      <3> SUFFICES ASSUME c[v].child = e PROVE FALSE
        OBVIOUS
      <3>1. p[v].state = "BLOCKED"
        BY <2>1 DEF WaitsForChild
      <3> QED BY <3>1, AsleepForChild DEF Bonds
    <2> QED BY <2>1, <2>2, <2>3 DEF WaitsForChild, Alike, SameValues
  <1>3. Exits(p2, q2, c)
    <2>1. ASSUME NEW s \in Slot, q2[s].value > 0
          PROVE  p2[s].state = "EXITED" /\ q2[s].value = 1
      BY <2>1 DEF Bonds, Exits, Alike, SameValues
    <2>2. ASSUME NEW s \in Slot, p2[s].state = "EXITED"
          PROVE  q2[s].value > 0 \/ \E w \in Slot : p2[w].state = "READY" /\ c[w] = Returning(s)
      <3>1. CASE s = e
        BY <3>1
      <3>2. CASE s # e
        <4>1. q[s].value > 0 \/ \E w \in Slot : p[w].state = "READY" /\ c[w] = Returning(s)
          BY <2>2, <3>2 DEF Bonds, Exits, Alike
        <4>2. ASSUME NEW w \in Slot, p[w].state = "READY", c[w] = Returning(s)
              PROVE  p2[w].state = "READY"
          <5>1. w # e
            BY <4>2 DEF Returning, InUser
          <5> QED BY <4>2, <5>1 DEF Alike
        <4> QED BY <3>2, <4>1, <4>2 DEF SameValues
      <3> QED BY <3>1, <3>2
    <2> QED BY <2>1, <2>2 DEF Exits
  <1>4. Family(p2)
    BY FamilyKept DEF Bonds, Alike
  <1> QED BY <1>1, <1>2, <1>3, <1>4 DEF Bonds

(* e exits and wakes its parent w, which waits for it.                      *)
LEMMA BondsExitWake ==
  ASSUME NEW p, NEW q, NEW c, NEW p2, NEW q2, Typed(p, q, c), Bonds(p, q, c),
         NEW e \in Slot, e # InitProc, p[e].state = "READY", c[e] = InUser,
         NEW w \in Slot, p[w].state = "BLOCKED", c[w] = Returning(e),
         Alike(p, p2, {e, w}), SameValues(q, q2, {}),
         p2[e].state = "EXITED", p2[e].pid = p[e].pid, p2[e].ppid = p[e].ppid,
         p2[w].state = "READY", p2[w].pid = p[w].pid, p2[w].ppid = p[w].ppid,
         Sleepers(p2, q2, c) /\ Once(q2)
  PROVE  Bonds(p2, q2, c)
  <1>1. /\ c[w] # InUser /\ c[w].child = e /\ w # e
        /\ p[e].ppid = p[w].pid /\ q[e].value = 0
    <2>1. c[w] # InUser /\ c[w].child = e
      BY DEF Returning, InUser
    <2> QED BY <2>1 DEF Bonds, Waits, WaitsForChild, Exits, Returning
  <1>2. Waits(p2, q2, c)
    <2> SUFFICES ASSUME NEW v \in Slot, c[v] # InUser PROVE WaitsForChild(p2, q2, c, v)
      BY DEF Waits
    <2>1. v # e /\ WaitsForChild(p, q, c, v)
      BY DEF Bonds, Waits
    <2>2. CASE v = w
      BY <2>1, <2>2, <1>1 DEF WaitsForChild, SameValues
    <2>3. CASE v # w
      <3>1. p2[v].state = p[v].state /\ p2[v].pid = p[v].pid
        BY <2>1, <2>3 DEF Alike
      <3>2. c[v].child # e
        <4> SUFFICES ASSUME c[v].child = e PROVE FALSE
          OBVIOUS
        <4> QED BY <2>3, <1>1, OneWaiter DEF Bonds, NoPcb
      <3>3. c[v].child # w \/ p[v].state = "BLOCKED"
        BY <2>1 DEF WaitsForChild
      <3> QED BY <2>1, <3>1, <3>2, <3>3 DEF WaitsForChild, Alike, SameValues
    <2> QED BY <2>2, <2>3
  <1>3. Exits(p2, q2, c)
    <2>1. ASSUME NEW s \in Slot, q2[s].value > 0
          PROVE  p2[s].state = "EXITED" /\ q2[s].value = 1
      BY <2>1 DEF Bonds, Exits, Alike, SameValues
    <2>2. ASSUME NEW s \in Slot, p2[s].state = "EXITED"
          PROVE  q2[s].value > 0 \/ \E v \in Slot : p2[v].state = "READY" /\ c[v] = Returning(s)
      <3>1. CASE s = e
        BY <3>1
      <3>2. CASE s # e
        <4>1. q[s].value > 0 \/ \E v \in Slot : p[v].state = "READY" /\ c[v] = Returning(s)
          BY <2>2, <3>2 DEF Bonds, Exits, Alike
        <4>2. ASSUME NEW v \in Slot, p[v].state = "READY", c[v] = Returning(s)
              PROVE  p2[v].state = "READY"
          <5>1. v # e
            BY <4>2 DEF Returning, InUser
          <5> QED BY <4>2, <5>1 DEF Alike
        <4> QED BY <4>1, <4>2 DEF SameValues
      <3> QED BY <3>1, <3>2
    <2> QED BY <2>1, <2>2 DEF Exits
  <1>4. Family(p2)
    BY FamilyKept DEF Bonds, Alike
  <1> QED BY <1>2, <1>3, <1>4 DEF Bonds

(* w goes to sleep, on a user semaphore or until its child x exits.         *)
LEMMA BondsBlock ==
  ASSUME NEW p, NEW q, NEW c, NEW p2, NEW q2, NEW c2, Typed(p, q, c), Bonds(p, q, c),
         NEW w \in Slot, p[w].state = "READY", c[w] = InUser, NEW x \in Sem,
         Alike(p, p2, {w}), SameValues(q, q2, {}),
         p2[w].state = "BLOCKED", p2[w].pid = p[w].pid, p2[w].ppid = p[w].ppid,
         q2[x].waiters = Append(q[x].waiters, p[w].pid),
         \A y \in Sem \ {x} : q2[y].waiters = q[y].waiters,
         \A v \in Slot : v # w => c2[v] = c[v], c2[w] = WaitingAt(x),
         x \in Slot => /\ p[x].ppid = p[w].pid /\ p[x].state \in {"READY", "BLOCKED"}
                       /\ q[x].value = 0
  PROVE  Bonds(p2, q2, c2)
  <1>1. Sleepers(p2, q2, c2) /\ Once(q2)
    <2>1. \A s \in Slot : s # w => (p2[s].state = "BLOCKED" <=> p[s].state = "BLOCKED")
      BY DEF Alike
    <2>2. \A s \in Slot : p[s].state = "BLOCKED" => p2[s].pid = p[s].pid /\ c2[s] = c[s]
      BY DEF Alike
    <2> QED BY <2>1, <2>2, SleepersBlock DEF Bonds
  <1>2. Waits(p2, q2, c2)
    <2> SUFFICES ASSUME NEW v \in Slot, c2[v] # InUser PROVE WaitsForChild(p2, q2, c2, v)
      BY DEF Waits
    <2>1. CASE v = w
      <3>1. x \in Slot /\ c2[v] = Returning(x) /\ c2[v].child = x
        BY <2>1 DEF WaitingAt, Returning
      <3>2. x # w
        <4>1. p[w].ppid < p[w].pid /\ p[w].pid \in Nat /\ p[w].ppid \in Nat
          BY DEF Bonds, Family, NoPcb, Typed, Pcb
        <4> QED BY <3>1, <4>1
      <3>3. p2[x].ppid = p[w].pid /\ p2[x].state \in {"READY", "BLOCKED"} /\ q2[x].value = 0
        BY <3>1, <3>2 DEF Alike, SameValues
      <3> QED BY <2>1, <3>1, <3>3 DEF WaitsForChild
    <2>2. CASE v # w
      <3>1. c2[v] = c[v] /\ WaitsForChild(p, q, c, v)
        BY <2>2 DEF Bonds, Waits
      <3>2. p2[v].state = p[v].state /\ p2[v].pid = p[v].pid
        BY <2>2 DEF Alike
      <3>3. c[v].child # w \/ p[v].state = "BLOCKED"
        BY <3>1 DEF WaitsForChild
      <3> QED BY <3>1, <3>2, <3>3 DEF WaitsForChild, Alike, SameValues
    <2> QED BY <2>1, <2>2
  <1>3. Exits(p2, q2, c2)
    <2>1. ASSUME NEW s \in Slot, q2[s].value > 0
          PROVE  p2[s].state = "EXITED" /\ q2[s].value = 1
      BY <2>1 DEF Bonds, Exits, Alike, SameValues
    <2>2. ASSUME NEW s \in Slot, p2[s].state = "EXITED"
          PROVE  q2[s].value > 0 \/ \E v \in Slot : p2[v].state = "READY" /\ c2[v] = Returning(s)
      <3>1. q[s].value > 0 \/ \E v \in Slot : p[v].state = "READY" /\ c[v] = Returning(s)
        BY <2>2 DEF Bonds, Exits, Alike
      <3>2. ASSUME NEW v \in Slot, p[v].state = "READY", c[v] = Returning(s)
            PROVE  p2[v].state = "READY" /\ c2[v] = Returning(s)
        <4>1. v # w
          BY <3>2 DEF Returning, InUser
        <4> QED BY <3>2, <4>1 DEF Alike
      <3> QED BY <3>1, <3>2 DEF SameValues
    <2> QED BY <2>1, <2>2 DEF Exits
  <1>4. Family(p2)
    BY FamilyKept DEF Bonds, Alike
  <1> QED BY <1>1, <1>2, <1>3, <1>4 DEF Bonds

(* u, the parent of t, ends its waitpid: t is TERMINATED, and its children  *)
(* are handed to init.                                                      *)
Adopts(p, p2, t) ==
  /\ p2[t].state = "TERMINATED"
  /\ \A s \in Slot : s # t => p2[s].state = p[s].state
  /\ \A s \in Slot : p2[s].pid = p[s].pid
  /\ \A s \in Slot : \/ p2[s].ppid = p[s].ppid
                     \/ p2[s].ppid = InitPid /\ (s = t \/ p[s].ppid = p[t].pid)
  /\ \A s \in Slot : ~Gone(p, s) /\ s # t /\ p[s].ppid = p[t].pid => p2[s].ppid = InitPid

LEMMA FamilyReap ==
  ASSUME NEW p \in [Slot -> Pcb], NEW p2, Family(p),
         NEW t \in Slot, p[t].state = "EXITED", Adopts(p, p2, t),
         NEW u \in Slot, p[u].state # NoPcb, p[t].ppid = p[u].pid, p[u].pid >= InitPid
  PROVE  Family(p2)
  <1>1. \A s \in Slot : p[s].pid \in Nat /\ p[s].ppid \in Nat
    BY DEF Pcb
  <1>2. t # InitProc /\ InitPid = 2
    BY DEF Family, InitPid
  <1>3. p2[InitProc].pid = InitPid /\ p2[InitProc].state \in {"READY", "BLOCKED"}
    BY <1>2, Names DEF Family, Adopts
  <1>4. ASSUME NEW s \in Slot, p2[s].state # NoPcb
        PROVE  p2[s].ppid < p2[s].pid
    <2>1. p[s].state # NoPcb /\ p[t].state # NoPcb
      BY <1>4 DEF Adopts, NoPcb
    <2>2. p[s].ppid < p[s].pid /\ p[t].ppid < p[t].pid
      BY <2>1 DEF Family
    <2>3. 2 < p[t].pid
      BY <2>2, <1>1, <1>2
    <2>4. p2[s].pid = p[s].pid
      BY DEF Adopts
    <2>5. CASE p2[s].ppid = p[s].ppid
      BY <2>2, <2>4, <2>5
    <2>6. CASE p2[s].ppid = InitPid /\ (s = t \/ p[s].ppid = p[t].pid)
      BY <2>2, <2>3, <2>4, <2>6, <1>1, <1>2
    <2> QED BY <2>5, <2>6 DEF Adopts
  <1>5. ASSUME NEW s \in Slot, ~Gone(p2, s)
        PROVE  p2[s].ppid = 0 \/ \E v \in Slot : ~Gone(p2, v) /\ p2[v].pid = p2[s].ppid
    <2>1. s # t /\ ~Gone(p, s)
      BY <1>5 DEF Adopts, Gone
    <2>2. CASE p2[s].ppid = InitPid
      BY <2>2, <1>3, Names DEF Gone, NoPcb
    <2>3. CASE p2[s].ppid = p[s].ppid /\ p2[s].ppid # InitPid
      <3>1. CASE p[s].ppid = 0
        BY <2>3, <3>1
      <3>2. CASE p[s].ppid # 0
        <4>1. PICK v \in Slot : ~Gone(p, v) /\ p[v].pid = p[s].ppid
          BY <2>1, <3>2 DEF Family
        <4>2. v # t
          BY <2>1, <2>3, <4>1 DEF Adopts
        <4> QED BY <2>3, <4>1, <4>2 DEF Adopts, Gone
      <3> QED BY <3>1, <3>2
    <2> QED BY <2>1, <2>2, <2>3 DEF Adopts
  <1> QED BY <1>3, <1>4, <1>5 DEF Family

LEMMA BondsReap ==
  ASSUME NEW p, NEW q, NEW c, NEW p2, NEW q2, NEW c2, Typed(p, q, c), Bonds(p, q, c),
         NEW t \in Slot, p[t].state = "EXITED", Adopts(p, p2, t),
         NEW u \in Slot, p[u].state # NoPcb, p[t].ppid = p[u].pid, p[u].pid >= InitPid,
         c[u] = InUser \/ c[u] = Returning(t),
         SameWaiters(q, q2), SameValues(q, q2, {t}), q2[t].value = 0,
         \A v \in Slot : v # u => c2[v] = c[v], c2[u] = InUser,
         p[u].state = "READY"
  PROVE  Bonds(p2, q2, c2)
  <1>1. Sleepers(p2, q2, c2) /\ Once(q2)
    <2>1. \A s \in Slot : p2[s].state = "BLOCKED" <=> p[s].state = "BLOCKED"
      BY DEF Adopts
    <2>2. \A s \in Slot : p[s].state = "BLOCKED" => p2[s].pid = p[s].pid /\ c2[s] = c[s]
      BY DEF Adopts
    <2> QED BY <2>1, <2>2, SleepersQuiet DEF Bonds, SameWaiters
  <1>2. Waits(p2, q2, c2)
    <2> SUFFICES ASSUME NEW v \in Slot, c2[v] # InUser PROVE WaitsForChild(p2, q2, c2, v)
      BY DEF Waits
    <2>1. v # u /\ c2[v] = c[v] /\ WaitsForChild(p, q, c, v)
      BY DEF Bonds, Waits
    <2>2. v # t
      BY <2>1 DEF WaitsForChild
    <2>3. p2[v].state = p[v].state /\ p2[v].pid = p[v].pid
      BY <2>2 DEF Adopts
    <2> DEFINE s == c[v].child
    <2>4. s \in Slot /\ p[s].ppid = p[v].pid
      BY <2>1 DEF WaitsForChild
    <2>5. s # t
      <3> SUFFICES ASSUME s = t PROVE FALSE
        OBVIOUS
      <3>1. c[v] # InUser /\ p[c[v].child].ppid = p[u].pid
        BY <2>1
      <3> HIDE DEF s
      <3> QED BY <2>1, <3>1, OneWaiter DEF Bonds
    <2>6. p[s].ppid # p[t].pid
      <3>1. p[v].state # NoPcb /\ p[t].state # NoPcb
        BY <2>1 DEF WaitsForChild, NoPcb
      <3> QED BY <2>2, <2>4, <3>1 DEF Typed, Distinct
    <2> HIDE DEF s
    <2>7. p2[s].ppid = p[s].ppid /\ p2[s].state = p[s].state
      BY <2>4, <2>5, <2>6 DEF Adopts
    <2>8. q2[s].value = q[s].value
      BY <2>4, <2>5 DEF SameValues
    <2> QED BY <2>1, <2>3, <2>7, <2>8 DEF WaitsForChild, s
  <1>3. Exits(p2, q2, c2)
    <2>1. ASSUME NEW s \in Slot, q2[s].value > 0
          PROVE  p2[s].state = "EXITED" /\ q2[s].value = 1
      <3>1. s # t
        BY <2>1
      <3>2. q2[s].value = q[s].value /\ p2[s].state = p[s].state
        BY <3>1 DEF SameValues, Adopts
      <3> QED BY <2>1, <3>2 DEF Bonds, Exits
    <2>2. ASSUME NEW s \in Slot, p2[s].state = "EXITED"
          PROVE  q2[s].value > 0 \/ \E v \in Slot : p2[v].state = "READY" /\ c2[v] = Returning(s)
      <3>1. s # t /\ p[s].state = "EXITED" /\ q2[s].value = q[s].value
        BY <2>2 DEF Adopts, SameValues
      <3>2. q[s].value > 0 \/ \E v \in Slot : p[v].state = "READY" /\ c[v] = Returning(s)
        BY <3>1 DEF Bonds, Exits
      <3>3. ASSUME NEW v \in Slot, p[v].state = "READY", c[v] = Returning(s)
            PROVE  p2[v].state = "READY" /\ c2[v] = Returning(s)
        <4>1. v # u
          BY <3>1, <3>3 DEF Returning, InUser
        <4>2. v # t
          BY <3>3
        <4> QED BY <3>3, <4>1, <4>2 DEF Adopts
      <3> QED BY <3>1, <3>2, <3>3
    <2> QED BY <2>1, <2>2 DEF Exits
  <1>4. Family(p2)
    BY FamilyReap DEF Bonds, Typed
  <1> QED BY <1>1, <1>2, <1>3, <1>4 DEF Bonds

(* u starts a process at s.                                                 *)
LEMMA BondsStart ==
  ASSUME NEW p, NEW q, NEW c, NEW p2, Typed(p, q, c), Bonds(p, q, c),
         NEW s \in Slot, p[s].state = NoPcb, Alike(p, p2, {s}), p2[s].state = "READY",
         NEW n \in Nat, p2[s].pid = n, \A t \in Slot : p[t].state # NoPcb => p[t].pid < n,
         NEW u \in Slot, p[u].state = "READY", p2[s].ppid = InitPid \/ p2[s].ppid = p[u].pid
  PROVE  Bonds(p2, q, c)
  <1>1. Sleepers(p2, q, c) /\ Once(q)
    <2>1. \A t \in Slot : p2[t].state = "BLOCKED" <=> p[t].state = "BLOCKED"
      BY DEF Alike, NoPcb
    <2>2. \A t \in Slot : p[t].state = "BLOCKED" => p2[t].pid = p[t].pid /\ c[t] = c[t]
      BY DEF Alike, NoPcb
    <2> QED BY <2>1, <2>2, SleepersQuiet DEF Bonds
  <1>2. Waits(p2, q, c)
    <2> SUFFICES ASSUME NEW v \in Slot, c[v] # InUser PROVE WaitsForChild(p2, q, c, v)
      BY DEF Waits
    <2>1. WaitsForChild(p, q, c, v)
      BY DEF Bonds, Waits
    <2>2. v # s /\ c[v].child # s
      BY <2>1 DEF WaitsForChild, NoPcb
    <2> QED BY <2>1, <2>2 DEF WaitsForChild, Alike
  <1>3. Exits(p2, q, c)
    <2>1. \A t \in Slot : p2[t].state = "EXITED" <=> p[t].state = "EXITED"
      BY DEF Alike, NoPcb
    <2>2. \A t \in Slot : p[t].state = "READY" => p2[t].state = "READY"
      BY DEF Alike
    <2> QED BY <2>1, <2>2 DEF Bonds, Exits
  <1>4. Family(p2)
    <2>1. p[InitProc].pid = InitPid /\ p[InitProc].state \in {"READY", "BLOCKED"}
      BY DEF Bonds, Family
    <2>2. InitProc # s /\ p2[InitProc].pid = InitPid
          /\ p2[InitProc].state \in {"READY", "BLOCKED"}
      BY <2>1, Names DEF Alike, NoPcb
    <2>3. p2[s].ppid < p2[s].pid
      BY <2>1, Names DEF NoPcb
    <2>4. \A t \in Slot : t # s => /\ p2[t].pid = p[t].pid /\ p2[t].ppid = p[t].ppid
                                   /\ Gone(p2, t) <=> Gone(p, t)
                                   /\ p2[t].state = NoPcb <=> p[t].state = NoPcb
      BY DEF Alike, Gone
    <2>5. ~Gone(p2, u) /\ p2[u].pid = p[u].pid /\ ~Gone(p2, InitProc)
      BY <2>2, <2>4 DEF Alike, Gone, NoPcb
    <2>6. ASSUME NEW t \in Slot, ~Gone(p2, t)
          PROVE  p2[t].ppid = 0 \/ \E v \in Slot : ~Gone(p2, v) /\ p2[v].pid = p2[t].ppid
      <3>1. CASE t = s
        BY <2>2, <2>5, <3>1, Names
      <3>2. CASE t # s /\ p[t].ppid # 0
        <4>1. PICK v \in Slot : ~Gone(p, v) /\ p[v].pid = p[t].ppid
          BY <2>4, <2>6, <3>2 DEF Bonds, Family
        <4>2. v # s
          BY <4>1 DEF Gone
        <4> QED BY <2>4, <3>2, <4>1, <4>2
      <3> QED BY <2>4, <3>1, <3>2
    <2>7. \A t \in Slot : p2[t].state # NoPcb => p2[t].ppid < p2[t].pid
      BY <2>3, <2>4 DEF Bonds, Family
    <2> QED BY <2>2, <2>6, <2>7 DEF Family
  <1> QED BY <1>1, <1>2, <1>3, <1>4 DEF Bonds

(* The terminated s is freed: nobody waits for it, and it waits for nobody. *)
LEMMA NobodyAtGone ==
  ASSUME NEW p, NEW q, NEW c, Typed(p, q, c), Bonds(p, q, c), NEW s \in Slot, Gone(p, s)
  PROVE  /\ c[s] = InUser /\ q[s].value = 0 /\ q[s].waiters = <<>>
         /\ \A v \in Slot : c[v] # InUser => c[v].child # s
  <1>1. c[s] = InUser /\ q[s].value = 0
    <2>1. c[s] = InUser
      BY DEF Gone, NoPcb, Bonds, Waits, WaitsForChild
    <2>2. q[s].value \in Nat
      BY Names DEF Typed, Semaphore
    <2>3. ~(q[s].value > 0)
      BY DEF Gone, NoPcb, Bonds, Exits
    <2> QED BY <2>1, <2>2, <2>3
  <1>2. ASSUME NEW v \in Slot, c[v] # InUser PROVE c[v].child # s
    BY <1>2 DEF Gone, NoPcb, Bonds, Waits, WaitsForChild
  <1>3. q[s].waiters = <<>>
    <2>1. q[s].waiters \in Seq(Nat) /\ Len(q[s].waiters) \in Nat
      BY Names, LenProperties DEF Typed, Semaphore
    <2>2. SUFFICES ASSUME q[s].waiters # <<>> PROVE FALSE
      OBVIOUS
    <2>3. 1 \in 1..Len(q[s].waiters)
      BY <2>1, <2>2, EmptySeq
    <2>4. PICK w \in Slot : c[w] = WaitingAt(s)
      BY <2>3, Names DEF Bonds, Sleepers
    <2>5. c[w] # InUser /\ c[w].child = s
      BY <2>4 DEF WaitingAt, Returning, InUser
    <2> QED BY <1>2, <2>5
  <1> QED BY <1>1, <1>2, <1>3

LEMMA BondsFree ==
  ASSUME NEW p, NEW q, NEW c, NEW p2, NEW q2, NEW c2, Typed(p, q, c), Bonds(p, q, c),
         NEW s \in Slot, p[s].state = "TERMINATED", Alike(p, p2, {s}), p2[s].state = NoPcb,
         SameValues(q, q2, {s}), q2[s].value = 0, q2[s].waiters = <<>>,
         \A x \in Sem \ {s} : q2[x].waiters = q[x].waiters,
         \A v \in Slot : v # s => c2[v] = c[v], c2[s] = InUser
  PROVE  Bonds(p2, q2, c2)
  <1>1. /\ c[s] = InUser /\ q[s].value = 0 /\ q[s].waiters = <<>>
        /\ \A v \in Slot : c[v] # InUser => c[v].child # s
    BY NobodyAtGone DEF Gone
  <1>2. SameWaiters(q, q2) /\ SameValues(q, q2, {}) /\ \A v \in Slot : c2[v] = c[v]
    BY <1>1 DEF SameWaiters, SameValues
  <1>3. Sleepers(p2, q2, c2) /\ Once(q2)
    <2>1. \A t \in Slot : p2[t].state = "BLOCKED" <=> p[t].state = "BLOCKED"
      BY DEF Alike, NoPcb
    <2>2. \A t \in Slot : p[t].state = "BLOCKED" => p2[t].pid = p[t].pid /\ c2[t] = c[t]
      BY <1>2 DEF Alike
    <2> QED BY <2>1, <2>2, <1>2, SleepersQuiet DEF Bonds, SameWaiters
  <1>4. Waits(p2, q2, c2)
    <2> SUFFICES ASSUME NEW v \in Slot, c2[v] # InUser PROVE WaitsForChild(p2, q2, c2, v)
      BY DEF Waits
    <2>1. c2[v] = c[v] /\ WaitsForChild(p, q, c, v) /\ v # s /\ c[v].child # s
      BY <1>1, <1>2 DEF Bonds, Waits
    <2> QED BY <2>1, <1>2 DEF WaitsForChild, Alike, SameValues
  <1>5. Exits(p2, q2, c2)
    <2>1. \A t \in Slot : p2[t].state = "EXITED" <=> p[t].state = "EXITED"
      BY DEF Alike, NoPcb
    <2>2. \A t \in Slot : p[t].state = "READY" => p2[t].state = "READY"
      BY DEF Alike
    <2> QED BY <2>1, <2>2, <1>2 DEF Bonds, Exits, SameValues
  <1>6. Family(p2)
    <2>1. s # InitProc
      BY DEF Bonds, Family
    <2>2. \A t \in Slot : t # s => p2[t].state = p[t].state /\ p2[t].pid = p[t].pid
                                   /\ p2[t].ppid = p[t].ppid
      BY DEF Alike
    <2>3. \A t \in Slot : Gone(p2, t) <=> Gone(p, t)
      BY <2>2 DEF Gone
    <2>4. \A t \in Slot : ~Gone(p, t) => p2[t].pid = p[t].pid /\ p2[t].ppid = p[t].ppid
      BY <2>2 DEF Gone
    <2>5. \A t \in Slot : p2[t].state # NoPcb => p2[t].ppid < p2[t].pid
      BY <2>2 DEF Bonds, Family
    <2>6. p2[InitProc].pid = InitPid /\ p2[InitProc].state \in {"READY", "BLOCKED"}
      BY <2>1, <2>2, Names DEF Bonds, Family
    <2>7. ASSUME NEW t \in Slot, ~Gone(p2, t)
          PROVE  p2[t].ppid = 0 \/ \E v \in Slot : ~Gone(p2, v) /\ p2[v].pid = p2[t].ppid
      <3>1. ~Gone(p, t) /\ p2[t].ppid = p[t].ppid
        BY <2>3, <2>4, <2>7
      <3>2. p[t].ppid = 0 \/ \E v \in Slot : ~Gone(p, v) /\ p[v].pid = p[t].ppid
        BY <3>1 DEF Bonds, Family
      <3> QED BY <2>3, <2>4, <3>1, <3>2
    <2> QED BY <2>5, <2>6, <2>7 DEF Family
  <1> QED BY <1>2, <1>3, <1>4, <1>5, <1>6 DEF Bonds

(* init finds its dead child s, or takes the unit of its exit.              *)
LEMMA BondsFind ==
  ASSUME NEW p, NEW q, NEW c, NEW q2, NEW c2, Typed(p, q, c), Bonds(p, q, c),
         p[InitProc].state = "READY", NEW s \in Slot, p[s].state = "EXITED",
         p[s].ppid = p[InitProc].pid,
         SameWaiters(q, q2), SameValues(q, q2, {s}),
         \A v \in Slot : v # InitProc => c2[v] = c[v],
         \/ c[InitProc] = InUser /\ c2[InitProc] = [at |-> "reap", child |-> s]
            /\ q2[s].value = q[s].value
         \/ c[InitProc].at = "reap" /\ c2[InitProc] = Returning(s) /\ q2[s].value = 0
  PROVE  Bonds(p, q2, c2)
  <1>1. Sleepers(p, q2, c2) /\ Once(q2)
    <2>1. \A t \in Slot : p[t].state = "BLOCKED" <=> p[t].state = "BLOCKED"
      OBVIOUS
    <2>2. \A t \in Slot : p[t].state = "BLOCKED" => p[t].pid = p[t].pid /\ c2[t] = c[t]
      OBVIOUS
    <2> QED BY <2>1, <2>2, SleepersQuiet DEF Bonds, SameWaiters
  <1>2. Waits(p, q2, c2)
    <2> SUFFICES ASSUME NEW v \in Slot, c2[v] # InUser PROVE WaitsForChild(p, q2, c2, v)
      BY DEF Waits
    <2>1. CASE v = InitProc
      BY <2>1 DEF WaitsForChild, Returning
    <2>2. CASE v # InitProc
      <3>1. c2[v] = c[v] /\ WaitsForChild(p, q, c, v)
        BY <2>2 DEF Bonds, Waits
      <3>2. c[v].child # s
        <4> SUFFICES ASSUME c[v].child = s PROVE FALSE
          OBVIOUS
        <4>1. p[c[v].child].ppid = p[InitProc].pid /\ c[v] # InUser
          BY <2>2
        <4> QED BY <2>2, <4>1, OneWaiter, Names DEF Bonds, NoPcb
      <3> QED BY <3>1, <3>2 DEF WaitsForChild, SameValues
    <2> QED BY <2>1, <2>2
  <1>3. Exits(p, q2, c2)
    <2>1. ASSUME NEW t \in Slot, q2[t].value > 0
          PROVE  p[t].state = "EXITED" /\ q2[t].value = 1
      BY <2>1 DEF Bonds, Exits, SameValues
    <2>2. ASSUME NEW t \in Slot, p[t].state = "EXITED"
          PROVE  q2[t].value > 0 \/ \E v \in Slot : p[v].state = "READY" /\ c2[v] = Returning(t)
      <3>1. q[t].value > 0 \/ \E v \in Slot : p[v].state = "READY" /\ c[v] = Returning(t)
        BY <2>2 DEF Bonds, Exits
      <3>2. ASSUME NEW v \in Slot, c[v] = Returning(t)
            PROVE  v # InitProc
        BY <3>2 DEF Returning, InUser
      <3>3. t # s => q2[t].value = q[t].value
        BY DEF SameValues
      <3>4. q2[s].value = q[s].value \/ c2[InitProc] = Returning(s)
        OBVIOUS
      <3> QED BY <3>1, <3>2, <3>3, <3>4, Names
    <2> QED BY <2>1, <2>2 DEF Exits
  <1> QED BY <1>1, <1>2, <1>3 DEF Bonds
-----------------------------------------------------------------------------
(* The ring.                                                                *)

(* t is r, or r after its first process has gone to the end.                *)
Turned(r, t) ==
  \/ t = r
  \/ /\ Len(t) = Len(r) /\ Len(r) > 0 /\ t[Len(r)] = r[1]
     /\ \A i \in 1..(Len(r) - 1) : t[i] = r[i + 1]

LEMMA BetweenTurns ==
  ASSUME NEW n \in Nat, NEW i \in 1..n, NEW j \in 1..n, NEW k \in 1..n, Between(i, k, j),
         NEW i2 \in 1..n, i < n => i2 = i + 1, i = n => i2 = 1,
         NEW j2 \in 1..n, j < n => j2 = j + 1, j = n => j2 = 1,
         NEW k2 \in 1..n, k < n => k2 = k + 1, k = n => k2 = 1
  PROVE  Between(i2, k2, j2)
  BY DEF Between

LEMMA OrderTurned ==
  ASSUME NEW p, NEW r \in Seq(Slot), NEW t, Order(p, r), Turned(r, t)
  PROVE  Order(p, t)
  <1> DEFINE n == Len(r)
             next(i) == IF i = n THEN 1 ELSE i + 1
  <1>1. CASE t = r
    BY <1>1
  <1>2. CASE /\ Len(t) = n /\ n > 0 /\ t[n] = r[1]
             /\ \A i \in 1..(n - 1) : t[i] = r[i + 1]
    <2>1. n \in Nat
      BY LenProperties
    <2> HIDE DEF n
    <2>2. ASSUME NEW i \in 1..n
          PROVE  /\ next(i) \in 1..n /\ t[i] = r[next(i)]
                 /\ i < n => next(i) = i + 1
                 /\ i = n => next(i) = 1
      <3>1. CASE i = n
        BY <3>1, <2>1, <1>2
      <3>2. CASE i # n
        <4>1. i \in 1..(n - 1)
          BY <3>2, <2>1
        <4> QED BY <4>1, <3>2, <2>1, <1>2
      <3> QED BY <3>1, <3>2
    <2> HIDE DEF next
    <2> SUFFICES ASSUME NEW i \in 1..n, NEW j \in 1..n, NEW k \in 1..n,
                        Between(i, k, j), ~Gone(p, t[i]), p[t[i]].ppid = p[t[j]].pid,
                        t[j] # InitProc
                 PROVE  p[t[j]].pid <= p[t[k]].pid
      BY <1>2 DEF Order
    <2> DEFINE i2 == next(i)
               j2 == next(j)
               k2 == next(k)
    <2>4. /\ i < n => i2 = i + 1
          /\ i = n => i2 = 1
          /\ j < n => j2 = j + 1
          /\ j = n => j2 = 1
          /\ k < n => k2 = k + 1
          /\ k = n => k2 = 1
          /\ i2 \in 1..n /\ j2 \in 1..n /\ k2 \in 1..n
          /\ t[i] = r[i2] /\ t[j] = r[j2] /\ t[k] = r[k2]
      BY <2>2
    <2> HIDE DEF i2, j2, k2
    <2>5. Between(i2, k2, j2)
      BY <2>1, <2>4, BetweenTurns
    <2> QED BY <2>4, <2>5 DEF Order, n
  <1> QED BY <1>1, <1>2 DEF Turned

(* More processes are gone, and some have got init as a parent.             *)
LEMMA OrderKept ==
  ASSUME NEW p, NEW p2, NEW r \in Seq(Slot), Order(p, r), Distinct(p),
         p[InitProc].pid = InitPid, p[InitProc].state # NoPcb,
         \A i \in 1..Len(r) : p[r[i]].state # NoPcb,
         \A s \in Slot : /\ p2[s].pid = p[s].pid
                         /\ Gone(p, s) => Gone(p2, s)
                         /\ p2[s].ppid = p[s].ppid \/ p2[s].ppid = InitPid
  PROVE  Order(p2, r)
  <1> SUFFICES ASSUME NEW i \in 1..Len(r), NEW j \in 1..Len(r), NEW k \in 1..Len(r),
                      Between(i, k, j), ~Gone(p2, r[i]), p2[r[i]].ppid = p2[r[j]].pid,
                      r[j] # InitProc
               PROVE  p2[r[j]].pid <= p2[r[k]].pid
    BY DEF Order
  <1>1. r[i] \in Slot /\ r[j] \in Slot /\ r[k] \in Slot
    BY ElementOfSeq
  <1>2. p2[r[i]].ppid # InitPid
    <2>1. p[r[j]].pid # InitPid
      BY <1>1, Names DEF Distinct
    <2> QED BY <2>1, <1>1
  <1>3. ~Gone(p, r[i]) /\ p[r[i]].ppid = p[r[j]].pid
    BY <1>1, <1>2
  <1> QED BY <1>1, <1>3 DEF Order

(* A process at the end of the ring, started by the first one or handed to  *)
(* init, and the first one freed.                                           *)
LEMMA OrderStart ==
  ASSUME NEW p \in [Slot -> Pcb], NEW p2 \in [Slot -> Pcb], NEW r \in Seq(Slot), NEW t,
         Order(p, r), Distinct(p2), Family(p2), Len(r) > 0,
         NEW s \in Slot, t = Append(r, s), Alike(p, p2, {s}),
         \A i \in 1..Len(r) : /\ r[i] # s /\ p[r[i]].state # NoPcb
                              /\ p[r[i]].pid < p2[s].pid,
         \A i, j \in 1..Len(r) : r[i] = r[j] => i = j,
         p2[s].ppid = InitPid \/ p2[s].ppid = p[r[1]].pid
  PROVE  Order(p2, t)
  <1> DEFINE n == Len(r)
  <1>1. /\ n \in Nat /\ n > 0 /\ Len(t) = n + 1 /\ t[n + 1] = s
        /\ \A i \in 1..n : t[i] = r[i] /\ r[i] \in Slot
    BY LenProperties, AppendProperties, ElementOfSeq
  <1>2. ASSUME NEW i \in 1..n
        PROVE  /\ p2[t[i]].pid = p[r[i]].pid /\ p2[t[i]].ppid = p[r[i]].ppid
               /\ Gone(p2, t[i]) <=> Gone(p, r[i])
               /\ p2[t[i]].pid < p2[s].pid /\ p2[t[i]].state # NoPcb
    BY <1>1 DEF Alike, Gone
  <1> HIDE DEF n
  <1> SUFFICES ASSUME NEW i \in 1..(n + 1), NEW j \in 1..(n + 1), NEW k \in 1..(n + 1),
                      Between(i, k, j), ~Gone(p2, t[i]), p2[t[i]].ppid = p2[t[j]].pid,
                      t[j] # InitProc
               PROVE  p2[t[j]].pid <= p2[t[k]].pid
    BY <1>1 DEF Order
  <1>3. t[i] \in Slot /\ t[j] \in Slot /\ t[k] \in Slot
    BY <1>1
  <1>4. p2[t[i]].ppid < p2[t[i]].pid
    BY <1>3 DEF Family, Gone
  <1>5. p2[t[i]].pid \in Nat /\ p2[t[j]].pid \in Nat /\ p2[t[k]].pid \in Nat /\ p2[s].pid \in Nat
    BY <1>3 DEF Pcb
  <1>6. \A m \in 1..(n + 1) : m = n + 1 \/ m \in 1..n
    BY <1>1
  <1>7. p2[t[i]].pid <= p2[s].pid /\ p2[t[k]].pid <= p2[s].pid
    BY <1>1, <1>2, <1>5, <1>6
  <1>8. j \in 1..n
    BY <1>1, <1>4, <1>5, <1>6, <1>7
  <1>9. CASE k = n + 1
    BY <1>1, <1>2, <1>5, <1>8, <1>9
  <1>10. CASE k \in 1..n /\ i \in 1..n
    BY <1>2, <1>8, <1>10 DEF Order, n
  <1>11. CASE k \in 1..n /\ i = n + 1
    <2>1. p2[t[j]].pid # InitPid
      BY <1>2, <1>3, <1>8, Names DEF Distinct, Family, NoPcb
    <2>2. 1 \in 1..n
      BY <1>1
    <2>3. p2[t[j]].pid = p2[t[1]].pid
      BY <1>1, <1>2, <1>11, <2>1, <2>2
    <2>4. t[j] = t[1]
      BY <1>1, <1>2, <1>8, <2>2, <2>3 DEF Distinct
    <2>5. j = 1
      BY <1>1, <1>8, <2>2, <2>4 DEF n
    <2>6. k = 1
      BY <1>1, <1>11, <2>5 DEF Between
    <2> QED BY <1>5, <2>5, <2>6
  <1> QED BY <1>6, <1>9, <1>10, <1>11

LEMMA OrderFree ==
  ASSUME NEW p, NEW p2, NEW r \in Seq(Slot), NEW t \in Seq(Slot), Order(p, r), Len(r) > 0,
         Len(t) = Len(r) - 1, \A i \in 1..Len(t) : t[i] = r[i + 1],
         \A i, j \in 1..Len(r) : r[i] = r[j] => i = j,
         Alike(p, p2, {r[1]})
  PROVE  Order(p2, t)
  <1>1. Len(r) \in Nat /\ Len(t) \in Nat
    BY LenProperties
  <1>2. ASSUME NEW i \in 1..Len(t)
        PROVE  /\ i + 1 \in 1..Len(r) /\ t[i] = r[i + 1]
               /\ p2[t[i]].pid = p[r[i + 1]].pid /\ p2[t[i]].ppid = p[r[i + 1]].ppid
               /\ Gone(p2, t[i]) <=> Gone(p, r[i + 1])
    <2>1. i + 1 \in 1..Len(r) /\ t[i] = r[i + 1] /\ 1 \in 1..Len(r) /\ i + 1 # 1
      BY <1>1
    <2>2. t[i] # r[1] /\ t[i] \in Slot
      BY <2>1, ElementOfSeq
    <2> QED BY <2>1, <2>2 DEF Alike, Gone
  <1> SUFFICES ASSUME NEW i \in 1..Len(t), NEW j \in 1..Len(t), NEW k \in 1..Len(t),
                      Between(i, k, j), ~Gone(p2, t[i]), p2[t[i]].ppid = p2[t[j]].pid,
                      t[j] # InitProc
               PROVE  p2[t[j]].pid <= p2[t[k]].pid
    BY DEF Order
  <1>3. Between(i + 1, k + 1, j + 1)
    BY <1>1 DEF Between
  <1>4. /\ i + 1 \in 1..Len(r) /\ j + 1 \in 1..Len(r) /\ k + 1 \in 1..Len(r)
        /\ ~Gone(p, r[i + 1]) /\ p[r[i + 1]].ppid = p[r[j + 1]].pid /\ r[j + 1] # InitProc
    BY <1>2
  <1>5. p[r[j + 1]].pid <= p[r[k + 1]].pid
    BY <1>3, <1>4 DEF Order
  <1> QED BY <1>2, <1>5

(* A process in front of a queue, and a queue taken apart.                  *)
LEMMA InFront ==
  ASSUME NEW S, NEW a \in S, NEW q \in Seq(S)
  PROVE  /\ <<a>> \o q \in Seq(S) /\ Len(<<a>> \o q) = Len(q) + 1
         /\ (<<a>> \o q)[1] = a
         /\ \A i \in 1..Len(q) : (<<a>> \o q)[i + 1] = q[i]
  <1>1. <<a>> \in Seq(S) /\ Len(<<a>>) = 1 /\ <<a>>[1] = a /\ Len(q) \in Nat
    BY LenProperties
  <1> DEFINE f == <<a>>
  <1> HIDE DEF f
  <1>2. /\ f \o q \in Seq(S) /\ Len(f \o q) = 1 + Len(q)
        /\ \A i \in 1..(1 + Len(q)) : (f \o q)[i] = IF i <= 1 THEN f[i] ELSE q[i - 1]
    BY <1>1, ConcatProperties DEF f
  <1>3. (f \o q)[1] = a
    BY <1>1, <1>2 DEF f
  <1>4. ASSUME NEW i \in 1..Len(q) PROVE (f \o q)[i + 1] = q[i]
    <2>1. i + 1 \in 1..(1 + Len(q)) /\ ~(i + 1 <= 1) /\ (i + 1) - 1 = i
      BY <1>1
    <2> QED BY <1>2, <2>1
  <1> QED BY <1>1, <1>2, <1>3, <1>4 DEF f

LEMMA TakenApart ==
  ASSUME NEW S, NEW q \in Seq(S), q # <<>>
  PROVE  <<Head(q)>> \o Tail(q) = q /\ Head(q) = q[1] /\ Head(q) \in S
  <1>1. /\ Head(q) \in S /\ Tail(q) \in Seq(S) /\ Len(Tail(q)) = Len(q) - 1
        /\ \A i \in 1..Len(Tail(q)) : Tail(q)[i] = q[i + 1]
    BY HeadTailProperties
  <1>2. Head(q) = q[1] /\ Len(q) \in Nat /\ Len(q) # 0
    BY LenProperties, EmptySeq
  <1> DEFINE h == Head(q)
             r == Tail(q)
  <1> HIDE DEF h, r
  <1>3. /\ <<h>> \o r \in Seq(S) /\ Len(<<h>> \o r) = Len(r) + 1
        /\ (<<h>> \o r)[1] = h
        /\ \A i \in 1..Len(r) : (<<h>> \o r)[i + 1] = r[i]
    BY <1>1, InFront DEF h, r
  <1> DEFINE t == <<h>> \o r
  <1> HIDE DEF t
  <1>4. ASSUME NEW i \in 1..Len(t) PROVE t[i] = q[i]
    <2>1. CASE i = 1
      BY <2>1, <1>2, <1>3 DEF t, h
    <2>2. CASE i # 1
      <3>1. i - 1 \in 1..Len(r) /\ (i - 1) + 1 = i
        BY <2>2, <1>1, <1>2, <1>3 DEF t, r
      <3>2. t[i] = r[i - 1] /\ r[i - 1] = q[i]
        <4>1. t[(i - 1) + 1] = r[i - 1]
          BY <3>1, <1>3 DEF t
        <4>2. r[i - 1] = q[(i - 1) + 1]
          BY <3>1, <1>1 DEF r
        <4> QED BY <3>1, <4>1, <4>2
      <3> QED BY <3>2
    <2> QED BY <2>1, <2>2
  <1>5. Len(t) = Len(q) /\ t \in Seq(S)
    BY <1>1, <1>2, <1>3 DEF t, r
  <1>6. t = q
    BY <1>4, <1>5, SeqEqual
  <1> QED BY <1>1, <1>2, <1>6 DEF t, h, r

LEMMA RingFacts ==
  ASSUME IInv
  PROVE  /\ Ring \in Seq(Slot)
         /\ \A i \in 1..Len(Ring) : pcb[Ring[i]].state # NoPcb /\ Ring[i] # Idle
         /\ \A i, j \in 1..Len(Ring) : Ring[i] = Ring[j] => i = j
         /\ \A s \in Slot : pcb[s].state # NoPcb /\ s # Idle =>
              \E i \in 1..Len(Ring) : Ring[i] = s
         /\ cur # Idle => /\ Len(Ring) = Len(queue) + 1 /\ Ring[1] = cur
                          /\ \A i \in 1..Len(queue) : Ring[i + 1] = queue[i]
         /\ cur = Idle => Ring = queue
         /\ Len(queue) \in Nat
  <1>1. /\ queue \in Seq(Slot) /\ Len(queue) \in Nat /\ cur \in Slot /\ pcb[cur].state # NoPcb
        /\ \A i, j \in 1..Len(queue) : queue[i] = queue[j] => i = j
        /\ \A s \in Slot : (\E i \in 1..Len(queue) : queue[i] = s) <=>
                             pcb[s].state # NoPcb /\ s # cur /\ s # Idle
        /\ \A i \in 1..Len(queue) : queue[i] \in Slot
    <2>1. cur \in LiveSet(pcb) /\ Lists(queue, LiveSet(pcb) \ {cur, Idle})
      BY DEF IInv, Core, Placed
    <2>2. queue \in Seq(Slot)
      BY <2>1 DEF Lists
    <2> QED BY <2>1, <2>2, LenProperties, ElementOfSeq DEF Lists, LiveSet
  <1>2. \A i \in 1..Len(queue) : /\ pcb[queue[i]].state # NoPcb
                                 /\ queue[i] # cur /\ queue[i] # Idle
    BY <1>1
  <1>3. CASE cur = Idle
    BY <1>1, <1>2, <1>3 DEF Ring
  <1>4. CASE cur # Idle
    <2> DEFINE r == Ring
    <2>1. /\ r \in Seq(Slot) /\ Len(r) = Len(queue) + 1 /\ r[1] = cur
          /\ \A i \in 1..Len(queue) : r[i + 1] = queue[i]
      BY <1>1, <1>4, InFront DEF Ring
    <2> HIDE DEF r
    <2>2. ASSUME NEW i \in 1..Len(r)
          PROVE  i = 1 \/ (i - 1 \in 1..Len(queue) /\ r[i] = queue[i - 1])
      <3>1. CASE i # 1
        <4>1. i - 1 \in 1..Len(queue) /\ (i - 1) + 1 = i
          BY <3>1, <1>1, <2>1
        <4>2. r[(i - 1) + 1] = queue[i - 1]
          BY <4>1, <2>1
        <4> QED BY <4>1, <4>2
      <3> QED BY <3>1
    <2>3. ASSUME NEW i \in 1..Len(r) PROVE pcb[r[i]].state # NoPcb /\ r[i] # Idle
      BY <1>1, <1>2, <1>4, <2>1, <2>2
    <2>4. ASSUME NEW i \in 1..Len(r), NEW j \in 1..Len(r), r[i] = r[j] PROVE i = j
      <3>1. CASE i = 1 \/ j = 1
        BY <3>1, <1>2, <2>1, <2>2, <2>4
      <3>2. CASE i # 1 /\ j # 1
        <4>1. i - 1 = j - 1
          BY <3>2, <1>1, <2>2, <2>4
        <4> QED BY <4>1, <1>1, <2>1
      <3> QED BY <3>1, <3>2
    <2>5. ASSUME NEW s \in Slot, pcb[s].state # NoPcb, s # Idle
          PROVE  \E i \in 1..Len(r) : r[i] = s
      <3>1. CASE s = cur
        <4>1. 1 \in 1..Len(r)
          BY <1>1, <2>1
        <4> QED BY <3>1, <4>1, <2>1
      <3>2. CASE s # cur
        <4>1. PICK i \in 1..Len(queue) : queue[i] = s
          BY <3>2, <2>5, <1>1
        <4>2. i + 1 \in 1..Len(r)
          BY <1>1, <2>1
        <4> QED BY <4>1, <4>2, <2>1
      <3> QED BY <3>1, <3>2
    <2> QED BY <1>1, <1>4, <2>1, <2>3, <2>4, <2>5 DEF r
  <1> QED BY <1>3, <1>4

(* The scheduler turns the ring.                                            *)
LEMMA RingTurns ==
  ASSUME IInv, IInv', pcb[InitProc].state # NoPcb, mode = "run",
         NEW k, NEW c, Stay(k) \/ Schedule(k, c)
  PROVE  Turned(Ring, Ring')
  <1>1. CASE UNCHANGED <<cur, queue>>
    BY <1>1 DEF Ring, Turned
  <1> DEFINE n == Len(queue)
  <1>2. /\ queue \in Seq(Slot) /\ n \in Nat /\ cur \in Slot
        /\ cur # Idle => /\ Len(Ring) = n + 1 /\ Ring[1] = cur
                         /\ \A i \in 1..n : Ring[i + 1] = queue[i]
        /\ cur = Idle => Ring = queue
        /\ Ring \in Seq(Slot) /\ Ring # <<>>
    <2>1. \E i \in 1..Len(Ring) : Ring[i] = InitProc
      BY RingFacts, Names
    <2>2. Ring # <<>>
      BY <2>1, EmptySeq
    <2> QED BY <2>2, RingFacts, IInvReachable
  <1> DEFINE R == Requeued
             r == Ring
  <1>3. R \in Seq(Slot) /\ R # <<>> /\ Turned(r, R)
    <2>1. CASE cur = Idle
      BY <2>1, <1>2 DEF Requeued, Turned
    <2>2. CASE cur # Idle
      <3>1. /\ R \in Seq(Slot) /\ Len(R) = n + 1 /\ R[n + 1] = cur
            /\ \A i \in 1..n : R[i] = queue[i]
        BY <2>2, <1>2, AppendProperties DEF Requeued
      <3>2. Len(r) = n + 1 /\ r[1] = cur /\ \A i \in 1..n : r[i + 1] = queue[i]
        BY <2>2, <1>2
      <3>3. R # <<>>
        BY <3>1, <1>2, EmptySeq
      <3> HIDE DEF r, R, n
      <3>4. (n + 1) - 1 = n /\ n + 1 > 0
        BY <1>2
      <3> QED BY <3>1, <3>2, <3>3, <3>4 DEF Turned
    <2> QED BY <2>1, <2>2
  <1>4. CASE SwitchToQueue(k, c)
    <2>1. cur' = Head(R) /\ queue' = Tail(R) /\ mode' = "scan"
      BY <1>4 DEF SwitchToQueue
    <2>2. cur' # Idle
      BY <2>1 DEF IInv, Core
    <2>3. <<Head(R)>> \o Tail(R) = R
      BY <1>3, TakenApart
    <2>4. Ring' = R
      BY <2>1, <2>2, <2>3 DEF Ring
    <2> QED BY <1>3, <2>4
  <1>5. CASE SwitchToIdle(k, c)
    <2>1. Ring' = R
      BY <1>5 DEF SwitchToIdle, Ring
    <2> QED BY <1>3, <2>1
  <1> QED BY <1>1, <1>4, <1>5 DEF Schedule, Stay, KeepRunning
-----------------------------------------------------------------------------
(* Steps.                                                                   *)

(* What OnlyDeadReaped says of a step.                                      *)
Reaped ==
  \A s \in Slot : pcb[s].state \in {"READY", "BLOCKED"} => pcb'[s].state # "TERMINATED"

(* A change of the table, and what the scheduler makes of it.               *)
LEMMA Moved ==
  ASSUME PInv, IInv', mode = "run",
         NEW k, NEW c, \/ Stay(k) /\ k.pcb[cur].state = "READY"
                       \/ Schedule(k, c),
         Bonds(k.pcb, k.sem, cont'),
         \A s \in Slot : /\ k.pcb[s].pid = pcb[s].pid
                         /\ Gone(pcb, s) => Gone(k.pcb, s)
                         /\ k.pcb[s].ppid = pcb[s].ppid \/ k.pcb[s].ppid = InitPid,
         \A s \in Slot : pcb[s].state \in {"READY", "BLOCKED"} => k.pcb[s].state # "TERMINATED"
  PROVE  PInv' /\ Reaped
  <1>1. pcb' = k.pcb /\ sem' = k.sem /\ (Stay(k) \/ Schedule(k, c))
    BY DEF Stay, Schedule, Commit
  <1>2. Reaped
    BY <1>1 DEF Reaped
  <1>3. Bonds(pcb, sem, cont)' /\ Bonds(pcb', sem', cont')
    BY <1>1
  <1>4. Order(pcb', Ring')
    <2> DEFINE r == Ring
               t == Ring'
               p == k.pcb
    <2>1. IInv /\ Family(pcb) /\ Order(pcb, r)
      BY DEF PInv, Bonds
    <2>2. pcb[InitProc].pid = InitPid /\ pcb[InitProc].state # NoPcb
      BY <2>1 DEF Family, NoPcb
    <2>3. r \in Seq(Slot) /\ \A i \in 1..Len(r) : pcb[r[i]].state # NoPcb
      BY <2>1, RingFacts
    <2>4. Turned(r, t)
      BY <1>1, <2>1, <2>2, RingTurns
    <2>5. Distinct(pcb)
      BY <2>1, Facts DEF Typed
    <2>6. Order(p, r)
      <3> HIDE DEF r, p
      <3>1. \A s \in Slot : /\ p[s].pid = pcb[s].pid
                            /\ Gone(pcb, s) => Gone(p, s)
                            /\ p[s].ppid = pcb[s].ppid \/ p[s].ppid = InitPid
        BY DEF p
      <3>2. Order(pcb, r)
        BY <2>1
      <3> QED BY <2>2, <2>3, <2>5, <3>1, <3>2, OrderKept
    <2> HIDE DEF r, t, p
    <2>7. Order(p, t)
      BY <2>3, <2>4, <2>6, OrderTurned
    <2> QED BY <2>7, <1>1 DEF t, p
  <1>5. Running'
    <2>1. CASE Stay(k) /\ k.pcb[cur].state = "READY"
      BY <2>1, <1>1 DEF Running, Stay
    <2>2. CASE KeepRunning(k, c)
      BY <2>2, <1>1 DEF Running, KeepRunning
    <2>3. CASE SwitchToQueue(k, c)
      BY <2>3 DEF Running, SwitchToQueue
    <2>4. CASE SwitchToIdle(k, c)
      <3>1. Good(K')
        BY DEF IInv, Core
      <3>2. K'.pcb = pcb'
        BY DEF K
      <3> QED BY <2>4, <3>1, <3>2 DEF Running, SwitchToIdle, Good, IdleOK
    <2> QED BY <2>1, <2>2, <2>3, <2>4 DEF Schedule
  <1> QED BY <1>2, <1>3, <1>4, <1>5 DEF PInv

LEMMA SetStateFacts ==
  ASSUME NEW k, k.pcb \in [Slot -> Pcb], NEW s \in Slot, NEW state
  PROVE  /\ Alike(k.pcb, SetState(k, s, state).pcb, {s})
         /\ SetState(k, s, state).sem = k.sem
         /\ SetState(k, s, state).pcb[s].state = state
         /\ SetState(k, s, state).pcb[s].pid = k.pcb[s].pid
         /\ SetState(k, s, state).pcb[s].ppid = k.pcb[s].ppid
  <1> DEFINE l == SetState(k, s, state)
  <1>1. l.pcb = [k.pcb EXCEPT ![s].state = state] /\ l.sem = k.sem
    BY DEF SetState
  <1>2. l.pcb[s] = [k.pcb[s] EXCEPT !.state = state] /\ k.pcb[s] \in Pcb
    BY <1>1
  <1>3. \A t \in Slot \ {s} : l.pcb[t] = k.pcb[t]
    BY <1>1
  <1> QED BY <1>1, <1>2, <1>3 DEF Alike, Pcb

(* semPost counts the unit if nobody waits, or wakes who waits first.       *)
PostCounts(k, x) ==
  /\ Len(sem[x].waiters) = 0 /\ k.pcb = pcb
  /\ SameWaiters(sem, k.sem) /\ k.sem[x].value = sem[x].value + 1
PostWakes(k, x, w) ==
  /\ pcb[w].state = "BLOCKED" /\ cont[w] = WaitingAt(x)
  /\ Alike(pcb, k.pcb, {w}) /\ k.pcb[w].state = "READY"
  /\ k.pcb[w].pid = pcb[w].pid /\ k.pcb[w].ppid = pcb[w].ppid
  /\ SameValues(sem, k.sem, {}) /\ Sleepers(k.pcb, k.sem, cont) /\ Once(k.sem)

LEMMA PostFacts ==
  ASSUME IInv, Bonds(pcb, sem, cont), NEW x \in Sem
  PROVE  /\ SameValues(sem, Post(K, x).sem, {x})
         /\ Post(K, x).pcb \in [Slot -> Pcb]
         /\ \/ PostCounts(Post(K, x), x)
            \/ \E w \in Slot : PostWakes(Post(K, x), x, w)
  <1> DEFINE waiters == sem[x].waiters
             H == Handover(K, x)
             k == Post(K, x)
  <1>1. /\ Typed(pcb, sem, cont) /\ K.pcb = pcb /\ K.sem = sem
        /\ Sleepers(pcb, sem, cont) /\ Once(sem)
        /\ \A s \in Slot : pcb[s].state # NoPcb => s = Idle \/ Visible(s)
        /\ pcb[Idle].state = "READY" /\ Reachable(K)
    BY Facts, IInvReachable DEF Bonds, IdleOK
  <1>2. /\ pcb \in [Slot -> Pcb] /\ sem \in [Sem -> Semaphore]
        /\ waiters \in Seq(Nat) /\ Len(waiters) \in Nat /\ sem[x].value \in Nat
    BY <1>1, LenProperties DEF Typed, Semaphore
  <1>3. ASSUME NEW i \in 1..Len(waiters)
        PROVE  /\ Resumable(K, waiters[i]) # {}
               /\ \A w \in Resumable(K, waiters[i]) :
                    /\ w \in Slot /\ pcb[w].pid = waiters[i]
                    /\ pcb[w].state = "BLOCKED" /\ cont[w] = WaitingAt(x)
    <2>1. PICK v \in Slot : pcb[v].state = "BLOCKED" /\ pcb[v].pid = waiters[i]
      BY <1>1 DEF Sleepers
    <2>2. Visible(v)
      BY <2>1, <1>1 DEF NoPcb
    <2>3. v \in Resumable(K, waiters[i])
      BY <2>1, <2>2, <1>1 DEF Resumable, Accepts
    <2>4. ASSUME NEW w \in Resumable(K, waiters[i])
          PROVE  /\ w \in Slot /\ pcb[w].pid = waiters[i]
                 /\ pcb[w].state = "BLOCKED" /\ cont[w] = WaitingAt(x)
      <3>1. w \in Slot /\ Visible(w) /\ pcb[w].pid = waiters[i]
        BY <1>1 DEF Resumable
      <3>2. pcb[w].state # NoPcb
        BY <3>1, <1>1 DEF Reachable
      <3> QED BY <1>1, <3>1, <3>2, Sleeping
    <2> QED BY <2>3, <2>4
  <1>4. H = 1..Len(waiters)
    BY <1>1, <1>3 DEF Handover
  <1>5. CASE Len(waiters) = 0
    <2>1. H = {}
      BY <1>4, <1>5
    <2>2. k = WithSem(K, x, NewSem(sem[x].value + 1))
      BY <2>1, <1>1 DEF Post
    <2>3. k.pcb = pcb /\ k.sem = [sem EXCEPT ![x] = NewSem(sem[x].value + 1)]
      BY <2>2, <1>1 DEF WithSem
    <2>4. waiters = <<>>
      BY <1>2, <1>5, EmptySeq
    <2>5. /\ k.sem[x].value = sem[x].value + 1 /\ k.sem[x].waiters = waiters
          /\ \A y \in Sem \ {x} : k.sem[y] = sem[y]
      BY <2>3, <2>4, <1>2 DEF NewSem
    <2> HIDE DEF k
    <2>6. SameValues(sem, k.sem, {x})
      BY <2>5, Names DEF SameValues
    <2>7. PostCounts(k, x)
      BY <1>5, <2>3, <2>5 DEF PostCounts, SameWaiters
    <2> QED BY <1>2, <2>3, <2>6, <2>7 DEF k
  <1>6. CASE Len(waiters) # 0
    <2>1. 1 \in H /\ H # {} /\ \A j \in H : 1 <= j
      <3> DEFINE n == Len(waiters)
      <3>1. n \in Nat /\ n # 0 /\ H = 1..n
        BY <1>2, <1>4, <1>6
      <3> HIDE DEF n, H
      <3> QED BY <3>1
    <2>2. FirstOf(H) = 1
      <3>1. H \in SUBSET Nat
        BY <1>4
      <3>2. FirstOf(H) \in H
        BY <3>1, <2>1, FirstOfInSet
      <3>3. \A j \in H : FirstOf(H) <= j
        BY <2>1 DEF FirstOf
      <3> QED BY <2>1, <3>1, <3>2, <3>3
    <2> DEFINE rest == [value |-> sem[x].value, waiters |-> SubSeq(waiters, 2, Len(waiters))]
               w == CHOOSE s \in Resumable(K, waiters[1]) : TRUE
               l == WithSem(K, x, rest)
    <2>3. k = SetState(l, w, "READY")
      BY <2>1, <2>2, <1>1 DEF Post
    <2>4. w \in Slot /\ pcb[w].pid = waiters[1] /\ pcb[w].state = "BLOCKED" /\ cont[w] = WaitingAt(x)
      <3>1. 1 \in 1..Len(waiters)
        BY <1>2, <1>6
      <3>2. w \in Resumable(K, waiters[1])
        BY <3>1, <1>3
      <3> QED BY <1>3, <3>1, <3>2
    <2>5. l.pcb = pcb /\ l.sem = [sem EXCEPT ![x] = rest]
      BY <1>1 DEF WithSem
    <2>6. /\ Len(rest.waiters) = Len(waiters) - 1
          /\ \A i \in 1..Len(rest.waiters) : rest.waiters[i] = waiters[i + 1]
      <3>1. waiters # <<>>
        BY <1>6, EmptySeq
      <3>2. rest.waiters = Tail(waiters)
        BY <1>2, <3>1, TailIsSubSeq
      <3> QED BY <1>2, <3>1, <3>2, HeadTailProperties
    <2>7. rest.value = sem[x].value
      OBVIOUS
    <2> HIDE DEF w, l, rest, k
    <2>8. /\ Alike(pcb, k.pcb, {w}) /\ k.pcb[w].state = "READY" /\ k.sem = l.sem
          /\ k.pcb[w].pid = pcb[w].pid /\ k.pcb[w].ppid = pcb[w].ppid
      <3> DEFINE m == SetState(l, w, "READY")
      <3>1. l.pcb \in [Slot -> Pcb]
        BY <1>2, <2>5
      <3>2. /\ Alike(l.pcb, m.pcb, {w}) /\ m.sem = l.sem /\ m.pcb[w].state = "READY"
            /\ m.pcb[w].pid = l.pcb[w].pid /\ m.pcb[w].ppid = l.pcb[w].ppid
        <4>1. w \in Slot
          BY <2>4
        <4> QED BY <4>1, <3>1, SetStateFacts DEF Alike
      <3>3. k = m
        BY <2>3
      <3> HIDE DEF m
      <3> QED BY <3>2, <3>3, <2>5
    <2>9. /\ k.sem[x] = rest /\ \A y \in Sem \ {x} : k.sem[y] = sem[y]
      BY <1>2, <2>5, <2>8
    <2>10. SameValues(sem, k.sem, {})
      BY <2>7, <2>9, Names DEF SameValues
    <2>11. Sleepers(k.pcb, k.sem, cont) /\ Once(k.sem)
      <3> DEFINE p2 == k.pcb
                 q2 == k.sem
      <3>1. /\ \A s \in Slot : s # w => (p2[s].state = "BLOCKED" <=> pcb[s].state = "BLOCKED")
            /\ \A s \in Slot : pcb[s].state = "BLOCKED" =>
                 p2[s].pid = pcb[s].pid /\ cont[s] = cont[s]
            /\ p2[w].state # "BLOCKED"
        BY <2>8 DEF Alike
      <3>2. /\ Len(q2[x].waiters) = Len(sem[x].waiters) - 1
            /\ \A i \in 1..Len(q2[x].waiters) : q2[x].waiters[i] = sem[x].waiters[i + 1]
            /\ \A y \in Sem \ {x} : q2[y].waiters = sem[y].waiters
        BY <2>6, <2>9
      <3>3. Len(sem[x].waiters) > 0 /\ sem[x].waiters[1] = pcb[w].pid
        BY <1>2, <1>6, <2>4
      <3> HIDE DEF p2, q2
      <3>4. Sleepers(p2, q2, cont) /\ Once(q2)
        BY <1>1, <2>4, <3>1, <3>2, <3>3, SleepersWake
      <3> QED BY <3>4 DEF p2, q2
    <2>12. PostWakes(k, x, w)
      BY <2>4, <2>8, <2>10, <2>11 DEF PostWakes
    <2>13. SameValues(sem, k.sem, {x})
      BY <2>10 DEF SameValues
    <2>14. k.pcb \in [Slot -> Pcb]
      <3>1. k.pcb = [pcb EXCEPT ![w].state = "READY"]
        BY <2>3, <2>5 DEF SetState
      <3> QED BY <3>1, <1>2, <2>4 DEF Pcb, State
    <2> QED BY <2>4, <2>12, <2>13, <2>14 DEF k
  <1> QED BY <1>5, <1>6

LEMMA PFacts ==
  ASSUME PInv
  PROVE  /\ IInv /\ Bonds(pcb, sem, cont) /\ Typed(pcb, sem, cont)
         /\ K.pcb = pcb /\ K.sem = sem
         /\ pcb \in [Slot -> Pcb] /\ sem \in [Sem -> Semaphore]
         /\ cur \in Slot /\ pcb[cur].state # NoPcb
         /\ \A s \in Slot : pcb[s].state # NoPcb => s = Idle \/ Visible(s)
         /\ \A s \in Slot : Visible(s) => pcb[s].state # NoPcb
         /\ pcb[Idle].state = "READY" /\ pcb[Idle].pid = 1
         /\ mode = "run" => pcb[cur].state = "READY"
  BY Facts, IInvReachable DEF PInv, Running, IdleOK, IdlePid, Typed

(* The scheduler alone.                                                     *)
LEMMA QuietMove ==
  ASSUME PInv, IInv', mode = "run", NEW c, Schedule(K, c), UNCHANGED cont
  PROVE  PInv' /\ Reaped
  <1>1. Bonds(K.pcb, K.sem, cont')
    BY PFacts
  <1>2. \A s \in Slot : /\ K.pcb[s].pid = pcb[s].pid
                        /\ Gone(pcb, s) => Gone(K.pcb, s)
                        /\ K.pcb[s].ppid = pcb[s].ppid \/ K.pcb[s].ppid = InitPid
    BY PFacts
  <1>3. \A s \in Slot : pcb[s].state \in {"READY", "BLOCKED"} => K.pcb[s].state # "TERMINATED"
    BY PFacts
  <1> QED BY <1>1, <1>2, <1>3, Moved

(* Nothing but what the scheduler counts, priorities or pids to come.       *)
LEMMA StillMove ==
  ASSUME PInv, IInv', UNCHANGED <<queue, cur, sem, cont>>,
         \A s \in Slot : /\ pcb'[s].state = pcb[s].state /\ pcb'[s].pid = pcb[s].pid
                         /\ pcb'[s].ppid = pcb[s].ppid,
         mode' = "run" => pcb[cur].state = "READY"
  PROVE  PInv' /\ Reaped
  <1> DEFINE p == pcb'
             r == Ring
  <1>1. IInv /\ Bonds(pcb, sem, cont) /\ Order(pcb, r) /\ r \in Seq(Slot) /\ cur \in Slot
    BY PFacts, RingFacts DEF PInv
  <1>2. Alike(pcb, p, {})
    BY DEF Alike
  <1>3. \A s \in Slot : /\ p[s].pid = pcb[s].pid /\ p[s].ppid = pcb[s].ppid
                        /\ Gone(p, s) <=> Gone(pcb, s)
    BY DEF Gone
  <1> HIDE DEF p, r
  <1>4. Bonds(p, sem, cont)
    <2>1. SameWaiters(sem, sem) /\ SameValues(sem, sem, {})
      BY DEF SameWaiters, SameValues
    <2> QED BY <1>1, <1>2, <2>1, BondsQuiet
  <1>5. Order(p, r)
    <2>1. \A i \in 1..Len(r) : r[i] \in Slot
      BY <1>1, ElementOfSeq
    <2> QED BY <1>1, <1>3, <2>1 DEF Order
  <1>6. Ring' = r
    BY DEF Ring, r
  <1>7. Running' /\ Reaped
    BY <1>1 DEF Running, Reaped
  <1> QED BY <1>4, <1>5, <1>6, <1>7 DEF PInv, p

(* A unit of a user semaphore is taken.                                     *)
LEMMA TakeUserMove ==
  ASSUME PInv, IInv', mode = "run", UNCHANGED cont, NEW x \in UserSem, Stay(Take(x))
  PROVE  PInv' /\ Reaped
  <1> DEFINE k == Take(x)
  <1>1. k.pcb = pcb /\ k.sem = [sem EXCEPT ![x] = [sem[x] EXCEPT !.value = @ - 1]]
    BY PFacts DEF Take, WithSem
  <1>2. x \in Sem /\ \A s \in Slot : s # x
    BY Names
  <1>3. SameWaiters(sem, k.sem) /\ SameValues(sem, k.sem, {})
    <2>1. \A y \in Sem : y # x => k.sem[y] = sem[y]
      BY <1>1, PFacts
    <2>2. k.sem[x].waiters = sem[x].waiters
      <3>1. sem[x] \in Semaphore /\ k.sem[x] = [sem[x] EXCEPT !.value = @ - 1]
        BY <1>1, <1>2, PFacts
      <3> QED BY <3>1 DEF Semaphore
    <2> QED BY <2>1, <2>2, <1>2, Names DEF SameWaiters, SameValues
  <1> HIDE DEF k
  <1>4. Bonds(k.pcb, k.sem, cont')
    <2>1. Alike(pcb, pcb, {})
      BY DEF Alike
    <2> QED BY <1>1, <1>3, <2>1, PFacts, BondsQuiet
  <1>5. \A s \in Slot : /\ k.pcb[s].pid = pcb[s].pid
                        /\ Gone(pcb, s) => Gone(k.pcb, s)
                        /\ k.pcb[s].ppid = pcb[s].ppid \/ k.pcb[s].ppid = InitPid
    BY <1>1
  <1>6. /\ k.pcb[cur].state = "READY" /\ Stay(k)
        /\ \A s \in Slot : pcb[s].state \in {"READY", "BLOCKED"} => k.pcb[s].state # "TERMINATED"
    BY <1>1, PFacts DEF k
  <1> QED BY <1>4, <1>5, <1>6, Moved

(* A unit is posted on a user semaphore.                                    *)
LEMMA PostUserMove ==
  ASSUME PInv, IInv', mode = "run", UNCHANGED cont, NEW x \in UserSem, Stay(Post(K, x))
  PROVE  PInv' /\ Reaped
  <1> DEFINE k == Post(K, x)
  <1>1. x \in Sem /\ x \notin Slot /\ Stay(k)
    BY Names
  <1>2. SameValues(sem, k.sem, {x}) /\ (PostCounts(k, x) \/ \E w \in Slot : PostWakes(k, x, w))
    BY <1>1, PFacts, PostFacts
  <1> HIDE DEF k
  <1>3. CASE PostCounts(k, x)
    <2>1. k.pcb = pcb /\ SameWaiters(sem, k.sem) /\ SameValues(sem, k.sem, {})
      BY <1>1, <1>2, <1>3 DEF PostCounts, SameValues
    <2>2. Bonds(k.pcb, k.sem, cont')
      <3>1. Alike(pcb, pcb, {})
        BY DEF Alike
      <3> QED BY <2>1, <3>1, PFacts, BondsQuiet
    <2>3. \A s \in Slot : /\ k.pcb[s].pid = pcb[s].pid
                          /\ Gone(pcb, s) => Gone(k.pcb, s)
                          /\ k.pcb[s].ppid = pcb[s].ppid \/ k.pcb[s].ppid = InitPid
      BY <2>1
    <2>4. /\ k.pcb[cur].state = "READY"
          /\ \A s \in Slot : pcb[s].state \in {"READY", "BLOCKED"} => k.pcb[s].state # "TERMINATED"
      BY <2>1, PFacts
    <2> QED BY <1>1, <2>2, <2>3, <2>4, Moved
  <1>4. CASE \E w \in Slot : PostWakes(k, x, w)
    <2>1. PICK w \in Slot : PostWakes(k, x, w)
      BY <1>4
    <2>2. /\ pcb[w].state = "BLOCKED" /\ cont[w] = InUser
          /\ Alike(pcb, k.pcb, {w}) /\ k.pcb[w].state = "READY"
          /\ k.pcb[w].pid = pcb[w].pid /\ k.pcb[w].ppid = pcb[w].ppid
          /\ SameValues(sem, k.sem, {}) /\ Sleepers(k.pcb, k.sem, cont) /\ Once(k.sem)
      BY <1>1, <2>1 DEF PostWakes, WaitingAt
    <2>3. Bonds(k.pcb, k.sem, cont')
      BY <2>2, PFacts, BondsWake DEF Alike
    <2>4. \A s \in Slot : /\ k.pcb[s].pid = pcb[s].pid
                          /\ Gone(pcb, s) => Gone(k.pcb, s)
                          /\ k.pcb[s].ppid = pcb[s].ppid \/ k.pcb[s].ppid = InitPid
      BY <2>2 DEF Alike, Gone, NoPcb
    <2>5. /\ k.pcb[cur].state = "READY"
          /\ \A s \in Slot : pcb[s].state \in {"READY", "BLOCKED"} => k.pcb[s].state # "TERMINATED"
      BY <2>2, PFacts DEF Alike
    <2> QED BY <1>1, <2>3, <2>4, <2>5, Moved
  <1> QED BY <1>2, <1>3, <1>4

(* The running process goes to sleep on x.                                  *)
LEMMA BlockMove ==
  ASSUME PInv, IInv', mode = "run", NEW x \in Sem, cont[cur] = InUser, cur # Idle,
         Schedule(SetState(Enlist(x), cur, "BLOCKED"), cycles),
         \A v \in Slot : v # cur => cont'[v] = cont[v], cont'[cur] = WaitingAt(x),
         x \in Slot => /\ pcb[x].ppid = pcb[cur].pid /\ pcb[x].state \in {"READY", "BLOCKED"}
                       /\ sem[x].value = 0
  PROVE  PInv' /\ Reaped
  <1> DEFINE l == Enlist(x)
             k == SetState(l, cur, "BLOCKED")
             s2 == [sem[x] EXCEPT !.waiters = Append(@, pcb[cur].pid)]
  <1>1. l.pcb = pcb /\ l.sem = [sem EXCEPT ![x] = s2]
    BY PFacts DEF Enlist, WithSem
  <1>2. s2.value = sem[x].value /\ s2.waiters = Append(sem[x].waiters, pcb[cur].pid)
    <2>1. sem[x] \in Semaphore
      BY PFacts
    <2> QED BY <2>1 DEF Semaphore
  <1> HIDE DEF s2
  <1>3. l.sem[x] = s2 /\ \A y \in Sem \ {x} : l.sem[y] = sem[y]
    BY <1>1, PFacts
  <1> HIDE DEF l
  <1>4. /\ Alike(pcb, k.pcb, {cur}) /\ k.sem = l.sem /\ k.pcb[cur].state = "BLOCKED"
        /\ k.pcb[cur].pid = pcb[cur].pid /\ k.pcb[cur].ppid = pcb[cur].ppid
    <2>1. l.pcb \in [Slot -> Pcb] /\ cur \in Slot
      BY <1>1, PFacts
    <2> QED BY <1>1, <2>1, SetStateFacts DEF Alike
  <1>5. Schedule(k, cycles)
    BY DEF l
  <1> HIDE DEF k
  <1>6. SameValues(sem, k.sem, {})
    BY <1>2, <1>3, <1>4, Names DEF SameValues
  <1>7. /\ k.sem[x].waiters = Append(sem[x].waiters, pcb[cur].pid)
        /\ \A y \in Sem \ {x} : k.sem[y].waiters = sem[y].waiters
    BY <1>2, <1>3, <1>4
  <1> DEFINE c2 == cont'
  <1>8. c2[cur] = WaitingAt(x) /\ \A v \in Slot : v # cur => c2[v] = cont[v]
    OBVIOUS
  <1>9. /\ Typed(pcb, sem, cont) /\ Bonds(pcb, sem, cont) /\ cur \in Slot
        /\ pcb[cur].state = "READY"
    BY PFacts
  <1> HIDE DEF c2
  <1>10. Bonds(k.pcb, k.sem, c2)
    BY <1>4, <1>6, <1>7, <1>8, <1>9, BondsBlock DEF Alike
  <1>11. \A s \in Slot : /\ k.pcb[s].pid = pcb[s].pid
                         /\ Gone(pcb, s) => Gone(k.pcb, s)
                         /\ k.pcb[s].ppid = pcb[s].ppid \/ k.pcb[s].ppid = InitPid
    BY <1>4, <1>9 DEF Alike, Gone, NoPcb
  <1>12. \A s \in Slot : pcb[s].state \in {"READY", "BLOCKED"} => k.pcb[s].state # "TERMINATED"
    BY <1>4 DEF Alike
  <1> QED BY <1>5, <1>10, <1>11, <1>12, Moved DEF c2

(* The running process exits: the unit goes to its parent or is counted.    *)
LEMMA ExitMove ==
  ASSUME PInv, IInv', mode = "run", UNCHANGED cont, cont[cur] = InUser,
         cur # Idle, cur # InitProc, Schedule(ChangeState(K, cur, "EXITED"), cycles)
  PROVE  PInv' /\ Reaped
  <1> DEFINE m == Post(K, cur)
             k == SetState(m, cur, "EXITED")
  <1>1. Schedule(k, cycles)
    BY DEF ChangeState
  <1>2. /\ SameValues(sem, m.sem, {cur}) /\ m.pcb \in [Slot -> Pcb]
        /\ PostCounts(m, cur) \/ \E w \in Slot : PostWakes(m, cur, w)
    <2>1. cur \in Sem
      BY PFacts, Names
    <2> QED BY <2>1, PFacts, PostFacts
  <1> HIDE DEF m
  <1>3. /\ Alike(m.pcb, k.pcb, {cur}) /\ k.sem = m.sem /\ k.pcb[cur].state = "EXITED"
        /\ k.pcb[cur].pid = m.pcb[cur].pid /\ k.pcb[cur].ppid = m.pcb[cur].ppid
    BY <1>2, PFacts, SetStateFacts DEF Alike
  <1> HIDE DEF k
  <1>4. /\ Typed(pcb, sem, cont) /\ Bonds(pcb, sem, cont) /\ cur \in Slot /\ cur \in Sem
        /\ pcb[cur].state = "READY" /\ sem[cur].value = 0
    <2>1. sem[cur].value \in Nat
      BY PFacts, Names DEF Semaphore
    <2>2. pcb[cur].state = "READY" /\ Exits(pcb, sem, cont)
      BY PFacts DEF Bonds
    <2>3. ~(sem[cur].value > 0)
      BY <2>2, PFacts DEF Exits
    <2> QED BY <2>1, <2>2, <2>3, PFacts, Names
  <1>5. CASE PostCounts(m, cur)
    <2>1. /\ Alike(pcb, k.pcb, {cur}) /\ SameWaiters(sem, k.sem) /\ SameValues(sem, k.sem, {cur})
          /\ k.pcb[cur].pid = pcb[cur].pid /\ k.pcb[cur].ppid = pcb[cur].ppid
          /\ Len(sem[cur].waiters) = 0 /\ k.sem[cur].value = 1
      BY <1>2, <1>3, <1>4, <1>5 DEF PostCounts
    <2>2. Bonds(k.pcb, k.sem, cont')
      BY <1>3, <1>4, <2>1, BondsExit DEF Alike, SameValues
    <2>3. \A s \in Slot : /\ k.pcb[s].pid = pcb[s].pid
                          /\ Gone(pcb, s) => Gone(k.pcb, s)
                          /\ k.pcb[s].ppid = pcb[s].ppid \/ k.pcb[s].ppid = InitPid
      BY <1>4, <2>1 DEF Alike, Gone, NoPcb
    <2>4. \A s \in Slot : pcb[s].state \in {"READY", "BLOCKED"} => k.pcb[s].state # "TERMINATED"
      BY <1>3, <2>1 DEF Alike
    <2> QED BY <1>1, <2>2, <2>3, <2>4, Moved
  <1>6. CASE \E w \in Slot : PostWakes(m, cur, w)
    <2>1. PICK w \in Slot : PostWakes(m, cur, w)
      BY <1>6
    <2>2. /\ pcb[w].state = "BLOCKED" /\ cont[w] = Returning(cur) /\ w # cur
          /\ Alike(pcb, m.pcb, {w}) /\ m.pcb[w].state = "READY"
          /\ m.pcb[w].pid = pcb[w].pid /\ m.pcb[w].ppid = pcb[w].ppid
          /\ SameValues(sem, m.sem, {}) /\ Sleepers(m.pcb, m.sem, cont) /\ Once(m.sem)
      BY <1>4, <2>1 DEF PostWakes, WaitingAt
    <2>3. /\ Alike(pcb, k.pcb, {cur, w})
          /\ k.pcb[cur].pid = pcb[cur].pid /\ k.pcb[cur].ppid = pcb[cur].ppid
          /\ k.pcb[w].pid = pcb[w].pid /\ k.pcb[w].ppid = pcb[w].ppid /\ k.pcb[w].state = "READY"
      BY <1>3, <1>4, <2>2 DEF Alike
    <2>4. Sleepers(k.pcb, k.sem, cont) /\ Once(k.sem)
      <3>1. \A s \in Slot : k.pcb[s].state = "BLOCKED" <=> m.pcb[s].state = "BLOCKED"
        BY <1>3, <1>4, <2>2 DEF Alike
      <3>2. \A s \in Slot : m.pcb[s].state = "BLOCKED" => k.pcb[s].pid = m.pcb[s].pid
        BY <1>3 DEF Alike
      <3>3. k.sem = m.sem /\ Sleepers(m.pcb, m.sem, cont) /\ Once(m.sem)
        BY <1>3, <2>2
      <3>4. Sleepers(k.pcb, m.sem, cont)
        <4>1. Sleepers(m.pcb, m.sem, cont)
          BY <3>3
        <4> QED BY <3>1, <3>2, <4>1 DEF Sleepers
      <3> QED BY <3>3, <3>4
    <2>5. SameValues(sem, k.sem, {})
      BY <1>3, <2>2 DEF SameValues
    <2>6. Bonds(k.pcb, k.sem, cont')
      BY <1>3, <1>4, <2>2, <2>3, <2>4, <2>5, BondsExitWake DEF Alike
    <2>7. \A s \in Slot : /\ k.pcb[s].pid = pcb[s].pid
                          /\ Gone(pcb, s) => Gone(k.pcb, s)
                          /\ k.pcb[s].ppid = pcb[s].ppid \/ k.pcb[s].ppid = InitPid
      BY <1>4, <2>2, <2>3 DEF Alike, Gone, NoPcb
    <2>8. \A s \in Slot : pcb[s].state \in {"READY", "BLOCKED"} => k.pcb[s].state # "TERMINATED"
      BY <1>3, <2>3 DEF Alike
    <2> QED BY <1>1, <2>6, <2>7, <2>8, Moved
  <1> QED BY <1>2, <1>5, <1>6

(* The last process of the queue is never looked at, and never matters: a   *)
(* parent between its own dead child and a grandchild would be younger than *)
(* that child.                                                              *)
LEMMA ChildrenVisited ==
  ASSUME PInv, cur # Idle, NEW t \in Slot, pcb[t].state = "EXITED",
         pcb[t].ppid = pcb[cur].pid,
         NEW s \in Slot, ~Gone(pcb, s), pcb[s].ppid = pcb[t].pid
  PROVE  Visited(s)
  <1> DEFINE r == Ring
             n == Len(queue)
  <1>1. /\ IInv /\ Order(pcb, r) /\ Family(pcb) /\ pcb \in [Slot -> Pcb] /\ cur \in Slot
        /\ pcb[Idle].state = "READY" /\ pcb[Idle].pid = 1
        /\ Distinct(pcb)
    BY PFacts DEF PInv, Bonds, Typed
  <1>2. /\ \A v \in Slot : pcb[v].state # NoPcb /\ v # Idle => \E i \in 1..Len(r) : r[i] = v
        /\ Len(r) = n + 1 /\ r[1] = cur /\ \A i \in 1..n : r[i + 1] = queue[i]
        /\ n \in Nat
    BY <1>1, RingFacts
  <1> HIDE DEF r
  <1>3. /\ pcb[s].state # NoPcb /\ pcb[t].state # NoPcb /\ t # Idle /\ t # InitProc
    BY <1>1 DEF Gone, NoPcb, Family
  <1>4. /\ pcb[s].pid \in Nat /\ pcb[t].pid \in Nat /\ pcb[cur].pid \in Nat
        /\ pcb[t].ppid < pcb[t].pid /\ pcb[s].ppid < pcb[s].pid
    BY <1>1, <1>3 DEF Family, Pcb
  <1>5. s # Idle
    <2>1. pcb[t].pid > 0
      BY <1>1, <1>3, Facts
    <2>2. pcb[Idle].ppid = 0
      BY <1>1, Facts DEF IdleOK
    <2> QED BY <2>1, <2>2
  <1>6. PICK i \in 1..Len(r) : r[i] = s
    BY <1>2, <1>3, <1>5
  <1>7. PICK j \in 1..Len(r) : r[j] = t
    BY <1>2, <1>3
  <1>8. CASE i = 1
    BY <1>2, <1>6, <1>8 DEF Visited
  <1>9. CASE i # 1 /\ i # n + 1
    <2>1. i - 1 \in 1..(n - 1) /\ i - 1 \in 1..n /\ (i - 1) + 1 = i
      BY <1>2, <1>6, <1>9
    <2>2. queue[i - 1] = s
      <3>1. r[(i - 1) + 1] = queue[i - 1]
        BY <1>2, <2>1
      <3> QED BY <2>1, <3>1, <1>6
    <2> QED BY <2>1, <2>2 DEF Visited
  <1>10. CASE i = n + 1
    <2>1. j # n + 1
      BY <1>4, <1>6, <1>7, <1>10
    <2>2. 1 \in 1..Len(r) /\ Between(i, 1, j)
      BY <1>2, <1>7, <1>10, <2>1 DEF Between
    <2>3. pcb[r[j]].pid <= pcb[r[1]].pid
      <3>1. ~Gone(pcb, r[i]) /\ pcb[r[i]].ppid = pcb[r[j]].pid /\ r[j] # InitProc
        BY <1>3, <1>6, <1>7
      <3> QED BY <1>1, <2>2, <3>1 DEF Order
    <2>4. pcb[t].pid <= pcb[cur].pid
      BY <2>3, <1>2, <1>7
    <2> QED BY <2>4, <1>4
  <1> QED BY <1>8, <1>9, <1>10

(* The running process reaps its child t.                                   *)
LEMMA ReapMove ==
  ASSUME PInv, IInv', mode = "run", cur # Idle,
         NEW t \in Slot, pcb[t].state = "EXITED", pcb[t].ppid = pcb[cur].pid,
         NEW l, l.pcb = pcb, SameWaiters(sem, l.sem), SameValues(sem, l.sem, {t}),
         l.sem[t].value = 0, Stay(TryChangeState(l, t, "TERMINATED")),
         cont[cur] = InUser \/ cont[cur] = Returning(t),
         \A v \in Slot : v # cur => cont'[v] = cont[v], cont'[cur] = InUser
  PROVE  PInv' /\ Reaped
  <1> DEFINE m == SendTaskToInit(l, t)
             k == SetState(m, t, "TERMINATED")
  <1>1. Stay(k)
    BY DEF TryChangeState, Accepts, ChangeState
  <1>2. /\ Typed(pcb, sem, cont) /\ Bonds(pcb, sem, cont) /\ cur \in Slot
        /\ pcb[cur].state = "READY" /\ pcb \in [Slot -> Pcb] /\ t # cur
        /\ pcb[cur].state # NoPcb
    BY PFacts DEF NoPcb
  <1>3. pcb[cur].pid >= InitPid
    <2>1. pcb[cur].pid \in Nat /\ pcb[cur].pid # 1 /\ pcb[cur].pid > 0
      <3>1. pcb[Idle].state # NoPcb /\ pcb[Idle].pid = 1 /\ Idle \in Slot
        BY PFacts, Names DEF NoPcb
      <3>2. pcb[cur].pid # 1
        BY <1>2, <3>1 DEF Typed, Distinct
      <3>3. pcb[cur].pid > 0
        BY <1>2, PFacts, Facts
      <3> QED BY <1>2, <3>2, <3>3 DEF Pcb
    <2> QED BY <2>1 DEF InitPid
  <1>4. /\ m.sem = l.sem /\ m.pcb \in [Slot -> Pcb]
        /\ \A s \in Slot : m.pcb[s].pid = pcb[s].pid /\ m.pcb[s].state = pcb[s].state
        /\ \A s \in Slot : \/ m.pcb[s].ppid = pcb[s].ppid
                           \/ m.pcb[s].ppid = InitPid /\ (s = t \/ pcb[s].ppid = pcb[t].pid)
        /\ \A s \in Slot : ~Gone(pcb, s) /\ pcb[s].ppid = pcb[t].pid =>
                             m.pcb[s].ppid = InitPid
    <2>1. m.sem = l.sem /\ m.pcb = [s \in Slot |-> m.pcb[s]]
      BY DEF SendTaskToInit
    <2>2. \A s \in Slot : \/ m.pcb[s] = pcb[s]
                          \/ /\ m.pcb[s] = [pcb[s] EXCEPT !.ppid = InitPid]
                             /\ s = t \/ pcb[s].ppid = pcb[t].pid
      BY DEF SendTaskToInit
    <2>3. \A s \in Slot : ~Gone(pcb, s) /\ pcb[s].ppid = pcb[t].pid =>
                            m.pcb[s] = [pcb[s] EXCEPT !.ppid = InitPid]
      <3> SUFFICES ASSUME NEW s \in Slot, ~Gone(pcb, s), pcb[s].ppid = pcb[t].pid
                   PROVE  m.pcb[s] = [pcb[s] EXCEPT !.ppid = InitPid]
        OBVIOUS
      <3>1. Visited(s) /\ pcb[s].state # "TERMINATED"
        BY ChildrenVisited DEF Gone
      <3> QED BY <3>1 DEF SendTaskToInit
    <2> HIDE DEF m
    <2>4. ASSUME NEW s \in Slot
          PROVE  /\ [pcb[s] EXCEPT !.ppid = InitPid] \in Pcb
                 /\ [pcb[s] EXCEPT !.ppid = InitPid].pid = pcb[s].pid
                 /\ [pcb[s] EXCEPT !.ppid = InitPid].state = pcb[s].state
                 /\ [pcb[s] EXCEPT !.ppid = InitPid].ppid = InitPid
      BY <1>2 DEF Pcb, InitPid
    <2>5. \A s \in Slot : /\ m.pcb[s] \in Pcb
                          /\ m.pcb[s].pid = pcb[s].pid /\ m.pcb[s].state = pcb[s].state
      BY <1>2, <2>2, <2>4
    <2>6. \A s \in Slot : \/ m.pcb[s].ppid = pcb[s].ppid
                          \/ m.pcb[s].ppid = InitPid /\ (s = t \/ pcb[s].ppid = pcb[t].pid)
      BY <2>2, <2>4
    <2>7. \A s \in Slot : ~Gone(pcb, s) /\ pcb[s].ppid = pcb[t].pid =>
                            m.pcb[s].ppid = InitPid
      BY <2>3, <2>4
    <2>8. m.pcb \in [Slot -> Pcb]
      BY <2>1, <2>5
    <2> QED BY <2>1, <2>5, <2>6, <2>7, <2>8
  <1> HIDE DEF m
  <1>5. /\ Alike(m.pcb, k.pcb, {t}) /\ k.sem = m.sem /\ k.pcb[t].state = "TERMINATED"
        /\ k.pcb[t].pid = m.pcb[t].pid /\ k.pcb[t].ppid = m.pcb[t].ppid
    BY <1>4, SetStateFacts DEF Alike
  <1> HIDE DEF k
  <1>6. Adopts(pcb, k.pcb, t)
    BY <1>4, <1>5 DEF Adopts, Alike
  <1>7. SameWaiters(sem, k.sem) /\ SameValues(sem, k.sem, {t}) /\ k.sem[t].value = 0
    BY <1>4, <1>5
  <1> DEFINE c2 == cont'
  <1>8. c2[cur] = InUser /\ \A v \in Slot : v # cur => c2[v] = cont[v]
    OBVIOUS
  <1> HIDE DEF c2
  <1>9. Bonds(k.pcb, k.sem, c2)
    BY <1>2, <1>3, <1>6, <1>7, <1>8, BondsReap DEF SameValues
  <1>10. \A s \in Slot : /\ k.pcb[s].pid = pcb[s].pid
                         /\ Gone(pcb, s) => Gone(k.pcb, s)
                         /\ k.pcb[s].ppid = pcb[s].ppid \/ k.pcb[s].ppid = InitPid
    BY <1>6 DEF Adopts, Gone, NoPcb
  <1>11. /\ k.pcb[cur].state = "READY"
         /\ \A s \in Slot : pcb[s].state \in {"READY", "BLOCKED"} => k.pcb[s].state # "TERMINATED"
    BY <1>2, <1>6 DEF Adopts
  <1> QED BY <1>1, <1>9, <1>10, <1>11, Moved DEF c2
-----------------------------------------------------------------------------
(* One lemma for each action.                                               *)

LEMMA Caller ==
  ASSUME PInv, NEW call, Calling(call)
  PROVE  /\ call \in Calls /\ mode = "run" /\ cur # Idle /\ cur # InitProc
         /\ cont[cur] = InUser /\ pcb[cur].state = "READY" /\ Accepts(K, cur, "BLOCKED")
  BY PFacts DEF Calling, Accepts

LEMMA TickMove == ASSUME PInv, IInv', Tick PROVE PInv' /\ Reaped
  BY QuietMove DEF Tick, InterruptsOn

LEMMA YieldMove == ASSUME PInv, IInv', Yield PROVE PInv' /\ Reaped
  BY QuietMove DEF Yield, Calling

LEMMA InitSleepMove == ASSUME PInv, IInv', InitSleep PROVE PInv' /\ Reaped
  BY QuietMove DEF InitSleep, InitRuns

LEMMA StartTaskFailsMove == ASSUME PInv, IInv', StartTaskFails PROVE PInv' /\ Reaped
  <1>1. pcb[cur].state = "READY" /\ UNCHANGED <<pcb, queue, cur, sem, cont>>
    BY Caller DEF StartTaskFails
  <1> QED BY <1>1, StillMove

LEMMA NiceMove == ASSUME PInv, IInv', Nice PROVE PInv' /\ Reaped
  <1>1. pcb[cur].state = "READY" /\ UNCHANGED <<queue, cur, sem, cont>>
    BY Caller DEF Nice
  <1>2. PICK t \in Slot, prio \in 0..MaxPrio : pcb' = [pcb EXCEPT ![t].prio = prio]
    BY DEF Nice
  <1>3. \A s \in Slot : /\ pcb'[s].state = pcb[s].state /\ pcb'[s].pid = pcb[s].pid
                        /\ pcb'[s].ppid = pcb[s].ppid
    <2>1. \A s \in Slot : pcb[s] \in Pcb
      BY PFacts
    <2>2. \A s \in Slot : pcb'[s] = IF s = t THEN [pcb[s] EXCEPT !.prio = prio] ELSE pcb[s]
      BY <1>2, PFacts
    <2> QED BY <2>1, <2>2 DEF Pcb
  <1> QED BY <1>1, <1>3, StillMove

LEMMA ScanRunMove == ASSUME PInv, IInv', ScanRun PROVE PInv' /\ Reaped
  <1>1. pcb[cur].state = "READY" /\ UNCHANGED <<pcb, queue, cur, sem, cont>>
    BY DEF ScanRun
  <1> QED BY <1>1, StillMove

LEMMA ExitStepMove == ASSUME PInv, IInv', Exit PROVE PInv' /\ Reaped
  BY Caller, ExitMove DEF Exit

LEMMA SemWaitMove == ASSUME PInv, IInv', SemWait PROVE PInv' /\ Reaped
  <1>1. /\ mode = "run" /\ cur # Idle /\ cont[cur] = InUser /\ UNCHANGED cont
        /\ Accepts(K, cur, "BLOCKED")
    BY Caller DEF SemWait
  <1>2. PICK x \in UserSem :
          \/ Stay(Take(x))
          \/ Schedule(SetState(Enlist(x), cur, "BLOCKED"), cycles)
    BY <1>1 DEF SemWait
  <1>3. x \in Sem /\ x \notin Slot
    BY Names
  <1>4. CASE Stay(Take(x))
    BY <1>1, <1>4, TakeUserMove
  <1>5. CASE Schedule(SetState(Enlist(x), cur, "BLOCKED"), cycles)
    <2>1. cont'[cur] = WaitingAt(x) /\ \A v \in Slot : v # cur => cont'[v] = cont[v]
      BY <1>1, <1>3 DEF WaitingAt
    <2> QED BY <1>1, <1>3, <1>5, <2>1, BlockMove
  <1> QED BY <1>2, <1>4, <1>5

LEMMA SemPostMove == ASSUME PInv, IInv', SemPost PROVE PInv' /\ Reaped
  BY Caller, PostUserMove DEF SemPost

(* The unit of an exit is there to be taken.                                *)
LEMMA TakeExit ==
  ASSUME PInv, NEW t \in Slot, sem[t].value > 0
  PROVE  /\ pcb[t].state = "EXITED" /\ Take(t).pcb = pcb
         /\ SameWaiters(sem, Take(t).sem) /\ SameValues(sem, Take(t).sem, {t})
         /\ Take(t).sem[t].value = 0
  <1>1. t \in Sem /\ sem[t] \in Semaphore
    BY PFacts, Names
  <1>2. pcb[t].state = "EXITED" /\ sem[t].value = 1
    <2>1. Exits(pcb, sem, cont)
      BY PFacts DEF Bonds
    <2> QED BY <2>1 DEF Exits
  <1>3. Take(t).pcb = pcb /\ Take(t).sem = [sem EXCEPT ![t] = [sem[t] EXCEPT !.value = @ - 1]]
    BY PFacts DEF Take, WithSem
  <1> DEFINE q == Take(t).sem
  <1>4. q[t] = [sem[t] EXCEPT !.value = @ - 1] /\ \A y \in Sem : y # t => q[y] = sem[y]
    BY <1>1, <1>3, PFacts
  <1> HIDE DEF q
  <1>5. q[t].waiters = sem[t].waiters /\ q[t].value = 0
    BY <1>1, <1>2, <1>4 DEF Semaphore
  <1>6. SameWaiters(sem, q) /\ SameValues(sem, q, {t})
    BY <1>4, <1>5, Names DEF SameWaiters, SameValues
  <1> QED BY <1>2, <1>3, <1>5, <1>6 DEF q

LEMMA WaitpidMove ==
  ASSUME Disciplined, PInv, IInv', Waitpid
  PROVE  PInv' /\ Reaped
  <1>1. PICK t \in Slot :
          /\ MayWait(t)
          /\ \/ /\ sem[t].value > 0
                /\ Stay(TryChangeState(Take(t), t, "TERMINATED"))
                /\ UNCHANGED cont
             \/ /\ sem[t].value = 0
                /\ Accepts(K, cur, "BLOCKED")
                /\ Schedule(SetState(Enlist(t), cur, "BLOCKED"), cycles)
                /\ cont' = [cont EXCEPT ![cur] = [at |-> "waitpid", child |-> t]]
             \/ sem[t].value = 0 /\ ~Accepts(K, cur, "BLOCKED")
    BY DEF Waitpid
  <1>2. /\ mode = "run" /\ cur # Idle /\ cont[cur] = InUser /\ Accepts(K, cur, "BLOCKED")
        /\ pcb[cur].state # NoPcb /\ cur \in Slot
    BY <1>1, Caller, PFacts DEF MayWait
  <1>3. /\ pcb[t].ppid = pcb[cur].pid /\ pcb[t].state # "TERMINATED" /\ pcb[t].state # NoPcb
        /\ pcb[t].state \in State
    <2>1. "waitany" \notin Calls /\ "rewait" \notin Calls
      BY DEF Disciplined
    <2>2. pcb[t] \in Pcb
      BY PFacts
    <2> QED BY <1>1, <2>1, <2>2, PFacts DEF MayWait, Pcb
  <1>4. CASE /\ sem[t].value > 0
             /\ Stay(TryChangeState(Take(t), t, "TERMINATED"))
             /\ UNCHANGED cont
    <2> DEFINE l == Take(t)
    <2>1. /\ pcb[t].state = "EXITED" /\ l.pcb = pcb /\ SameWaiters(sem, l.sem)
          /\ SameValues(sem, l.sem, {t}) /\ l.sem[t].value = 0
      BY <1>4, TakeExit DEF SameValues
    <2>2. Stay(TryChangeState(l, t, "TERMINATED"))
      BY <1>4
    <2> HIDE DEF l
    <2> QED BY <1>2, <1>3, <1>4, <2>1, <2>2, ReapMove DEF SameValues
  <1>5. CASE /\ sem[t].value = 0
             /\ Schedule(SetState(Enlist(t), cur, "BLOCKED"), cycles)
             /\ cont' = [cont EXCEPT ![cur] = [at |-> "waitpid", child |-> t]]
    <2>1. pcb[t].state # "EXITED"
      <3> SUFFICES ASSUME pcb[t].state = "EXITED" PROVE FALSE
        OBVIOUS
      <3>1. Exits(pcb, sem, cont) /\ Waits(pcb, sem, cont) /\ Typed(pcb, sem, cont)
        BY PFacts DEF Bonds
      <3>2. PICK w \in Slot : cont[w] = Returning(t)
        BY <1>5, <3>1 DEF Exits
      <3>3. cont[w] # InUser /\ cont[w].child = t
        BY <3>2 DEF Returning, InUser
      <3>4. w = cur
        BY <1>2, <1>3, <3>1, <3>3, OneWaiter
      <3> QED BY <1>2, <3>3, <3>4
    <2>2. pcb[t].state \in {"READY", "BLOCKED"}
      BY <1>3, <2>1 DEF State
    <2>3. cont'[cur] = WaitingAt(t) /\ \A v \in Slot : v # cur => cont'[v] = cont[v]
      <3>1. cont \in Cont
        BY PFacts DEF IInv
      <3> QED BY <1>2, <1>5, <3>1 DEF Cont, WaitingAt, Returning
    <2>4. t \in Sem
      BY Names
    <2> QED BY <1>2, <1>3, <1>5, <2>2, <2>3, <2>4, BlockMove
  <1> QED BY <1>1, <1>2, <1>4, <1>5

(* Who comes back from waitpid finds the child it waited for, dead.         *)
LEMMA Child ==
  ASSUME PInv, mode = "run", cont[cur] # InUser, NEW t, t = cont[cur].child
  PROVE  /\ t \in Slot /\ pcb[t].state = "EXITED" /\ pcb[t].ppid = pcb[cur].pid
         /\ \/ cont[cur] = Returning(t) /\ sem[t].value = 0
            \/ cont[cur].at = "reap" /\ cur = InitProc
         /\ ReadPid(t) = {pcb[t].pid}
         /\ {s \in Slot : Visible(s) /\ pcb[s].pid = pcb[t].pid} = {t}
         /\ cur # Idle
  <1>1. Waits(pcb, sem, cont) /\ Typed(pcb, sem, cont) /\ cur \in Slot /\ pcb[cur].state = "READY"
    BY PFacts DEF Bonds
  <1>2. WaitsForChild(pcb, sem, cont, cur)
    BY <1>1 DEF Waits
  <1>3. /\ t \in Slot /\ pcb[t].state = "EXITED" /\ pcb[t].ppid = pcb[cur].pid
        /\ \/ cont[cur] = Returning(t) /\ sem[t].value = 0
           \/ cont[cur].at = "reap" /\ cur = InitProc
    BY <1>1, <1>2 DEF WaitsForChild
  <1>4. pcb[t].state # NoPcb /\ Visible(t)
    BY <1>3, PFacts DEF NoPcb
  <1>5. ReadPid(t) = {pcb[t].pid}
    BY <1>4 DEF ReadPid, Live
  <1>6. \A s \in Slot : Visible(s) /\ pcb[s].pid = pcb[t].pid <=> s = t
    BY <1>1, <1>3, <1>4, PFacts DEF Typed, Distinct
  <1>7. cur # Idle
    BY PFacts, Facts
  <1> QED BY <1>3, <1>5, <1>6, <1>7

LEMMA WaitpidReturnMove == ASSUME PInv, IInv', WaitpidReturn PROVE PInv' /\ Reaped
  <1> DEFINE t == cont[cur].child
  <1>1. mode = "run" /\ cont[cur].at = "waitpid" /\ cont' = [cont EXCEPT ![cur] = InUser]
    BY DEF WaitpidReturn
  <1>2. cont[cur] # InUser
    BY <1>1 DEF InUser
  <1>3. /\ t \in Slot /\ pcb[t].state = "EXITED" /\ pcb[t].ppid = pcb[cur].pid
        /\ cont[cur] = Returning(t) /\ sem[t].value = 0
        /\ ReadPid(t) = {pcb[t].pid}
        /\ {s \in Slot : Visible(s) /\ pcb[s].pid = pcb[t].pid} = {t} /\ cur # Idle
    BY <1>1, <1>2, Child
  <1>4. \E pid \in ReadPid(t) :
          LET found == {s \in Slot : Visible(s) /\ pcb[s].pid = pid}
          IN  \/ found = {} /\ Stay(K)
              \/ \E s \in found : Stay(TryChangeState(K, s, "TERMINATED"))
    BY DEF WaitpidReturn
  <1>5. Stay(TryChangeState(K, t, "TERMINATED"))
    BY <1>3, <1>4
  <1>6. cont'[cur] = InUser /\ \A v \in Slot : v # cur => cont'[v] = cont[v]
    <2>1. cont \in Cont /\ cur \in Slot
      BY PFacts DEF IInv
    <2> QED BY <1>1, <2>1 DEF Cont
  <1> HIDE DEF t
  <1>7. SameWaiters(sem, K.sem) /\ SameValues(sem, K.sem, {t}) /\ K.pcb = pcb /\ K.sem[t].value = 0
    BY <1>3, PFacts DEF SameWaiters, SameValues
  <1> QED BY <1>1, <1>3, <1>5, <1>6, <1>7, ReapMove DEF SameValues

LEMMA InitFindMove ==
  ASSUME NEW s \in Slot, PInv, IInv', InitFind(s)
  PROVE  PInv' /\ Reaped
  <1>1. /\ mode = "run" /\ cur = InitProc /\ cont[cur].at = "user"
        /\ pcb[s].ppid = InitPid /\ pcb[s].state = "EXITED"
        /\ cont' = [cont EXCEPT ![cur] = [at |-> "reap", child |-> s]]
        /\ UNCHANGED <<pcb, queue, cur, mode, cycles, readyCount, sem>>
    BY DEF InitFind, InitRuns
  <1>2. /\ Typed(pcb, sem, cont) /\ Bonds(pcb, sem, cont) /\ pcb[InitProc].state = "READY"
        /\ pcb[s].ppid = pcb[InitProc].pid
    BY <1>1, PFacts DEF Bonds, Family
  <1>3. cont[InitProc] = InUser
    <2>1. WaitsForChild(pcb, sem, cont, InitProc) \/ cont[InitProc] = InUser
      BY <1>2, Names DEF Bonds, Waits
    <2> QED BY <1>1, <2>1 DEF WaitsForChild, Returning
  <1> DEFINE c2 == cont'
  <1>4. /\ c2[InitProc] = [at |-> "reap", child |-> s]
        /\ \A v \in Slot : v # InitProc => c2[v] = cont[v]
    <2>1. cont \in Cont /\ InitProc \in Slot
      BY PFacts, Names DEF IInv
    <2> QED BY <1>1, <2>1 DEF Cont
  <1> HIDE DEF c2
  <1>5. Bonds(pcb, sem, c2)
    <2>1. SameWaiters(sem, sem) /\ SameValues(sem, sem, {s})
      BY DEF SameWaiters, SameValues
    <2>2. \/ cont[InitProc] = InUser /\ c2[InitProc] = [at |-> "reap", child |-> s]
             /\ sem[s].value = sem[s].value
          \/ cont[InitProc].at = "reap" /\ c2[InitProc] = Returning(s) /\ sem[s].value = 0
      BY <1>3, <1>4
    <2>3. pcb[s].state = "EXITED"
      BY <1>1
    <2> QED BY <1>2, <1>4, <2>1, <2>2, <2>3, BondsFind DEF SameValues
  <1>6. Stay(K) /\ K.pcb = pcb /\ K.sem = sem
    BY <1>1 DEF Stay, Commit, K
  <1>7. \A v \in Slot : /\ K.pcb[v].pid = pcb[v].pid
                        /\ Gone(pcb, v) => Gone(K.pcb, v)
                        /\ K.pcb[v].ppid = pcb[v].ppid \/ K.pcb[v].ppid = InitPid
    BY <1>6
  <1>8. /\ K.pcb[cur].state = "READY"
        /\ \A v \in Slot : pcb[v].state \in {"READY", "BLOCKED"} => K.pcb[v].state # "TERMINATED"
    BY <1>1, <1>2, <1>6
  <1>9. Bonds(K.pcb, K.sem, cont')
    BY <1>5, <1>6 DEF c2
  <1> QED BY <1>1, <1>6, <1>7, <1>8, <1>9, Moved

LEMMA InitWaitMove == ASSUME PInv, IInv', InitWait PROVE PInv' /\ Reaped
  <1> DEFINE t == cont[cur].child
             l == Take(t)
  <1>1. mode = "run" /\ cur = InitProc /\ cont[cur].at = "reap"
    BY DEF InitWait, InitRuns
  <1>2. cont[cur] # InUser
    BY <1>1 DEF InUser
  <1>3. /\ t \in Slot /\ pcb[t].state = "EXITED" /\ pcb[t].ppid = pcb[cur].pid
        /\ ReadPid(t) = {pcb[t].pid}
        /\ {s \in Slot : Visible(s) /\ pcb[s].pid = pcb[t].pid} = {t}
    BY <1>1, <1>2, Child
  <1>4. \E pid \in ReadPid(t) :
          LET found == {s \in Slot : Visible(s) /\ pcb[s].pid = pid}
          IN  \/ found = {}
              \/ \E s \in found :
                   /\ sem[s].value > 0 /\ Stay(Take(s))
                   /\ cont' = [cont EXCEPT ![cur] = [at |-> "waitpid", child |-> s]]
              \/ \E s \in found : sem[s].value = 0
    BY DEF InitWait
  <1>5. \/ /\ sem[t].value > 0 /\ Stay(l)
           /\ cont' = [cont EXCEPT ![cur] = [at |-> "waitpid", child |-> t]]
        \/ sem[t].value = 0
    BY <1>3, <1>4
  <1> HIDE DEF t
  <1>6. /\ Typed(pcb, sem, cont) /\ Bonds(pcb, sem, cont) /\ cur \in Slot
        /\ pcb[cur].state = "READY"
    BY <1>1, PFacts
  <1>7. sem[t].value > 0
    <2> SUFFICES ASSUME ~(sem[t].value > 0) PROVE FALSE
      OBVIOUS
    <2>1. Waits(pcb, sem, cont) /\ Exits(pcb, sem, cont)
      BY <1>6 DEF Bonds
    <2>2. PICK w \in Slot : cont[w] = Returning(t)
      BY <1>3, <2>1 DEF Exits
    <2>3. cont[w] # InUser /\ cont[w].child = t /\ cont[w].at # "reap"
      BY <2>2 DEF Returning, InUser
    <2>4. w = cur
      BY <1>3, <1>6, <2>1, <2>3, OneWaiter DEF NoPcb
    <2> QED BY <1>1, <2>3, <2>4
  <1>8. /\ Stay(l)
        /\ cont' = [cont EXCEPT ![cur] = [at |-> "waitpid", child |-> t]]
    BY <1>5, <1>7
  <1>9. /\ l.pcb = pcb /\ SameWaiters(sem, l.sem) /\ SameValues(sem, l.sem, {t})
        /\ l.sem[t].value = 0
    BY <1>3, <1>7, TakeExit DEF SameValues
  <1> HIDE DEF l
  <1> DEFINE c2 == cont'
  <1>10. c2[InitProc] = Returning(t) /\ \A v \in Slot : v # InitProc => c2[v] = cont[v]
    <2>1. cont \in Cont
      BY PFacts DEF IInv
    <2> QED BY <1>1, <1>6, <1>8, <2>1 DEF Cont, Returning
  <1> HIDE DEF c2
  <1>11. Bonds(pcb, l.sem, c2)
    <2>1. cont[InitProc].at = "reap" /\ pcb[InitProc].state = "READY"
          /\ pcb[t].ppid = pcb[InitProc].pid
      BY <1>1, <1>3, <1>6
    <2>2. /\ Typed(pcb, sem, cont) /\ Bonds(pcb, sem, cont) /\ t \in Slot
          /\ pcb[t].state = "EXITED"
      BY <1>3, <1>6
    <2>3. \/ cont[InitProc] = InUser /\ c2[InitProc] = [at |-> "reap", child |-> t]
             /\ l.sem[t].value = sem[t].value
          \/ cont[InitProc].at = "reap" /\ c2[InitProc] = Returning(t) /\ l.sem[t].value = 0
      BY <1>9, <1>10, <2>1
    <2>4. /\ SameWaiters(sem, l.sem) /\ SameValues(sem, l.sem, {t})
          /\ \A v \in Slot : v # InitProc => c2[v] = cont[v]
      BY <1>9, <1>10
    <2> QED BY <2>1, <2>2, <2>3, <2>4, BondsFind DEF SameValues
  <1>12. \A v \in Slot : /\ l.pcb[v].pid = pcb[v].pid
                         /\ Gone(pcb, v) => Gone(l.pcb, v)
                         /\ l.pcb[v].ppid = pcb[v].ppid \/ l.pcb[v].ppid = InitPid
    BY <1>9
  <1>13. /\ l.pcb[cur].state = "READY"
         /\ \A v \in Slot : pcb[v].state \in {"READY", "BLOCKED"} => l.pcb[v].state # "TERMINATED"
    BY <1>6, <1>9
  <1>14. Bonds(l.pcb, l.sem, cont')
    BY <1>9, <1>11 DEF c2
  <1> QED BY <1>1, <1>8, <1>12, <1>13, <1>14, Moved

LEMMA ScanSkipMove == ASSUME PInv, IInv', ScanSkip PROVE PInv' /\ Reaped
  <1> DEFINE r == Ring
             t == Append(queue, cur)
             n == Len(queue)
  <1>1. /\ mode = "scan" /\ mode' = "scan" /\ UNCHANGED <<pcb, sem, cont>>
        /\ cur' = Head(t) /\ queue' = Tail(t)
    BY DEF ScanSkip
  <1>2. /\ IInv /\ Bonds(pcb, sem, cont) /\ Order(pcb, r) /\ cur \in Slot /\ queue \in Seq(Slot)
        /\ cur # Idle /\ cur' # Idle
    BY <1>1, PFacts, IInvReachable DEF PInv, IInv, Core
  <1>3. /\ r \in Seq(Slot) /\ n \in Nat /\ Len(r) = n + 1 /\ r[1] = cur
        /\ \A i \in 1..n : r[i + 1] = queue[i]
    BY <1>2, RingFacts
  <1>4. /\ t \in Seq(Slot) /\ Len(t) = n + 1 /\ t[n + 1] = cur /\ \A i \in 1..n : t[i] = queue[i]
    BY <1>2, AppendProperties
  <1>5. t # <<>>
    BY <1>3, <1>4, EmptySeq
  <1>6. Ring' = t
    <2>1. <<Head(t)>> \o Tail(t) = t
      BY <1>4, <1>5, TakenApart
    <2> QED BY <1>1, <1>2, <2>1 DEF Ring
  <1> HIDE DEF r, t, n
  <1>7. Turned(r, t)
    <2>1. (n + 1) - 1 = n /\ n + 1 > 0
      BY <1>3
    <2> QED BY <1>3, <1>4, <2>1 DEF Turned
  <1>8. Order(pcb, t)
    BY <1>2, <1>3, <1>7, OrderTurned
  <1>9. Running' /\ Reaped
    BY <1>1 DEF Running, Reaped
  <1>10. Bonds(pcb, sem, cont)' /\ Order(pcb, Ring)'
    BY <1>1, <1>2, <1>6, <1>8
  <1> QED BY <1>9, <1>10 DEF PInv

(* Freeing a process wakes nobody, and nobody had it as a parent.           *)
LEMMA ScanFreeMove == ASSUME PInv, IInv', ScanFree PROVE PInv' /\ Reaped
  <1> DEFINE p2 == [pcb EXCEPT ![cur] = FreePcb]
             q2 == [sem EXCEPT ![cur] = NewSem(0)]
             c2 == [cont EXCEPT ![cur] = InUser]
             r == Ring
             n == Len(queue)
  <1>1. /\ mode = "scan" /\ mode' = "scan" /\ pcb[cur].state = "TERMINATED"
        /\ Commit(Freed(cur)) /\ cont' = c2 /\ cur' = Head(queue) /\ queue' = Tail(queue)
    BY DEF ScanFree
  <1>2. /\ IInv /\ Typed(pcb, sem, cont) /\ Bonds(pcb, sem, cont) /\ Order(pcb, r)
        /\ cur \in Slot /\ cur \in Sem /\ queue \in Seq(Slot) /\ cur # Idle /\ cur' # Idle
        /\ pcb \in [Slot -> Pcb] /\ sem \in [Sem -> Semaphore] /\ cont \in Cont
    BY <1>1, PFacts, IInvReachable, Names DEF PInv, IInv, Core
  <1>3. sem[cur].value = 0 /\ sem[cur].waiters = <<>>
    <2>1. Gone(pcb, cur)
      BY <1>1 DEF Gone
    <2> QED BY <1>2, <2>1, NobodyAtGone
  <1>4. pcb' = p2 /\ sem' = q2
    <2>1. Handover(K, cur) = {}
      <3>1. K.sem[cur].waiters = <<>>
        BY <1>3, PFacts
      <3>2. 1..Len(<<>>) = {}
        BY EmptySeq
      <3> QED BY <3>1, <3>2 DEF Handover
    <2> DEFINE k == WithSem(K, cur, NewSem(K.sem[cur].value + 1))
    <2>2. k.pcb = pcb /\ k.sem = [sem EXCEPT ![cur] = NewSem(K.sem[cur].value + 1)]
      BY PFacts DEF WithSem
    <2>3. Post(K, cur) = k
      BY <2>1 DEF Post
    <2> HIDE DEF k
    <2>4. /\ Freed(cur).pcb = [k.pcb EXCEPT ![cur] = FreePcb]
          /\ Freed(cur).sem = [k.sem EXCEPT ![cur] = NewSem(0)]
      BY <1>3, <2>3 DEF Freed
    <2>5. [k.sem EXCEPT ![cur] = NewSem(0)] = q2
      BY <1>2, <2>2
    <2> QED BY <1>1, <2>2, <2>4, <2>5 DEF Commit
  <1>5. /\ Alike(pcb, p2, {cur}) /\ p2[cur].state = NoPcb
        /\ SameValues(sem, q2, {cur}) /\ q2[cur].value = 0 /\ q2[cur].waiters = <<>>
        /\ \A x \in Sem \ {cur} : q2[x].waiters = sem[x].waiters
        /\ \A v \in Slot : v # cur => c2[v] = cont[v]
        /\ c2[cur] = InUser
    <2>1. p2[cur] = FreePcb /\ \A v \in Slot : v # cur => p2[v] = pcb[v]
      BY <1>2
    <2>2. q2[cur] = NewSem(0) /\ \A x \in Sem : x # cur => q2[x] = sem[x]
      BY <1>2
    <2>3. c2[cur] = InUser /\ \A v \in Slot : v # cur => c2[v] = cont[v]
      BY <1>2 DEF Cont
    <2> HIDE DEF p2, q2, c2
    <2> QED BY <2>1, <2>2, <2>3, Names DEF Alike, SameValues, FreePcb, NewSem
  <1>6. /\ r \in Seq(Slot) /\ n \in Nat /\ Len(r) = n + 1 /\ r[1] = cur
        /\ \A i \in 1..n : r[i + 1] = queue[i]
        /\ \A i, j \in 1..Len(r) : r[i] = r[j] => i = j
        /\ \A s \in Slot : pcb[s].state # NoPcb /\ s # Idle => \E i \in 1..Len(r) : r[i] = s
    BY <1>2, RingFacts
  <1> HIDE DEF p2, q2, c2, r
  <1>7. Bonds(p2, q2, c2)
    BY <1>1, <1>2, <1>5, BondsFree DEF Alike, SameValues
  <1>8. queue # <<>>
    <2>1. InitProc \in Slot /\ pcb[InitProc].state # NoPcb /\ InitProc # Idle /\ InitProc # cur
      BY <1>1, <1>2, Names DEF Bonds, Family, NoPcb
    <2>2. PICK i \in 1..Len(r) : r[i] = InitProc
      BY <1>6, <2>1
    <2>3. n # 0
      <3> HIDE DEF n
      <3> QED BY <1>6, <2>1, <2>2
    <2> QED BY <2>3, EmptySeq
  <1>9. Ring' = queue
    <2>1. <<Head(queue)>> \o Tail(queue) = queue
      BY <1>2, <1>8, TakenApart
    <2> QED BY <1>1, <1>2, <2>1 DEF Ring
  <1>10. Order(p2, queue)
    <2>1. Len(queue) = Len(r) - 1 /\ Len(r) > 0 /\ \A i \in 1..Len(queue) : queue[i] = r[i + 1]
      BY <1>6
    <2>2. Alike(pcb, p2, {r[1]})
      BY <1>5, <1>6
    <2>3. /\ r \in Seq(Slot) /\ queue \in Seq(Slot) /\ Order(pcb, r)
          /\ \A i, j \in 1..Len(r) : r[i] = r[j] => i = j
      BY <1>2, <1>6
    <2> HIDE DEF n
    <2> QED BY <2>1, <2>2, <2>3, OrderFree
  <1>11. Running' /\ Reaped
    <2>1. Running'
      BY <1>1 DEF Running
    <2>2. \A s \in Slot : pcb[s].state \in {"READY", "BLOCKED"} => p2[s].state # "TERMINATED"
      BY <1>5 DEF Alike, NoPcb
    <2> QED BY <1>4, <2>1, <2>2 DEF Reaped
  <1>12. Bonds(pcb, sem, cont)' /\ Order(pcb, Ring)'
    BY <1>1, <1>4, <1>7, <1>9, <1>10
  <1> QED BY <1>11, <1>12 DEF PInv

(* The new process is the youngest and the last of the ring.                *)
LEMMA StartTaskMove == ASSUME PInv, IInv', StartTask PROVE PInv' /\ Reaped
  <1> DEFINE n == pidCounter
             r == Ring
             p2 == pcb'
  <1>1. PICK s \in Slot, fg \in BOOLEAN :
          /\ ~Live(s)
          /\ LET ppid == IF cur = Shell /\ ~fg THEN InitPid ELSE pcb[cur].pid
             IN  pcb' = [pcb EXCEPT ![s] = NewPcb(pidCounter, ppid, fg)]
          /\ queue' = Append(queue, s)
    BY DEF StartTask
  <1>2. /\ mode = "run" /\ cur # Idle /\ pcb[cur].state = "READY"
        /\ UNCHANGED <<cur, mode, cycles, sem, cont>>
    BY Caller DEF StartTask
  <1>3. /\ IInv /\ Typed(pcb, sem, cont) /\ Bonds(pcb, sem, cont) /\ Order(pcb, r)
        /\ cur \in Slot /\ pcb \in [Slot -> Pcb] /\ queue \in Seq(Slot)
        /\ n \in Nat /\ \A t \in Slot : pcb[t].state # NoPcb => pcb[t].pid < n
    BY PFacts, Facts DEF PInv
  <1>4. PICK ppid \in Nat : /\ ppid = InitPid \/ ppid = pcb[cur].pid
                            /\ pcb' = [pcb EXCEPT ![s] = NewPcb(n, ppid, fg)]
    <2> DEFINE ppid == IF cur = Shell /\ ~fg THEN InitPid ELSE pcb[cur].pid
    <2>1. ppid \in Nat /\ (ppid = InitPid \/ ppid = pcb[cur].pid)
      BY <1>3 DEF InitPid, Pcb
    <2> HIDE DEF ppid
    <2>2. pcb' = [pcb EXCEPT ![s] = NewPcb(n, ppid, fg)]
      BY <1>1 DEF ppid
    <2> QED BY <2>1, <2>2
  <1> DEFINE new == NewPcb(n, ppid, fg)
  <1>5. new \in Pcb /\ new.state = "READY" /\ new.pid = n /\ new.ppid = ppid
    BY <1>3 DEF NewPcb, Pcb, State, Priority, ForegroundPriority, BackgroundPriority
  <1> HIDE DEF new
  <1>6. p2[s] = new /\ (\A t \in Slot : t # s => p2[t] = pcb[t]) /\ p2 \in [Slot -> Pcb]
    BY <1>3, <1>4, <1>5 DEF new
  <1> HIDE DEF p2, r, n
  <1>7. pcb[s].state = NoPcb /\ s # cur
    BY <1>1, <1>2 DEF Live, NoPcb
  <1>8. /\ Alike(pcb, p2, {s}) /\ p2[s].state = "READY" /\ p2[s].pid = n
        /\ p2[s].ppid = InitPid \/ p2[s].ppid = pcb[cur].pid
    BY <1>4, <1>5, <1>6 DEF Alike
  <1>9. Bonds(p2, sem, cont)
    BY <1>2, <1>3, <1>7, <1>8, BondsStart DEF Alike
  <1>10. Distinct(p2)
    BY <1>3, <1>6, <1>8 DEF Typed, Distinct
  <1>11. /\ r \in Seq(Slot) /\ Len(r) > 0 /\ r[1] = cur
         /\ \A i \in 1..Len(r) : pcb[r[i]].state # NoPcb
         /\ \A i, j \in 1..Len(r) : r[i] = r[j] => i = j
    <2>1. Len(r) = Len(queue) + 1 /\ Len(queue) \in Nat
      BY <1>2, <1>3, RingFacts DEF r
    <2> QED BY <2>1, <1>2, <1>3, RingFacts DEF r
  <1>12. Ring' = Append(r, s)
    <2>1. <<cur>> \in Seq(Slot) /\ <<s>> \in Seq(Slot)
      BY <1>3
    <2>2. (<<cur>> \o queue) \o <<s>> = <<cur>> \o (queue \o <<s>>)
      BY <2>1, <1>3, ConcatAssociative
    <2>3. Append(queue, s) = queue \o <<s>>
      BY <1>3, AppendIsConcat
    <2>4. r = <<cur>> \o queue
      BY <1>2 DEF r, Ring
    <2>5. Append(r, s) = r \o <<s>>
      BY <1>11, AppendIsConcat
    <2>6. Ring' = <<cur>> \o Append(queue, s)
      BY <1>1, <1>2 DEF Ring
    <2> QED BY <2>2, <2>3, <2>4, <2>5, <2>6
  <1> DEFINE t == Append(r, s)
  <1> HIDE DEF t
  <1>13. Order(p2, t)
    <2>1. \A i \in 1..Len(r) : /\ r[i] # s /\ pcb[r[i]].state # NoPcb
                               /\ pcb[r[i]].pid < p2[s].pid
      <3>1. \A i \in 1..Len(r) : r[i] \in Slot
        BY <1>11, ElementOfSeq
      <3> QED BY <3>1, <1>3, <1>7, <1>8, <1>11
    <2>2. t = Append(r, s) /\ Family(p2) /\ (p2[s].ppid = InitPid \/ p2[s].ppid = pcb[r[1]].pid)
      BY <1>8, <1>9, <1>11 DEF t, Bonds
    <2>3. /\ pcb \in [Slot -> Pcb] /\ p2 \in [Slot -> Pcb] /\ r \in Seq(Slot) /\ Len(r) > 0
          /\ Order(pcb, r) /\ Distinct(p2)
          /\ \A i, j \in 1..Len(r) : r[i] = r[j] => i = j
      BY <1>3, <1>6, <1>10, <1>11
    <2>4. Alike(pcb, p2, {s})
      BY <1>8
    <2> QED BY <2>1, <2>2, <2>3, <2>4, OrderStart
  <1>14. Running' /\ Reaped
    BY <1>2, <1>3, <1>6, <1>7, <1>8 DEF Running, Reaped, p2
  <1>15. Bonds(pcb, sem, cont)' /\ Order(pcb, Ring)'
    BY <1>2, <1>9, <1>12, <1>13 DEF p2, t
  <1> QED BY <1>14, <1>15 DEF PInv

LEMMA InitPInv == Init => PInv
  <1> SUFFICES ASSUME Init PROVE PInv
    OBVIOUS
  <1>1. /\ pcb = [s \in Slot |->
                    CASE s = Idle -> NewPcb(IdlePid, 0, FALSE)
                      [] s = InitProc -> NewPcb(InitPid, 0, FALSE)
                      [] s = Shell -> NewPcb(UserlandPid, 0, TRUE)
                      [] OTHER -> FreePcb]
        /\ queue = <<Shell>> /\ cur = InitProc
        /\ sem = [x \in Sem |-> NewSem(IF x \in UserSem THEN SemValue ELSE 0)]
        /\ cont = [s \in Slot |-> InUser]
    BY DEF Init
  <1>2. /\ pcb[Idle] = NewPcb(IdlePid, 0, FALSE)
        /\ pcb[InitProc] = NewPcb(InitPid, 0, FALSE)
        /\ pcb[Shell] = NewPcb(UserlandPid, 0, TRUE)
        /\ \A s \in Slot \ {Idle, InitProc, Shell} : pcb[s] = FreePcb
    BY <1>1, Names
  <1>3. /\ pcb[Idle].pid = 1 /\ pcb[InitProc].pid = 2 /\ pcb[Shell].pid = 3
        /\ pcb[Idle].ppid = 0 /\ pcb[InitProc].ppid = 0 /\ pcb[Shell].ppid = 0
        /\ pcb[Idle].state = "READY" /\ pcb[InitProc].state = "READY"
        /\ pcb[Shell].state = "READY"
        /\ \A s \in Slot : s # Idle /\ s # InitProc /\ s # Shell => pcb[s].state = "free"
    BY <1>2 DEF NewPcb, FreePcb, NoPcb, IdlePid, InitPid, UserlandPid
  <1>4. \A s \in Slot : s = Idle \/ s = InitProc \/ s = Shell \/ pcb[s].state = "free"
    BY <1>3
  <1>5. \A x \in Sem : sem[x].waiters = <<>> /\ (x \in Slot => sem[x].value = 0)
    BY <1>1, Names DEF NewSem
  <1>6. \A s \in Slot : cont[s] = InUser
    BY <1>1
  <1>7. Sleepers(pcb, sem, cont) /\ Once(sem)
    <2>1. \A x \in Sem : 1..Len(sem[x].waiters) = {}
      <3>1. 1..Len(<<>>) = {}
        BY EmptySeq
      <3> QED BY <3>1, <1>5
    <2>2. \A s \in Slot : pcb[s].state # "BLOCKED"
      BY <1>3, <1>4
    <2> QED BY <2>1, <2>2 DEF Sleepers, Once
  <1>8. Waits(pcb, sem, cont)
    BY <1>6 DEF Waits
  <1>9. Exits(pcb, sem, cont)
    BY <1>3, <1>4, <1>5, Names DEF Exits
  <1>10. Family(pcb)
    BY <1>3, <1>4 DEF Family, InitPid, NoPcb, Gone
  <1>11. Order(pcb, Ring)
    <2>1. Ring = <<InitProc>> \o <<Shell>>
      BY <1>1, Names DEF Ring
    <2>2. Len(Ring) = 2 /\ Ring[1] = InitProc /\ Ring[2] = Shell
      <3>1. <<Shell>> \in Seq(Slot) /\ Len(<<Shell>>) = 1 /\ <<Shell>>[1] = Shell
        BY Names
      <3> DEFINE q == <<Shell>>
      <3> HIDE DEF q
      <3>2. /\ Len(<<InitProc>> \o q) = Len(q) + 1 /\ (<<InitProc>> \o q)[1] = InitProc
            /\ \A i \in 1..Len(q) : (<<InitProc>> \o q)[i + 1] = q[i]
        BY <3>1, Names, InFront DEF q
      <3> DEFINE r == Ring
      <3>3. r = <<InitProc>> \o q
        BY <2>1 DEF q
      <3> HIDE DEF r
      <3>4. Len(q) = 1 /\ q[1] = Shell
        BY <3>1 DEF q
      <3>5. Len(r) = 2 /\ r[1] = InitProc /\ r[1 + 1] = Shell
        BY <3>2, <3>3, <3>4
      <3> QED BY <3>5 DEF r
    <2> HIDE DEF Ring
    <2>3. \A i \in 1..Len(Ring), j \in 1..Len(Ring) : pcb[Ring[i]].ppid # pcb[Ring[j]].pid
      BY <1>3, <2>2
    <2> QED BY <2>3 DEF Order
  <1>12. Running
    BY <1>1, <1>3 DEF Running
  <1> QED BY <1>7, <1>8, <1>9, <1>10, <1>11, <1>12, InitIInv DEF PInv, Bonds

LEMMA NextPInv ==
  ASSUME Disciplined
  PROVE  PInv /\ [Next]_vars => PInv' /\ Reaped
  <1> SUFFICES ASSUME PInv, [Next]_vars PROVE PInv' /\ Reaped
    OBVIOUS
  <1>1. IInv'
    BY NextIInv DEF PInv
  <1>2. CASE Scan
    BY <1>1, <1>2, ScanRunMove, ScanSkipMove, ScanFreeMove DEF Scan
  <1>3. CASE Tick
    BY <1>1, <1>3, TickMove
  <1>4. CASE CtrlC \/ KillTask \/ BlockTask \/ ResumeTask
    BY <1>4 DEF Disciplined, CtrlC, KillTask, BlockTask, ResumeTask, Calling
  <1>5. CASE StartTask \/ StartTaskFails \/ Exit \/ Nice \/ Yield
    BY <1>1, <1>5, StartTaskMove, StartTaskFailsMove, ExitStepMove, NiceMove, YieldMove
  <1>6. CASE SemWait \/ SemPost \/ Waitpid
    BY <1>1, <1>6, SemWaitMove, SemPostMove, WaitpidMove
  <1>7. CASE WaitpidReturn
    BY <1>1, <1>7, WaitpidReturnMove
  <1>8. CASE InitStep
    BY <1>1, <1>8, InitWaitMove, InitSleepMove, InitFindMove DEF InitStep
  <1>9. CASE UNCHANGED vars
    <2>1. UNCHANGED <<pcb, queue, cur, mode, sem, cont>>
      BY <1>9 DEF vars
    <2>2. mode' = "run" => pcb[cur].state = "READY"
      BY <2>1, PFacts
    <2> QED BY <1>1, <2>1, <2>2, StillMove
  <1> QED BY <1>2, <1>3, <1>4, <1>5, <1>6, <1>7, <1>8, <1>9 DEF Next, Syscall
-----------------------------------------------------------------------------
(* What holds of every execution of such programs.                          *)

LEMMA ProgramsInvariance ==
  ASSUME Disciplined
  PROVE  Spec => []PInv /\ [][Reaped]_vars
  <1>1. PInv /\ [Next]_vars => PInv' /\ Reaped
    BY NextPInv
  <1>2. Reaped => [Reaped]_vars
    OBVIOUS
  <1> QED BY <1>1, InitPInv, PTL DEF Spec

(* No wakeup of a semaphore or of an exit is lost, and nobody is put to     *)
(* sleep outside a waiting queue or in two of them: blockTask and semPost.  *)
THEOREM NoWakeupLost ==
  ASSUME Disciplined
  PROVE  Spec => []BlockedIffWaiting
  <1>1. PInv => BlockedIffWaiting
    <2> SUFFICES ASSUME PInv PROVE BlockedIffWaiting
      OBVIOUS
    <2>1. Typed(pcb, sem, cont) /\ Sleepers(pcb, sem, cont) /\ Once(sem)
      BY PFacts DEF Bonds
    <2>2. ASSUME NEW s \in Slot, Live(s)
          PROVE  pcb[s].state = "BLOCKED" <=> \E x \in Sem : WaitsOn(s, x)
      <3>1. /\ pcb[s].state = "BLOCKED" =>
                 \E x \in Sem : \E i \in 1..Len(sem[x].waiters) :
                   sem[x].waiters[i] = pcb[s].pid /\ cont[s] = WaitingAt(x)
            /\ \A x \in Sem : \A i \in 1..Len(sem[x].waiters) :
                 pcb[s].state # NoPcb /\ sem[x].waiters[i] = pcb[s].pid =>
                   pcb[s].state = "BLOCKED" /\ cont[s] = WaitingAt(x)
        BY <2>1, Sleeping
      <3> QED BY <2>2, <3>1 DEF Live, WaitsOn
    <2> QED BY <2>1, <2>2 DEF BlockedIffWaiting, Once
  <1> QED BY <1>1, ProgramsInvariance, PTL

(* An exit posted by killTask is collected by waitpid or waits for it: no   *)
(* dead child is forgotten, by its parent or by init.                       *)
THEOREM NoExitLost ==
  ASSUME Disciplined
  PROVE  Spec => []ExitNotLost
  <1>1. PInv => ExitNotLost
    BY PFacts DEF Bonds, Exits, Returning, ExitNotLost
  <1> QED BY <1>1, ProgramsInvariance, PTL

(* sendTaskToInit leaves nobody with a parent that is to be freed, although *)
(* its loop never looks at the last process of the queue.                   *)
THEOREM NoOrphans ==
  ASSUME Disciplined
  PROVE  Spec => []OrphansAdopted
  <1>1. PInv => OrphansAdopted
    <2> SUFFICES ASSUME PInv, NEW s \in Slot, NEW t \in Slot, Live(s),
                        pcb[s].state # "TERMINATED", pcb[t].state = "TERMINATED",
                        pcb[s].ppid = pcb[t].pid
                 PROVE  FALSE
      BY DEF OrphansAdopted
    <2>1. Family(pcb) /\ Distinct(pcb) /\ ~Gone(pcb, s)
      BY PFacts DEF Bonds, Typed, Gone, Live
    <2>2. pcb[t].state # NoPcb /\ pcb[t].pid > 0
      <3>1. pcb[t].state # NoPcb
        BY DEF NoPcb
      <3> QED BY <3>1, PFacts, Facts
    <2>3. PICK u \in Slot : ~Gone(pcb, u) /\ pcb[u].pid = pcb[s].ppid
      BY <2>1, <2>2 DEF Family
    <2>4. u = t
      BY <2>1, <2>2, <2>3 DEF Distinct, Gone
    <2> QED BY <2>3, <2>4 DEF Gone
  <1> QED BY <1>1, ProgramsInvariance, PTL

(* waitpid and init reap the dead only: the pid and the pcb a waiter keeps  *)
(* while it sleeps still stand for the child it waited for.                 *)
THEOREM OnlyTheDead ==
  ASSUME Disciplined
  PROVE  Spec => OnlyDeadReaped
  <1>1. [Reaped]_vars =>
          [\A s \in Slot : pcb[s].state \in {"READY", "BLOCKED"} => pcb'[s].state # "TERMINATED"]_vars
    BY DEF Reaped
  <1> QED BY <1>1, ProgramsInvariance, PTL DEF OnlyDeadReaped

=============================================================================
