---------------------------- MODULE Philosophers ----------------------------
(***************************************************************************)
(* The dining philosophers of the user library (phylo.c): philosophers     *)
(* that are processes, a process that prints the table, and the program    *)
(* phylo itself, which sits philosophers down, sends them away and at last *)
(* closes the table as keys are pressed.  They share the memory of         *)
(* phylo.c, the semaphore gateMutex and one semaphore per philosopher.     *)
(*                                                                         *)
(* A system call is atomic; between two of them any other process may run. *)
(* What a process does inside the gate is one step with the semPost that   *)
(* leaves it: meanwhile others could only queue up at the gate.           *)
(***************************************************************************)
EXTENDS Integers, Sequences, FiniteSets, SequencesExt

CONSTANTS
  MAX_PHILO,      \* seats at the table
  INITIAL_PHILO,  \* philosophers it opens with, and the fewest it can have
  Faults          \* "nomem": semInit or startTask may fail

ASSUME SeatAssumption ==
  INITIAL_PHILO \in Nat \ {0, 1} /\ MAX_PHILO \in Nat /\ INITIAL_PHILO <= MAX_PHILO

Seat == 0..(MAX_PHILO - 1)
Phylo == -1            \* processes that have no seat
PrintTable == -2
Process == Seat \cup {Phylo, PrintTable}
Closed == -1           \* the value of a semaphore that does not exist

VARIABLES
  at,       \* where each philosopher, the printer and phylo are in their code
  state,    \* philosopher[i].state
  sem,      \* the value of the semaphore philosopher[i].semId; its waiter is asleep
  gate,     \* gateMutex: value and blocked pids
  n,        \* currentPhilosofers
  freed     \* how many philosophers the loop after 'q' has freed

vars == <<at, state, sem, gate, n, freed>>

(* Where a process goes on once semWait(gateMutex) lets it in. *)
Inside == [hungry |-> "sit", eat |-> "rest", look |-> "print",
           add |-> "adding", remove |-> "kill"]
InGate == {"seat", "sit", "rest", "print", "adding", "kill"}

Left(i) == (i + n - 1) % n
Right(i) == (i + 1) % n

-----------------------------------------------------------------------------
(* semWait(gateMutex) of p. *)
EnterGate(p) ==
  /\ at[p] \in DOMAIN Inside
  /\ p \notin ToSet(gate.waiters)
  /\ IF gate.value > 0
     THEN /\ at' = [at EXCEPT ![p] = Inside[@]]
          /\ gate' = [gate EXCEPT !.value = @ - 1]
     ELSE /\ gate' = [gate EXCEPT !.waiters = Append(@, p)]
          /\ UNCHANGED at
  /\ UNCHANGED <<state, sem, n, freed>>

BadLeaveGate(out, waiters) ==
  IF waiters = <<>>
  THEN at' = out /\ gate' = [gate EXCEPT !.value = @ + 1]
  ELSE /\ at' = [out EXCEPT ![waiters[1]] = Inside[@]]
       /\ gate' = [value |-> gate.value + 1, waiters |-> Tail(waiters)]

(* semPost(gateMutex), when everybody is where out says and waiters queue   *)
(* at the gate: the first of them that is alive is let in, the dead before  *)
(* it are dropped.                                                          *)
LeaveGate(out, waiters) ==
  LET alive == {k \in DOMAIN waiters : out[waiters[k]] # "dead"}
      first == CHOOSE k \in alive : \A l \in alive : k <= l
  IN IF alive = {}
     THEN at' = out /\ gate' = [value |-> gate.value + 1, waiters |-> <<>>]
     ELSE /\ at' = [out EXCEPT ![waiters[first]] = Inside[@]]
          /\ gate' = [gate EXCEPT !.waiters = SubSeq(waiters, first + 1, Len(waiters))]

(* testEat: the part t = [at, state, sem] of the state after semPost on the *)
(* semaphore of i, and after testEat.                                       *)
Granted(t, i) ==
  IF t.at[i] = "asleep" THEN [t EXCEPT !.at[i] = "eat"]
  ELSE IF t.sem[i] = Closed THEN t ELSE [t EXCEPT !.sem[i] = @ + 1]

BadTestEatLeft(t, i) ==
  IF t.state[i] = "WAITING" /\ t.state[Left(i)] # "EATING"
  THEN Granted([t EXCEPT !.state[i] = "EATING"], i)
  ELSE t

BadTestEatAgain(t, i) ==
  IF t.state[i] = "WAITING" /\ t.state[Left(i)] # "EATING" /\ t.state[Right(i)] # "EATING"
  THEN Granted(t, i)
  ELSE t

TestEat(t, i) ==
  IF t.state[i] = "WAITING" /\ t.state[Left(i)] # "EATING" /\ t.state[Right(i)] # "EATING"
  THEN Granted([t EXCEPT !.state[i] = "EATING"], i)
  ELSE t

-----------------------------------------------------------------------------
(* Philosopher i.                                                           *)

(* philoWait inside the gate, where it wants to eat and may if no neighbour  *)
(* does, and semWait on its own semaphore after it: a semPost that somebody *)
(* gives between the two calls has the same effect when given after them.   *)
Sit(i) ==
  LET t == TestEat([at |-> at, state |-> [state EXCEPT ![i] = "WAITING"], sem |-> sem], i)
      unit == t.sem[i] > 0
  IN /\ at[i] = "sit"
     /\ LeaveGate([t.at EXCEPT ![i] = IF unit THEN "eat" ELSE "asleep"], gate.waiters)
     /\ state' = t.state
     /\ sem' = IF unit THEN [t.sem EXCEPT ![i] = @ - 1] ELSE t.sem
     /\ UNCHANGED <<n, freed>>

BadRest(i) ==
  /\ at[i] = "rest"
  /\ LeaveGate([at EXCEPT ![i] = "hungry"], gate.waiters)
  /\ state' = [state EXCEPT ![i] = "DECIDING"]
  /\ UNCHANGED <<sem, n, freed>>

(* philoRest inside the gate: the neighbours may eat. *)
Rest(i) ==
  /\ at[i] = "rest"
  /\ LET t == TestEat(TestEat([at |-> [at EXCEPT ![i] = "hungry"],
                               state |-> [state EXCEPT ![i] = "DECIDING"],
                               sem |-> sem], Left(i)), Right(i))
     IN LeaveGate(t.at, gate.waiters) /\ state' = t.state /\ sem' = t.sem
  /\ UNCHANGED <<n, freed>>

Philosopher(i) == EnterGate(i) \/ Sit(i) \/ Rest(i)

(* printTable. *)
PrintPlates ==
  /\ at[PrintTable] = "print" /\ LeaveGate([at EXCEPT ![PrintTable] = "look"], gate.waiters)
  /\ UNCHANGED <<state, sem, n, freed>>

Table == EnterGate(PrintTable) \/ PrintPlates

-----------------------------------------------------------------------------
(* phylo.                                                                   *)
Goes(from, to) == at[Phylo] = from /\ at' = [at EXCEPT ![Phylo] = to]

(* The gate, entered, and a semaphore for each of the first philosophers. *)
SetUp ==
  /\ Goes("begin", "seat")
  /\ gate' = [value |-> 0, waiters |-> <<>>]
  /\ sem' = [i \in Seat |-> IF i < INITIAL_PHILO THEN 1 ELSE Closed]
  /\ UNCHANGED <<state, n, freed>>

(* phylo returns, inside the gate, and leaves behind what it had made. *)
SetUpFails ==
  /\ "nomem" \in Faults /\ Goes("seat", "failed")
  /\ UNCHANGED <<state, sem, gate, n, freed>>

(* startPhiloProcess for the seat n. *)
StartPhilosopher ==
  /\ at[Phylo] = "seat" /\ n < INITIAL_PHILO
  /\ at' = [at EXCEPT ![n] = "hungry"]
  /\ state' = [state EXCEPT ![n] = "DECIDING"]
  /\ n' = n + 1
  /\ UNCHANGED <<sem, gate, freed>>

StartTable ==
  /\ n = INITIAL_PHILO /\ at[Phylo] = "seat"
  /\ LeaveGate([at EXCEPT ![Phylo] = "key", ![PrintTable] = "look"], gate.waiters)
  /\ UNCHANGED <<state, sem, n, freed>>

(* Key a: addPhilosofer.  The semaphore is made before the gate. *)
KeyAdd ==
  /\ n # MAX_PHILO /\ Goes("key", "add")
  /\ sem' = [sem EXCEPT ![n] = 1]
  /\ UNCHANGED <<state, gate, n, freed>>

AddPhilosopher ==
  /\ at[Phylo] = "adding"
  /\ LeaveGate([at EXCEPT ![Phylo] = "key", ![n] = "hungry"], gate.waiters)
  /\ state' = [state EXCEPT ![n] = "DECIDING"]
  /\ n' = n + 1
  /\ UNCHANGED <<sem, freed>>

AddFails ==
  /\ "nomem" \in Faults /\ at[Phylo] = "adding"
  /\ LeaveGate([at EXCEPT ![Phylo] = "key"], gate.waiters)
  /\ state' = [state EXCEPT ![n] = "DECIDING"]
  /\ sem' = [sem EXCEPT ![n] = Closed]
  /\ UNCHANGED <<n, freed>>

BadKeyRemove ==
  /\ n # INITIAL_PHILO /\ Goes("key", "kill")
  /\ UNCHANGED <<state, sem, gate, n, freed>>

(* Key d: removePhilosofer. *)
KeyRemove ==
  /\ n # INITIAL_PHILO /\ Goes("key", "remove")
  /\ UNCHANGED <<state, sem, gate, n, freed>>

(* freePhilosofer: kill and semClose.  i may be waiting for the gate, or     *)
(* after 'q' hold it.  Its pid does not come back: when the seat is taken   *)
(* again, the pid that waits is that of a dead process still.               *)
Killed(i, to) == [at EXCEPT ![i] = "dead", ![Phylo] = to]
WithoutWaiter(i) ==
  LET places == {k \in DOMAIN gate.waiters : gate.waiters[k] = i}
  IN IF places = {} THEN gate.waiters
     ELSE RemoveAt(gate.waiters, CHOOSE k \in places : TRUE)
Removing(newSem) ==
  /\ at[Phylo] = "kill" /\ LeaveGate(Killed(n - 1, "key"), WithoutWaiter(n - 1))
  /\ sem' = newSem
  /\ n' = n - 1
  /\ UNCHANGED <<state, freed>>

BadRemovePhilosopher == Removing(sem)

RemovePhilosopher == Removing([sem EXCEPT ![n - 1] = Closed])

(* Key q: everybody is freed, without the gate. *)
KeyQuit == Goes("key", "quit") /\ UNCHANGED <<state, sem, gate, n, freed>>

QuitFrees ==
  /\ at[Phylo] = "quit" /\ freed < n
  /\ at' = Killed(freed, "quit")
  /\ sem' = [sem EXCEPT ![freed] = Closed]
  /\ freed' = freed + 1
  /\ UNCHANGED <<state, gate, n>>

QuitEnds ==
  /\ at[Phylo] = "quit" /\ freed = n
  /\ at' = [at EXCEPT ![Phylo] = "gone", ![PrintTable] = "dead"]
  /\ gate' = [value |-> Closed, waiters |-> <<>>]
  /\ UNCHANGED <<state, sem, n, freed>>

Key == KeyAdd \/ KeyRemove \/ KeyQuit
Program ==
  \/ SetUp \/ StartPhilosopher \/ StartTable
  \/ EnterGate(Phylo) \/ AddPhilosopher \/ AddFails
  \/ RemovePhilosopher \/ QuitFrees \/ QuitEnds

Init ==
  /\ at = [p \in Process |-> IF p = Phylo THEN "begin" ELSE "dead"]
  /\ state = [i \in Seat |-> "WAITING"]
  /\ sem = [i \in Seat |-> Closed]
  /\ gate = [value |-> Closed, waiters |-> <<>>]
  /\ n = 0 /\ freed = 0

Next ==
  \/ \E i \in Seat : Philosopher(i)
  \/ Table \/ Program \/ Key \/ SetUpFails

Spec == Init /\ [][Next]_vars

-----------------------------------------------------------------------------
(* Properties.                                                              *)
Alive(i) == at[i] # "dead"
Eats(i) == at[i] \in {"eat", "rest"}     \* between philoWait and philoRest
Open == at[Phylo] \notin {"begin", "failed", "quit", "gone"}

SeatPlace == {"dead", "hungry", "sit", "asleep", "eat", "rest"}
PhyloPlace == {"begin", "seat", "key", "add", "adding", "remove", "kill", "quit", "gone", "failed"}
PrinterPlace == {"dead", "look", "print"}

(* Everybody is somewhere in its own code, and the counters are in range.   *)
TypeOK ==
  /\ at \in [Process -> SeatPlace \cup PhyloPlace \cup PrinterPlace]
  /\ \A i \in Seat : at[i] \in SeatPlace
  /\ at[Phylo] \in PhyloPlace /\ at[PrintTable] \in PrinterPlace
  /\ state \in [Seat -> {"WAITING", "DECIDING", "EATING"}]
  /\ sem \in [Seat -> Nat \cup {Closed}]
  /\ gate \in [value : {0, 1, Closed}, waiters : Seq(Process)]
  /\ n \in 0..MAX_PHILO /\ freed \in 0..MAX_PHILO

(* The gate is never lost and never given twice, whoever is killed: until   *)
(* the table is closed exactly one process is inside, or the gate is free.  *)
GateHeldOnce ==
  Open => gate.value + Cardinality({p \in DOMAIN at : at[p] \in InGate}) = 1

(* Whenever phylo waits for a key the processes and the semaphores are      *)
(* those of the philosophers at the table, whether or not starting one      *)
(* failed; when the table has been closed none is left.                     *)
TableCleared ==
  /\ at[Phylo] = "key" =>
       \A i \in Seat : /\ Alive(i) <=> i < n
                       /\ sem[i] # Closed <=> i < n
  /\ at[Phylo] = "gone" =>
       /\ \A i \in Seat : ~Alive(i) /\ sem[i] = Closed
       /\ ~Alive(PrintTable) /\ gate.value = Closed

(* The semaphore of a philosopher starts at 1, so that it holds one unit no *)
(* testEat has given: the meals that were not granted, still to come.       *)
Surplus(i) ==
  sem[i] + (IF Eats(i) THEN 1 ELSE 0) - (IF state[i] = "EATING" THEN 1 ELSE 0)

(* That unit is the only one: every other meal was granted by testEat, and  *)
(* once it has been used it does not come back.                             *)
MealsGranted ==
  [][\A i \in Seat :
       /\ i < n /\ i < n' /\ Open /\ Alive(i) /\ Alive(i)' =>
            Surplus(i)' \in {0, 1} /\ Surplus(i)' <= Surplus(i)]_vars

Neighbours(i, j) == i # j /\ i < n /\ j < n /\ j \in {Left(i), Right(i)}
EatTogether(i, j) ==
  Neighbours(i, j) /\ Eats(i) /\ Eats(j) /\ Surplus(i) = 0 /\ Surplus(j) = 0

(* Philosophers who eat with leave of testEat do not eat beside each other: *)
(* only the removal of the one between them can bring that about.           *)
NeighboursApart ==
  [][Open /\ n' >= n =>
       \A i, j \in Seat : EatTogether(i, j)' => EatTogether(i, j)]_vars

(* What the README says phylo solves, the problem of the philosophers: two  *)
(* neighbours never eat at the same time.                                   *)
NeighboursNeverEat ==
  \A i, j \in Seat : ~(Open /\ Neighbours(i, j) /\ Eats(i) /\ Eats(j))

(* A philosopher sleeps beside two who do not eat only after somebody has   *)
(* sat down or left: philoRest tests both neighbours, but addPhilosofer and *)
(* removePhilosofer test nobody.                                            *)
Forgotten(i) ==
  /\ i < n /\ at[i] = "asleep"
  /\ state[Left(i)] # "EATING" /\ state[Right(i)] # "EATING"
NobodyForgotten ==
  [][Open /\ n' = n => \A i \in Seat : Forgotten(i)' => Forgotten(i)]_vars

(* The table never stops: whoever came, left or was forgotten, some         *)
(* philosopher is awake as long as it is open.                              *)
SomebodyAwake ==
  Open /\ at[Phylo] # "seat" => \E i \in 0..(n - 1) : at[i] # "asleep"
=============================================================================
