------------------------- MODULE PhilosophersProofs -------------------------
(***************************************************************************)
(* Proofs about Philosophers, for any number of seats: the types, the gate *)
(* that is held by one process at a time and never lost, and the processes *)
(* and semaphores that are those of the philosophers at the table; then    *)
(* who eats when: meals are granted, but for the first of each             *)
(* philosopher; who eats with leave does not do so beside another, unless  *)
(* a removal makes them neighbours; philoRest forgets nobody; and somebody *)
(* is awake.                                                               *)
(***************************************************************************)
EXTENDS Philosophers, SequenceTheorems, FiniteSetTheorems,
        WellFoundedInduction, TLAPS

Place == SeatPlace \cup PhyloPlace \cup PrinterPlace
Gate == [value : {0, 1, Closed}, waiters : Seq(Process)]
Typed(to) ==
  /\ to \in [Process -> Place]
  /\ \A i \in Seat : to[i] \in SeatPlace
  /\ to[Phylo] \in PhyloPlace /\ to[PrintTable] \in PrinterPlace

(* Whoever waits is still where it asked to be let in, or dead, and waits   *)
(* once.                                                                    *)
Waiting == DOMAIN Inside \cup {"dead"}
WaitersOK(to, waiters) ==
  /\ \A k \in DOMAIN waiters : to[waiters[k]] \in Waiting
  /\ \A k, l \in DOMAIN waiters : waiters[k] = waiters[l] => k = l

(* Nobody is inside when the gate is free, and never two.                   *)
OneInside(to, g) ==
  /\ \A p, q \in Process : to[p] \in InGate /\ to[q] \in InGate => p = q
  /\ g.value = 1 => \A p \in Process : to[p] \notin InGate
Held(to, g) ==
  /\ g.value \in {0, 1}
  /\ g.value = 0 => \E p \in Process : to[p] \in InGate

Shut == {"begin", "failed", "quit", "gone"}
GateInv ==
  /\ WaitersOK(at, gate.waiters)
  /\ OneInside(at, gate)
  /\ at[Phylo] \notin Shut => Held(at, gate)
  /\ at[Phylo] = "gone" => gate.value = Closed

(* Everybody at to, m philosophers and f freed: how many there can be, who  *)
(* is alive, and whose semaphore exists in s.                               *)
Adding(to) == to[Phylo] \in {"add", "adding"}
Removes(to) == to[Phylo] \in {"remove", "kill"}
Lives(to, i) == to[i] # "dead"
Counts(to, m, f) ==
  /\ to[Phylo] = "begin" => m = 0 /\ to[PrintTable] = "dead"
  /\ to[Phylo] = "seat" => m <= INITIAL_PHILO
  /\ to[Phylo] \in {"key", "quit"} => m >= INITIAL_PHILO
  /\ Adding(to) => m < MAX_PHILO
  /\ Adding(to) \/ Removes(to) => m >= INITIAL_PHILO
  /\ Removes(to) => m > INITIAL_PHILO
  /\ to[Phylo] \notin {"quit", "gone"} => f = 0
  /\ to[Phylo] = "quit" => f <= m
Seats(to, m, f, s) ==
  /\ \A i \in Seat : Lives(to, i) => i < m
  /\ to[Phylo] \notin {"failed", "quit", "gone"} => \A i \in Seat : i < m => Lives(to, i)
  /\ to[Phylo] = "begin" => \A i \in Seat : s[i] = Closed
  /\ to[Phylo] = "seat" => \A i \in Seat : s[i] # Closed <=> i < INITIAL_PHILO
  /\ to[Phylo] = "key" \/ Removes(to) => \A i \in Seat : s[i] # Closed <=> i < m
  /\ Adding(to) => \A i \in Seat : s[i] # Closed <=> i <= m
  /\ to[Phylo] = "quit" =>
       \A i \in Seat : /\ Lives(to, i) <=> f <= i /\ i < m
                       /\ s[i] # Closed <=> f <= i /\ i < m
  /\ to[Phylo] = "gone" =>
       /\ \A i \in Seat : ~Lives(to, i) /\ s[i] = Closed
       /\ to[PrintTable] = "dead"
Phases(to, m, f, s) == Counts(to, m, f) /\ Seats(to, m, f, s)

IInv == TypeOK /\ GateInv /\ Phases(at, n, freed, sem)

-----------------------------------------------------------------------------
(* The gate.                                                                *)

LEMMA InsideFacts ==
  /\ DOMAIN Inside = {"hungry", "eat", "look", "add", "remove"}
  /\ Inside["hungry"] = "sit" /\ Inside["eat"] = "rest" /\ Inside["look"] = "print"
  /\ Inside["add"] = "adding" /\ Inside["remove"] = "kill"
  BY DEF Inside

(* A set of numbers that is not empty has a least one. *)
LEMMA LeastElement ==
  ASSUME NEW S \in SUBSET Nat, S # {}
  PROVE  LET least == CHOOSE k \in S : \A l \in S : k <= l
         IN least \in S
  <1>1. PICK i \in S : \A j \in S : ~(<<j, i>> \in OpToRel(<, Nat))
    BY NatLessThanWellFounded, WFMin
  <1>2. \A j \in S : ~(j < i)
    BY <1>1 DEF OpToRel
  <1>3. \A j \in S : i <= j
    BY <1>2
  <1> QED BY <1>3

Enters(x, y) == x \in DOMAIN Inside /\ y = Inside[x]

(* semPost on the gate by the one who was inside: somebody else is inside,  *)
(* or the gate is free.                                                     *)
LEMMA LeaveGateKeeps ==
  ASSUME NEW out \in [Process -> Place], NEW ws \in Seq(Process),
         WaitersOK(out, ws), \A p \in Process : out[p] \notin InGate,
         gate \in Gate, gate.value # 1, LeaveGate(out, ws)
  PROVE  /\ at' \in [Process -> Place] /\ gate' \in Gate
         /\ WaitersOK(at, gate.waiters)' /\ OneInside(at, gate)'
         /\ gate.value = 0 => Held(at, gate)'
         /\ \A p \in Process : at'[p] = out[p] \/ Enters(out[p], at'[p])
  <1> DEFINE alive == {k \in DOMAIN ws : out[ws[k]] # "dead"}
             first == CHOOSE k \in alive : \A l \in alive : k <= l
  <1>1. CASE alive = {}
    <2>1. at' = out /\ gate' = [value |-> gate.value + 1, waiters |-> <<>>]
      BY <1>1 DEF LeaveGate
    <2>2. gate.value + 1 \in {0, 1}
      BY DEF Gate, Closed
    <2>3. gate' \in Gate /\ gate'.waiters = <<>> /\ gate'.value = gate.value + 1
      BY <2>1, <2>2 DEF Gate
    <2>4. WaitersOK(at, gate.waiters)' /\ OneInside(at, gate)'
      BY <2>1, <2>3 DEF WaitersOK, OneInside
    <2>5. gate.value = 0 => Held(at, gate)'
      BY <2>3 DEF Held
    <2> QED BY <2>1, <2>3, <2>4, <2>5
  <1>2. CASE alive # {}
    <2> DEFINE h == ws[first]
               rest == SubSeq(ws, first + 1, Len(ws))
    <2>1. first \in alive
      <3>1. alive \in SUBSET Nat
        BY DEF alive
      <3> QED BY <3>1, <1>2, LeastElement
    <2>2. /\ first \in 1..Len(ws) /\ h \in Process
          /\ out[h] \in DOMAIN Inside /\ out[h] # "dead"
      BY <2>1 DEF WaitersOK, Waiting
    <2>3. /\ at' = [out EXCEPT ![h] = Inside[out[h]]]
          /\ gate' = [gate EXCEPT !.waiters = rest]
      BY <1>2 DEF LeaveGate
    <2> HIDE DEF first
    <2>4. /\ rest \in Seq(Process) /\ Len(rest) = Len(ws) - first
          /\ \A k \in 1..Len(rest) : rest[k] = ws[k + first]
      BY <2>2, SubSeqProperties
    <2>5. \A k \in 1..Len(rest) : k + first \in DOMAIN ws /\ k + first # first
      <3>1. Len(ws) \in Nat /\ DOMAIN ws = 1..Len(ws) /\ first \in Nat
        BY <2>2
      <3>2. \A k \in 1..(Len(ws) - first) : k + first \in 1..Len(ws) /\ k + first # first
        BY <3>1, <2>2
      <3> HIDE DEF rest
      <3> QED BY <3>1, <3>2, <2>4
    <2>6. gate' \in Gate /\ gate'.waiters = rest /\ gate'.value = gate.value
      BY <2>3, <2>4 DEF Gate
    <2>7. Inside[out[h]] \in InGate /\ Inside[out[h]] \in Place
      BY <2>2, InsideFacts DEF InGate, Place, SeatPlace, PhyloPlace, PrinterPlace
    <2>8. /\ at' \in [Process -> Place] /\ at'[h] = Inside[out[h]]
          /\ \A p \in Process \ {h} : at'[p] = out[p]
      BY <2>2, <2>3, <2>7
    <2>9. \A k \in 1..Len(rest) : rest[k] \in Process /\ rest[k] # h
      <3> SUFFICES ASSUME NEW k \in 1..Len(rest) PROVE rest[k] \in Process /\ rest[k] # h
        OBVIOUS
      <3>1. k + first \in DOMAIN ws /\ k + first # first /\ first \in DOMAIN ws
        BY <2>2, <2>5
      <3> QED BY <3>1, <2>4 DEF WaitersOK
    <2>10. WaitersOK(at, gate.waiters)'
      <3>1. \A k \in 1..Len(rest) : at'[rest[k]] \in Waiting
        <4> SUFFICES ASSUME NEW k \in 1..Len(rest)
                     PROVE  at'[rest[k]] \in Waiting
          OBVIOUS
        <4>1. k + first \in DOMAIN ws /\ rest[k] = ws[k + first]
          BY <2>5, <2>4
        <4>2. at'[rest[k]] = out[ws[k + first]]
          BY <4>1, <2>8, <2>9
        <4> QED BY <4>1, <4>2 DEF WaitersOK
      <3>2. \A k, l \in 1..Len(rest) : rest[k] = rest[l] => k = l
        <4> SUFFICES ASSUME NEW k \in 1..Len(rest), NEW l \in 1..Len(rest), rest[k] = rest[l]
                     PROVE  k = l
          OBVIOUS
        <4>1. /\ k + first \in DOMAIN ws /\ l + first \in DOMAIN ws
              /\ ws[k + first] = ws[l + first]
          <5>1. k + first \in DOMAIN ws /\ l + first \in DOMAIN ws
            BY <2>5
          <5>2. rest[k] = ws[k + first] /\ rest[l] = ws[l + first]
            BY <2>4
          <5> QED BY <5>1, <5>2
        <4>2. k + first = l + first
          BY <4>1 DEF WaitersOK
        <4> QED BY <4>2, <2>2
      <3>3. DOMAIN rest = 1..Len(rest)
        BY <2>4
      <3> QED BY <3>1, <3>2, <3>3, <2>6 DEF WaitersOK
    <2>11. OneInside(at, gate)'
      <3>1. \A p \in Process : at'[p] \in InGate => p = h
        BY <2>8
      <3> QED BY <3>1, <2>6 DEF OneInside
    <2>12. gate.value = 0 => Held(at, gate)'
      BY <2>2, <2>6, <2>7, <2>8 DEF Held
    <2>13. \A p \in Process : at'[p] = out[p] \/ Enters(out[p], at'[p])
      BY <2>2, <2>8 DEF Enters
    <2> QED BY <2>6, <2>8, <2>10, <2>11, <2>12, <2>13
  <1> QED BY <1>1, <1>2

-----------------------------------------------------------------------------
(* testEat.                                                                 *)

Plates == [at : [Process -> Place],
           state : [Seat -> {"WAITING", "DECIDING", "EATING"}],
           sem : [Seat -> Nat \cup {Closed}]]

(* Between two tables: some who slept may eat, and no semaphore comes or    *)
(* goes.                                                                    *)
SameSeats(t, u) ==
  /\ \A p \in Process : u.at[p] = t.at[p] \/ (t.at[p] = "asleep" /\ u.at[p] = "eat")
  /\ \A i \in Seat : u.sem[i] = Closed <=> t.sem[i] = Closed

LEMMA TestEatKeeps ==
  ASSUME NEW t \in Plates, NEW i \in Seat
  PROVE  TestEat(t, i) \in Plates /\ SameSeats(t, TestEat(t, i))
  <1> DEFINE e == [t EXCEPT !.state[i] = "EATING"]
  <1>1. e \in Plates /\ e.at = t.at /\ e.sem = t.sem
    BY DEF Plates
  <1>2. Granted(e, i) \in Plates /\ SameSeats(t, Granted(e, i))
    <2> HIDE DEF e
    <2>0. i \in Process /\ "eat" \in Place
      BY DEF Process, Place, SeatPlace
    <2>1. CASE e.at[i] = "asleep"
      <3>1. Granted(e, i) = [e EXCEPT !.at[i] = "eat"]
        BY <2>1 DEF Granted
      <3> QED BY <3>1, <2>0, <2>1, <1>1 DEF Plates, SameSeats
    <2>2. CASE e.at[i] # "asleep" /\ e.sem[i] = Closed
      <3>1. Granted(e, i) = e
        BY <2>2 DEF Granted
      <3> QED BY <3>1, <1>1 DEF SameSeats
    <2>3. CASE e.at[i] # "asleep" /\ e.sem[i] # Closed
      <3>1. Granted(e, i) = [e EXCEPT !.sem[i] = @ + 1]
        BY <2>3 DEF Granted
      <3>2. e.sem[i] \in Nat /\ e.sem[i] + 1 # Closed
        BY <2>3, <1>1 DEF Plates, Closed
      <3> QED BY <3>1, <3>2, <2>3, <1>1 DEF Plates, SameSeats
    <2> QED BY <2>1, <2>2, <2>3
  <1>3. SameSeats(t, t)
    BY DEF SameSeats
  <1> QED BY <1>2, <1>3 DEF TestEat

LEMMA SameSeatsTrans ==
  ASSUME NEW t, NEW u, NEW v, SameSeats(t, u), SameSeats(u, v)
  PROVE  SameSeats(t, v)
  BY DEF SameSeats

(* The macros LEFT and RIGHT name seats in use. *)
LEMMA NeighbourSeats ==
  ASSUME TypeOK, NEW i \in Seat, i < n
  PROVE  Left(i) \in Seat /\ Right(i) \in Seat
  <1>1. /\ n \in Nat \ {0} /\ n <= MAX_PHILO /\ i \in Nat
        /\ MAX_PHILO \in Nat /\ Seat = 0..(MAX_PHILO - 1)
    BY SeatAssumption DEF TypeOK, Seat
  <1>2. (i + n - 1) \in Int /\ (i + 1) \in Int
    BY <1>1
  <1>3. \A x \in Int : x % n \in 0..(n - 1)
    BY <1>1
  <1>4. Left(i) \in 0..(n - 1)
    BY <1>2, <1>3 DEF Left
  <1>5. Right(i) \in 0..(n - 1)
    BY <1>2, <1>3 DEF Right
  <1> QED BY <1>1, <1>4, <1>5

-----------------------------------------------------------------------------
(* Steps.                                                                   *)

LEMMA PhyloFacts ==
  /\ Phylo \in Process /\ PrintTable \in Process /\ Phylo # PrintTable
  /\ \A i \in Seat : i \in Process /\ i # Phylo /\ i # PrintTable
  BY SeatAssumption DEF Process, Seat, Phylo, PrintTable

(* Where some are let in nothing else changes. *)
LEMMA EnteringKeeps ==
  ASSUME NEW out, Typed(out), NEW to \in [Process -> Place],
         \A p \in Process : to[p] = out[p] \/ Enters(out[p], to[p])
  PROVE  /\ Typed(to) /\ (to[Phylo] \in Shut <=> out[Phylo] \in Shut)
         /\ to[Phylo] = "gone" => out[Phylo] = "gone"
         /\ \A m, f, s : Phases(out, m, f, s) => Phases(to, m, f, s)
  <1>1. \A p \in Process : to[p] = out[p] \/ <<out[p], to[p]>> \in
          {<<"hungry", "sit">>, <<"eat", "rest">>, <<"look", "print">>, <<"add", "adding">>,
           <<"remove", "kill">>}
    BY InsideFacts DEF Enters
  <1>2. Typed(to)
    BY <1>1, PhyloFacts DEF Typed, SeatPlace, PhyloPlace, PrinterPlace
  <1>3. \/ to[Phylo] = out[Phylo]
        \/ out[Phylo] = "add" /\ to[Phylo] = "adding"
        \/ out[Phylo] = "remove" /\ to[Phylo] = "kill"
    BY <1>1, PhyloFacts DEF Typed, PhyloPlace
  <1>4. \A p \in Process : to[p] = "dead" <=> out[p] = "dead"
    BY <1>1
  <1>5. ASSUME NEW m, NEW f, NEW s, Phases(out, m, f, s)
        PROVE  Phases(to, m, f, s)
    <2>1. Counts(to, m, f)
      BY <1>3, <1>4, <1>5, PhyloFacts DEF Phases, Counts, Adding, Removes
    <2>2. Seats(to, m, f, s)
      BY <1>3, <1>4, <1>5, PhyloFacts DEF Phases, Seats, Adding, Removes, Lives
    <2> QED BY <2>1, <2>2 DEF Phases
  <1> QED BY <1>2, <1>3, <1>5 DEF Shut

Owned == /\ state \in [Seat -> {"WAITING", "DECIDING", "EATING"}]
         /\ sem \in [Seat -> Nat \cup {Closed}]
         /\ n \in 0..MAX_PHILO /\ freed \in 0..MAX_PHILO

(* A step of the process p, which leaves the gate. *)
LEMMA LeaveStep ==
  ASSUME IInv, NEW p \in Process, at[p] \in InGate,
         NEW out, Typed(out), \A q \in Process : out[q] \notin InGate,
         NEW ws \in Seq(Process), WaitersOK(out, ws), LeaveGate(out, ws),
         out[Phylo] \notin Shut => at[Phylo] \notin Shut, out[Phylo] # "gone",
         Owned', Phases(out, n', freed', sem')
  PROVE  IInv'
  <1>1. gate \in Gate /\ gate.value # 1 /\ out \in [Process -> Place]
    BY DEF IInv, TypeOK, GateInv, OneInside, Gate, Typed
  <1>2. /\ at' \in [Process -> Place] /\ gate' \in Gate
        /\ WaitersOK(at, gate.waiters)' /\ OneInside(at, gate)'
        /\ gate.value = 0 => Held(at, gate)'
        /\ \A q \in Process : at'[q] = out[q] \/ Enters(out[q], at'[q])
    BY <1>1, LeaveGateKeeps
  <1>3. /\ Typed(at') /\ (at'[Phylo] \in Shut <=> out[Phylo] \in Shut)
        /\ at'[Phylo] # "gone" /\ Phases(at', n', freed', sem')
    BY <1>2, EnteringKeeps
  <1>4. at[Phylo] \notin Shut => gate.value = 0
    BY <1>1 DEF IInv, GateInv, Held
  <1>5. GateInv'
    BY <1>2, <1>3, <1>4 DEF GateInv
  <1>6. TypeOK'
    BY <1>2, <1>3 DEF TypeOK, Typed, Owned, Gate, Place
  <1> QED BY <1>3, <1>5, <1>6 DEF IInv

(* A step that does not touch the gate. *)
LEMMA KeepGateStep ==
  ASSUME IInv, gate' = gate, Typed(at'), Owned', Phases(at', n', freed', sem'),
         \A p \in Process : at'[p] \in InGate => at[p] \in InGate,
         \A p \in Process : at[p] \in Waiting => at'[p] \in Waiting,
         at'[Phylo] \notin Shut => /\ at[Phylo] \notin Shut
                                 /\ \A p \in Process : at[p] \in InGate => at'[p] \in InGate,
         at'[Phylo] # "gone"
  PROVE  IInv'
  <1>1. gate \in Gate /\ \A k \in DOMAIN gate.waiters : gate.waiters[k] \in Process
    BY DEF IInv, TypeOK, Gate
  <1>2. WaitersOK(at, gate.waiters)'
    BY <1>1 DEF IInv, GateInv, WaitersOK
  <1>3. OneInside(at, gate)'
    BY DEF IInv, GateInv, OneInside
  <1>4. at'[Phylo] \notin Shut => Held(at, gate)'
    BY DEF IInv, GateInv, Held
  <1>5. TypeOK'
    BY <1>1 DEF TypeOK, Typed, Owned, Gate, Place
  <1> QED BY <1>2, <1>3, <1>4, <1>5 DEF IInv, GateInv

(* What is said of places depends on phylo, the printer, and who is alive.  *)
LEMMA SamePhases ==
  ASSUME NEW to, NEW out, NEW m, NEW f, NEW s, NEW r, Phases(to, m, f, s),
         out[Phylo] = to[Phylo], out[PrintTable] = "dead" <=> to[PrintTable] = "dead",
         \A i \in Seat : /\ out[i] = "dead" <=> to[i] = "dead"
                         /\ r[i] = Closed <=> s[i] = Closed
  PROVE  Phases(out, m, f, r)
  <1>1. Counts(out, m, f)
    BY DEF Phases, Counts, Adding, Removes
  <1>2. Seats(out, m, f, r)
    BY DEF Phases, Seats, Adding, Removes, Lives
  <1> QED BY <1>1, <1>2 DEF Phases

LEMMA Context ==
  ASSUME IInv
  PROVE  /\ Typed(at) /\ Owned /\ gate \in Gate /\ gate.waiters \in Seq(Process)
         /\ WaitersOK(at, gate.waiters)
         /\ \A k \in DOMAIN gate.waiters : gate.waiters[k] \in Process
         /\ \A p, q \in Process : at[p] \in InGate /\ at[q] \in InGate => p = q
         /\ \A i \in Seat : at[i] # "dead" => i < n
  <1>1. Typed(at) /\ Owned
    BY DEF IInv, TypeOK, Typed, Owned, Place
  <1>2. gate \in Gate /\ gate.waiters \in Seq(Process)
    BY DEF IInv, TypeOK, Gate
  <1>3. \A i \in Seat : at[i] # "dead" => i < n
    BY DEF IInv, Phases, Seats, Lives
  <1> QED BY <1>1, <1>2, <1>3 DEF IInv, GateInv, OneInside

LEMMA PlaceFacts == InGate \cap Waiting = {} /\ "asleep" \notin Waiting
  BY InsideFacts DEF InGate, Waiting

(* A philosopher leaves the gate and somebody may be allowed to eat. *)
LEMMA PhilosopherLeaves ==
  ASSUME IInv, NEW i \in Seat, at[i] \in {"sit", "rest"},
         NEW out \in [Process -> Place], out[i] \in {"eat", "asleep", "hungry"},
         \A p \in Process \ {i} : \/ out[p] = at[p]
                                  \/ at[p] = "asleep" /\ out[p] = "eat",
         LeaveGate(out, gate.waiters), UNCHANGED <<n, freed>>, Owned',
         \A j \in Seat : sem'[j] = Closed <=> sem[j] = Closed
  PROVE  IInv'
  <1>1. i \in Process /\ at[i] \in InGate /\ i # Phylo /\ i # PrintTable
    BY SeatAssumption DEF Process, InGate, Seat, Phylo, PrintTable
  <1>2. Typed(out) /\ out[Phylo] = at[Phylo] /\ out[PrintTable] = at[PrintTable]
    <2>1. Typed(at) /\ at[Phylo] # "asleep" /\ at[PrintTable] # "asleep"
      BY Context DEF Typed, PhyloPlace, PrinterPlace
    <2>2. out[Phylo] = at[Phylo] /\ out[PrintTable] = at[PrintTable]
      BY <2>1, <1>1, PhyloFacts
    <2>3. \A j \in Seat : out[j] \in SeatPlace
      BY <2>1, PhyloFacts DEF Typed, SeatPlace
    <2> QED BY <2>1, <2>2, <2>3 DEF Typed
  <1>3. \A p \in Process : out[p] \notin InGate
    BY <1>1, Context DEF InGate
  <1>4. WaitersOK(out, gate.waiters)
    <2>1. \A p \in Process : at[p] \in Waiting => out[p] = at[p]
      BY <1>1, PlaceFacts
    <2> QED BY <2>1, Context DEF WaitersOK
  <1>5. Phases(out, n', freed', sem')
    <2>1. \A j \in Seat : out[j] = "dead" <=> at[j] = "dead"
      BY PhyloFacts
    <2> QED BY <2>1, <1>2, SamePhases DEF IInv
  <1>6. gate.waiters \in Seq(Process) /\ out[Phylo] # "gone"
    BY <1>1, <1>2, Context DEF IInv, Phases, Seats, Lives
  <1> QED BY <1>1, <1>2, <1>3, <1>4, <1>5, <1>6, LeaveStep

LEMMA SitStep ==
  ASSUME IInv, NEW i \in Seat, Sit(i)
  PROVE  IInv'
  <1> DEFINE b == [at |-> at, state |-> [state EXCEPT ![i] = "WAITING"], sem |-> sem]
             t == TestEat(b, i)
             unit == t.sem[i] > 0
             out == [t.at EXCEPT ![i] = IF unit THEN "eat" ELSE "asleep"]
  <1>1. /\ at[i] = "sit" /\ LeaveGate(out, gate.waiters) /\ state' = t.state
        /\ sem' = IF unit THEN [t.sem EXCEPT ![i] = @ - 1] ELSE t.sem
        /\ UNCHANGED <<n, freed>>
    BY DEF Sit
  <1>2. b \in Plates
    BY Context DEF Plates, Typed, Owned
  <1>3. t \in Plates /\ SameSeats(b, t)
    <2> HIDE DEF b
    <2> QED BY <1>2, TestEatKeeps
  <1> HIDE DEF t
  <1>4. /\ \A p \in Process : t.at[p] = at[p] \/ (at[p] = "asleep" /\ t.at[p] = "eat")
        /\ \A j \in Seat : t.sem[j] = Closed <=> sem[j] = Closed
    BY <1>3 DEF SameSeats
  <1>5. /\ out \in [Process -> Place] /\ out[i] \in {"eat", "asleep", "hungry"}
        /\ \A p \in Process \ {i} : out[p] = t.at[p]
    <2>1. "eat" \in Place /\ "asleep" \in Place /\ i \in Process
      BY PhyloFacts DEF Place, SeatPlace
    <2> QED BY <2>1, <1>3 DEF Plates
  <1>6. Owned' /\ \A j \in Seat : sem'[j] = Closed <=> sem[j] = Closed
    <2>1. t.sem \in [Seat -> Nat \cup {Closed}] /\ t.state \in [Seat -> {"WAITING", "DECIDING", "EATING"}]
      BY <1>3 DEF Plates
    <2>2. CASE ~unit
      BY <2>1, <2>2, <1>1, <1>4, Context DEF Owned
    <2>3. CASE unit
      <3>1. t.sem[i] \in Nat /\ t.sem[i] - 1 \in Nat /\ t.sem[i] - 1 # Closed /\ t.sem[i] # Closed
        BY <2>1, <2>3 DEF Closed
      <3>2. sem' = [t.sem EXCEPT ![i] = t.sem[i] - 1]
        BY <2>3, <1>1
      <3>3. sem' \in [Seat -> Nat \cup {Closed}]
        BY <3>1, <3>2, <2>1
      <3>4. \A j \in Seat : sem'[j] = Closed <=> t.sem[j] = Closed
        BY <3>1, <3>2, <2>1
      <3> QED BY <3>3, <3>4, <2>1, <1>1, <1>4, Context DEF Owned
    <2> QED BY <2>2, <2>3
  <1> HIDE DEF out
  <1> QED BY <1>1, <1>4, <1>5, <1>6, PhilosopherLeaves

LEMMA RestStep ==
  ASSUME IInv, NEW i \in Seat, Rest(i)
  PROVE  IInv'
  <1> DEFINE b == [at |-> [at EXCEPT ![i] = "hungry"],
                   state |-> [state EXCEPT ![i] = "DECIDING"], sem |-> sem]
             u == TestEat(b, Left(i))
             t == TestEat(u, Right(i))
  <1>1. /\ at[i] = "rest" /\ LeaveGate(t.at, gate.waiters) /\ state' = t.state
        /\ sem' = t.sem /\ UNCHANGED <<n, freed>>
    BY DEF Rest
  <1>2. b \in Plates /\ i \in Process
    <2>1. "hungry" \in Place /\ i \in Process
      BY PhyloFacts DEF Place, SeatPlace
    <2> QED BY <2>1, Context DEF Plates, Typed, Owned
  <1>3. Left(i) \in Seat /\ Right(i) \in Seat
    BY <1>1, Context, NeighbourSeats DEF IInv
  <1>4. t \in Plates /\ SameSeats(b, t)
    <2>1. u \in Plates /\ SameSeats(b, u)
      <3> HIDE DEF b
      <3> QED BY <1>2, <1>3, TestEatKeeps
    <2> HIDE DEF u
    <2>2. t \in Plates /\ SameSeats(u, t)
      BY <2>1, <1>3, TestEatKeeps
    <2> HIDE DEF b, t
    <2> QED BY <2>1, <2>2, SameSeatsTrans
  <1> HIDE DEF t, u
  <1>5. /\ t.at \in [Process -> Place] /\ t.at[i] = "hungry"
        /\ \A p \in Process \ {i} : t.at[p] = at[p] \/ (at[p] = "asleep" /\ t.at[p] = "eat")
    BY <1>2, <1>4, Context DEF Plates, SameSeats, Typed
  <1>6. Owned' /\ \A j \in Seat : sem'[j] = Closed <=> sem[j] = Closed
    BY <1>1, <1>4, Context DEF Plates, SameSeats, Owned
  <1> QED BY <1>1, <1>5, <1>6, PhilosopherLeaves

LEMMA EnterGateStep ==
  ASSUME IInv, NEW p \in Process, EnterGate(p)
  PROVE  IInv'
  <1>1. /\ at[p] \in DOMAIN Inside /\ p \notin ToSet(gate.waiters)
        /\ UNCHANGED <<state, sem, n, freed>>
    BY DEF EnterGate
  <1>2. \A k \in DOMAIN gate.waiters : gate.waiters[k] # p
    BY <1>1 DEF ToSet
  <1>3. Owned'
    BY <1>1, Context DEF Owned
  <1>4. CASE gate.value > 0
    <2>1. /\ at' = [at EXCEPT ![p] = Inside[at[p]]]
          /\ gate' = [gate EXCEPT !.value = gate.value - 1]
      BY <1>4 DEF EnterGate
    <2>2. /\ gate.value = 1 /\ gate' \in Gate
          /\ gate'.value = 0 /\ gate'.waiters = gate.waiters
      BY <2>1, <1>4, Context DEF Gate, Closed
    <2>3. Inside[at[p]] \in InGate /\ Inside[at[p]] \in Place
      BY <1>1, InsideFacts DEF InGate, Place, SeatPlace, PhyloPlace, PrinterPlace
    <2>4. /\ at' \in [Process -> Place] /\ at'[p] = Inside[at[p]]
          /\ \A q \in Process \ {p} : at'[q] = at[q]
      BY <2>1, <2>3, Context DEF Typed
    <2>5. \A q \in Process : at'[q] = at[q] \/ Enters(at[q], at'[q])
      BY <2>4, <1>1 DEF Enters
    <2>6. /\ Typed(at') /\ (at'[Phylo] \in Shut <=> at[Phylo] \in Shut)
          /\ at'[Phylo] = "gone" => at[Phylo] = "gone"
          /\ Phases(at', n, freed, sem)
      <3>1. Typed(at)
        BY Context
      <3> QED BY <2>4, <2>5, <3>1, EnteringKeeps DEF IInv
    <2>7. WaitersOK(at, gate.waiters)'
      BY <1>2, <2>2, <2>4, Context DEF WaitersOK
    <2>8. OneInside(at, gate)' /\ Held(at, gate)'
      BY <2>2, <2>3, <2>4 DEF IInv, GateInv, OneInside, Held
    <2>9. at'[Phylo] # "gone"
      BY <2>2, <2>6 DEF IInv, GateInv, Closed
    <2> QED BY <1>1, <1>3, <2>2, <2>6, <2>7, <2>8, <2>9
            DEF IInv, TypeOK, GateInv, Typed, Owned, Gate, Place
  <1>5. CASE ~(gate.value > 0)
    <2>1. at' = at /\ gate' = [gate EXCEPT !.waiters = Append(gate.waiters, p)]
      BY <1>5 DEF EnterGate
    <2> DEFINE ws == Append(gate.waiters, p)
    <2>2. /\ ws \in Seq(Process) /\ DOMAIN ws = 1..(Len(gate.waiters) + 1)
          /\ ws[Len(gate.waiters) + 1] = p
          /\ \A k \in DOMAIN gate.waiters : ws[k] = gate.waiters[k]
          /\ DOMAIN gate.waiters = 1..Len(gate.waiters) /\ Len(gate.waiters) \in Nat
      BY Context
    <2>3. gate' \in Gate /\ gate'.waiters = ws /\ gate'.value = gate.value
      BY <2>1, <2>2, Context DEF Gate
    <2> HIDE DEF ws
    <2>4. WaitersOK(at, gate.waiters)'
      <3>1. \A k \in DOMAIN ws : at[ws[k]] \in Waiting
        BY <1>1, <2>2, Context DEF WaitersOK, Waiting
      <3>2. \A k, l \in DOMAIN ws : ws[k] = ws[l] => k = l
        BY <1>2, <2>2, Context DEF WaitersOK
      <3> QED BY <2>1, <2>3, <3>1, <3>2 DEF WaitersOK
    <2>5. /\ OneInside(at, gate)' /\ (Held(at, gate) => Held(at, gate)')
      BY <2>1, <2>3 DEF IInv, GateInv, OneInside, Held
    <2> QED BY <1>1, <1>3, <2>1, <2>3, <2>4, <2>5
            DEF IInv, TypeOK, GateInv, Owned, Gate
  <1> QED BY <1>4, <1>5

LEMMA PrintPlatesStep ==
  ASSUME IInv, PrintPlates
  PROVE  IInv'
  <1> DEFINE out == [at EXCEPT ![PrintTable] = "look"]
  <1>1. /\ at[PrintTable] = "print" /\ LeaveGate(out, gate.waiters)
        /\ UNCHANGED <<state, sem, n, freed>>
    BY DEF PrintPlates
  <1>2. PrintTable \in Process /\ at[PrintTable] \in InGate /\ PrintTable # Phylo /\ PrintTable \notin Seat
    BY <1>1, SeatAssumption, PhyloFacts DEF InGate, Phylo, PrintTable, Seat
  <1>3. /\ out \in [Process -> Place] /\ out[PrintTable] = "look"
        /\ \A q \in Process \ {PrintTable} : out[q] = at[q]
    BY <1>2, Context DEF Typed, Place, PrinterPlace
  <1> HIDE DEF out
  <1>4. Typed(out) /\ out[Phylo] = at[Phylo]
    BY <1>2, <1>3, Context, PhyloFacts DEF Typed, PrinterPlace
  <1>5. \A q \in Process : out[q] \notin InGate
    BY <1>2, <1>3, Context DEF InGate
  <1>6. WaitersOK(out, gate.waiters)
    BY <1>2, <1>3, PlaceFacts, Context DEF WaitersOK
  <1>7. Phases(out, n', freed', sem')
    <2>1. \A j \in Seat : out[j] = at[j]
      BY <1>2, <1>3, PhyloFacts
    <2>2. "look" # "dead"
      OBVIOUS
    <2>3. at[PrintTable] # "dead"
      BY <1>1
    <2> QED BY <1>1, <1>3, <1>4, <2>1, <2>2, <2>3, SamePhases DEF IInv
  <1>8. Owned' /\ gate.waiters \in Seq(Process)
    BY <1>1, Context DEF Owned
  <1>9. out[Phylo] # "gone"
    BY <1>1, <1>4 DEF IInv, Phases, Seats
  <1> QED BY <1>1, <1>2, <1>4, <1>5, <1>6, <1>7, <1>8, <1>9, LeaveStep

Others(p) == Process \ {p}
LEMMA SeatsInUse ==
  ASSUME IInv
  PROVE  /\ n \in Nat /\ n <= MAX_PHILO /\ freed \in Nat
         /\ INITIAL_PHILO \in Nat /\ INITIAL_PHILO >= 2
         /\ MAX_PHILO \in Nat /\ INITIAL_PHILO <= MAX_PHILO
         /\ Seat = 0..(MAX_PHILO - 1)
         /\ \A i \in Seat : i \in Nat /\ i < MAX_PHILO
  BY SeatAssumption DEF IInv, TypeOK, Seat

LEMMA SetUpStep ==
  ASSUME IInv, SetUp
  PROVE  IInv'
  <1>1. /\ at[Phylo] = "begin" /\ at' = [at EXCEPT ![Phylo] = "seat"]
        /\ gate' = [value |-> 0, waiters |-> <<>>]
        /\ sem' = [i \in Seat |-> IF i < INITIAL_PHILO THEN 1 ELSE Closed]
        /\ UNCHANGED <<state, n, freed>>
    BY DEF SetUp, Goes
  <1>2. /\ at' \in [Process -> Place] /\ at'[Phylo] = "seat"
        /\ \A q \in Others(Phylo) : at'[q] = at[q]
    BY <1>1, PhyloFacts, Context DEF Typed, Place, PhyloPlace, Others
  <1>3. n = 0 /\ freed = 0 /\ at[PrintTable] = "dead" /\ \A i \in Seat : at[i] = "dead"
    BY <1>1, SeatsInUse DEF IInv, Phases, Counts, Seats, Lives
  <1>4. \A q \in Others(Phylo) : at'[q] = "dead"
    BY <1>2, <1>3, PhyloFacts DEF Others, Process
  <1>5. Typed(at') /\ Owned'
    <2>1. sem' \in [Seat -> Nat \cup {Closed}]
      BY <1>1
    <2> QED BY <1>1, <1>2, <1>4, <2>1, PhyloFacts, Context
            DEF Typed, Owned, Others, SeatPlace, PhyloPlace, PrinterPlace
  <1>6. GateInv'
    BY <1>1, <1>2, <1>4, PhyloFacts
       DEF GateInv, WaitersOK, OneInside, Held, InGate, Shut, Others
  <1>7. gate' \in Gate
    BY <1>1 DEF Gate
  <1>8. Phases(at', n', freed', sem')
    <2>1. Counts(at', n', freed')
      BY <1>1, <1>2, <1>3, SeatsInUse DEF Counts, Adding, Removes
    <2>2. \A i \in Seat : ~Lives(at', i) /\ ~(i < n')
      BY <1>1, <1>3, <1>4, PhyloFacts, SeatsInUse DEF Others, Lives
    <2>3. \A i \in Seat : sem'[i] # Closed <=> i < INITIAL_PHILO
      BY <1>1 DEF Closed
    <2> QED BY <1>2, <2>1, <2>2, <2>3 DEF Phases, Seats, Adding, Removes
  <1> QED BY <1>5, <1>6, <1>7, <1>8 DEF IInv, TypeOK, Typed, Owned, Gate, Place

LEMMA SetUpFailsStep ==
  ASSUME IInv, SetUpFails
  PROVE  IInv'
  <1>1. /\ at[Phylo] = "seat" /\ at' = [at EXCEPT ![Phylo] = "failed"]
        /\ UNCHANGED <<state, sem, gate, n, freed>>
    BY DEF SetUpFails, Goes
  <1>2. /\ at' \in [Process -> Place] /\ at'[Phylo] = "failed"
        /\ \A q \in Others(Phylo) : at'[q] = at[q]
    BY <1>1, PhyloFacts, Context DEF Typed, Place, PhyloPlace, Others
  <1>3. Typed(at') /\ Owned'
    BY <1>1, <1>2, PhyloFacts, Context DEF Typed, Owned, Others, PhyloPlace
  <1>4. Phases(at', n', freed', sem')
    BY <1>1, <1>2, PhyloFacts
       DEF IInv, Phases, Counts, Seats, Adding, Removes, Lives, Others
  <1>5. \A p \in Process : at'[p] \in InGate => at[p] \in InGate
    BY <1>2 DEF InGate, Others
  <1>6. \A p \in Process : at[p] \in Waiting => at'[p] \in Waiting
    BY <1>1, <1>2, InsideFacts DEF Waiting, Others
  <1> QED BY <1>1, <1>2, <1>3, <1>4, <1>5, <1>6, KeepGateStep DEF Shut

LEMMA StartPhilosopherStep ==
  ASSUME IInv, StartPhilosopher
  PROVE  IInv'
  <1>1. /\ at[Phylo] = "seat" /\ n < INITIAL_PHILO /\ at' = [at EXCEPT ![n] = "hungry"]
        /\ state' = [state EXCEPT ![n] = "DECIDING"] /\ n' = n + 1
        /\ UNCHANGED <<sem, gate, freed>>
    BY DEF StartPhilosopher
  <1>2. n \in Seat /\ n' \in 0..MAX_PHILO /\ at[n] = "dead"
    BY <1>1, SeatsInUse, Context
  <1>3. /\ at' \in [Process -> Place] /\ at'[n] = "hungry"
        /\ \A q \in Others(n) : at'[q] = at[q]
    BY <1>1, <1>2, PhyloFacts, Context DEF Typed, Place, SeatPlace, Others
  <1>4. Typed(at') /\ at'[Phylo] = at[Phylo] /\ at'[PrintTable] = at[PrintTable]
    BY <1>2, <1>3, PhyloFacts, Context DEF Typed, SeatPlace, Others
  <1>5. Owned'
    BY <1>1, <1>2, Context DEF Owned
  <1>6. Phases(at', n', freed', sem')
    <2>1. \A i \in Seat : Lives(at', i) <=> Lives(at, i) \/ i = n
      BY <1>3, PhyloFacts DEF Lives, Others
    <2>2. Counts(at', n', freed')
      BY <1>1, <1>4, SeatsInUse DEF IInv, Phases, Counts, Adding, Removes
    <2>3. \A i \in Seat : Lives(at', i) <=> i < n'
      <3>1. \A i \in Seat : Lives(at, i) <=> i < n
        BY <1>1 DEF IInv, Phases, Seats
      <3>2. \A i \in Seat : i < n' <=> i < n \/ i = n
        BY <1>1, SeatsInUse
      <3> QED BY <2>1, <3>1, <3>2
    <2>4. \A i \in Seat : sem'[i] # Closed <=> i < INITIAL_PHILO
      BY <1>1 DEF IInv, Phases, Seats
    <2> QED BY <1>1, <1>4, <2>2, <2>3, <2>4 DEF Phases, Seats, Adding, Removes
  <1>7. \A p \in Process : at'[p] \in InGate <=> at[p] \in InGate
    BY <1>2, <1>3 DEF InGate, Others
  <1>8. \A p \in Process : at[p] \in Waiting => at'[p] \in Waiting
    BY <1>3, InsideFacts DEF Waiting, Others
  <1> QED BY <1>1, <1>4, <1>5, <1>6, <1>7, <1>8, KeepGateStep

LEMMA StartTableStep ==
  ASSUME IInv, StartTable
  PROVE  IInv'
  <1> DEFINE out == [at EXCEPT ![Phylo] = "key", ![PrintTable] = "look"]
  <1>1. /\ n = INITIAL_PHILO /\ at[Phylo] = "seat" /\ LeaveGate(out, gate.waiters)
        /\ UNCHANGED <<state, sem, n, freed>>
    BY DEF StartTable
  <1>2. /\ out \in [Process -> Place] /\ out[Phylo] = "key" /\ out[PrintTable] = "look"
        /\ \A i \in Seat : out[i] = at[i]
        /\ \A q \in Process : q \in {Phylo, PrintTable} \/ out[q] = at[q]
    BY PhyloFacts, Context DEF Typed, Place, PhyloPlace, PrinterPlace
  <1> HIDE DEF out
  <1>3. Typed(out)
    BY <1>2, Context DEF Typed, PhyloPlace, PrinterPlace
  <1>4. at[Phylo] \in InGate /\ at[Phylo] \notin Shut /\ at[Phylo] \notin Waiting
    BY <1>1, InsideFacts DEF InGate, Shut, Waiting
  <1>5. \A q \in Process : out[q] \notin InGate
    BY <1>2, <1>4, PhyloFacts, Context DEF InGate
  <1>6. WaitersOK(out, gate.waiters)
    <2>1. "look" \in Waiting
      BY InsideFacts DEF Waiting
    <2> QED BY <1>2, <1>4, <2>1, Context DEF WaitersOK
  <1>7. Phases(out, n', freed', sem')
    <2>1. Counts(out, n', freed')
      BY <1>1, <1>2, SeatsInUse DEF IInv, Phases, Counts, Adding, Removes
    <2>2. \A i \in Seat : /\ Lives(out, i) <=> i < n'
                          /\ sem'[i] # Closed <=> i < n'
      BY <1>1, <1>2 DEF IInv, Phases, Seats, Lives
    <2> QED BY <1>2, <2>1, <2>2 DEF Phases, Seats, Adding, Removes
  <1>8. Owned' /\ gate.waiters \in Seq(Process)
    BY <1>1, Context DEF Owned
  <1> QED BY <1>1, <1>2, <1>3, <1>4, <1>5, <1>6, <1>7, <1>8, PhyloFacts, LeaveStep

LEMMA KeyAddStep ==
  ASSUME IInv, KeyAdd
  PROVE  IInv'
  <1>1. /\ n # MAX_PHILO /\ at[Phylo] = "key" /\ at' = [at EXCEPT ![Phylo] = "add"]
        /\ sem' = [sem EXCEPT ![n] = 1] /\ UNCHANGED <<state, gate, n, freed>>
    BY DEF KeyAdd, Goes
  <1>2. /\ at' \in [Process -> Place] /\ at'[Phylo] = "add"
        /\ \A q \in Others(Phylo) : at'[q] = at[q]
    BY <1>1, PhyloFacts, Context DEF Typed, Place, PhyloPlace, Others
  <1>3. Typed(at') /\ Owned'
    BY <1>1, <1>2, PhyloFacts, Context DEF Typed, Owned, Others, PhyloPlace
  <1>4. Phases(at', n', freed', sem')
    <2>1. Counts(at', n', freed')
      BY <1>1, <1>2, SeatsInUse DEF IInv, Phases, Counts, Adding, Removes
    <2>2. \A i \in Seat : Lives(at', i) <=> i < n'
      BY <1>1, <1>2, PhyloFacts DEF IInv, Phases, Seats, Lives, Others
    <2>3. \A i \in Seat : sem'[i] # Closed <=> sem[i] # Closed \/ i = n
      BY <1>1, Context DEF Owned, Closed
    <2>4. \A i \in Seat : sem[i] # Closed <=> i < n
      BY <1>1 DEF IInv, Phases, Seats
    <2>5. \A i \in Seat : i <= n <=> i < n \/ i = n
      BY SeatsInUse
    <2>6. \A i \in Seat : sem'[i] # Closed <=> i <= n'
      BY <1>1, <2>3, <2>4, <2>5
    <2> QED BY <1>2, <2>1, <2>2, <2>6 DEF Phases, Seats, Adding, Removes
  <1>5. \A p \in Process : at'[p] \in InGate <=> at[p] \in InGate
    BY <1>1, <1>2 DEF InGate, Others
  <1>6. \A p \in Process : at[p] \in Waiting => at'[p] \in Waiting
    BY <1>1, <1>2, InsideFacts DEF Waiting, Others
  <1> QED BY <1>1, <1>2, <1>3, <1>4, <1>5, <1>6, KeepGateStep DEF Shut

LEMMA KeyRemoveStep ==
  ASSUME IInv, KeyRemove
  PROVE  IInv'
  <1>1. /\ n # INITIAL_PHILO /\ at[Phylo] = "key" /\ at' = [at EXCEPT ![Phylo] = "remove"]
        /\ UNCHANGED <<state, sem, gate, n, freed>>
    BY DEF KeyRemove, Goes
  <1>2. /\ at' \in [Process -> Place] /\ at'[Phylo] = "remove"
        /\ \A q \in Others(Phylo) : at'[q] = at[q]
    BY <1>1, PhyloFacts, Context DEF Typed, Place, PhyloPlace, Others
  <1>3. Typed(at') /\ Owned'
    BY <1>1, <1>2, PhyloFacts, Context DEF Typed, Owned, Others, PhyloPlace
  <1>4. Phases(at', n', freed', sem')
    <2>1. Counts(at', n', freed')
      BY <1>1, <1>2, SeatsInUse DEF IInv, Phases, Counts, Adding, Removes
    <2>2. \A i \in Seat : Lives(at', i) <=> i < n'
      BY <1>1, <1>2, PhyloFacts DEF IInv, Phases, Seats, Lives, Others
    <2>3. \A i \in Seat : sem'[i] # Closed <=> i < n'
      BY <1>1 DEF IInv, Phases, Seats
    <2> QED BY <1>2, <2>1, <2>2, <2>3 DEF Phases, Seats, Adding, Removes
  <1>5. \A p \in Process : at'[p] \in InGate <=> at[p] \in InGate
    BY <1>1, <1>2 DEF InGate, Others
  <1>6. \A p \in Process : at[p] \in Waiting => at'[p] \in Waiting
    BY <1>1, <1>2, InsideFacts DEF Waiting, Others
  <1> QED BY <1>1, <1>2, <1>3, <1>4, <1>5, <1>6, KeepGateStep DEF Shut

LEMMA KeyQuitStep ==
  ASSUME IInv, KeyQuit
  PROVE  IInv'
  <1>1. /\ at[Phylo] = "key" /\ at' = [at EXCEPT ![Phylo] = "quit"]
        /\ UNCHANGED <<state, sem, gate, n, freed>>
    BY DEF KeyQuit, Goes
  <1>2. /\ at' \in [Process -> Place] /\ at'[Phylo] = "quit"
        /\ \A q \in Others(Phylo) : at'[q] = at[q]
    BY <1>1, PhyloFacts, Context DEF Typed, Place, PhyloPlace, Others
  <1>3. Typed(at') /\ Owned'
    BY <1>1, <1>2, PhyloFacts, Context DEF Typed, Owned, Others, PhyloPlace
  <1>4. Phases(at', n', freed', sem')
    <2>1. Counts(at', n', freed')
      BY <1>1, <1>2, SeatsInUse DEF IInv, Phases, Counts, Adding, Removes
    <2>2. \A i \in Seat : Lives(at', i) <=> i < n'
      BY <1>1, <1>2, PhyloFacts DEF IInv, Phases, Seats, Lives, Others
    <2>3. \A i \in Seat : sem'[i] # Closed <=> i < n'
      BY <1>1 DEF IInv, Phases, Seats
    <2>4. \A i \in Seat : freed' <= i
      BY <1>1, SeatsInUse DEF IInv, Phases, Counts
    <2> QED BY <1>2, <2>1, <2>2, <2>3, <2>4 DEF Phases, Seats, Adding, Removes
  <1>5. \A p \in Process : at'[p] \in InGate => at[p] \in InGate
    BY <1>1, <1>2 DEF InGate, Others
  <1>6. \A p \in Process : at[p] \in Waiting => at'[p] \in Waiting
    BY <1>1, <1>2, InsideFacts DEF Waiting, Others
  <1> QED BY <1>1, <1>2, <1>3, <1>4, <1>5, <1>6, KeepGateStep DEF Shut

LEMMA QuitFreesStep ==
  ASSUME IInv, QuitFrees
  PROVE  IInv'
  <1>1. /\ at[Phylo] = "quit" /\ freed < n
        /\ at' = [at EXCEPT ![freed] = "dead", ![Phylo] = "quit"]
        /\ sem' = [sem EXCEPT ![freed] = Closed] /\ freed' = freed + 1
        /\ UNCHANGED <<state, gate, n>>
    BY DEF QuitFrees, Killed
  <1>2. freed \in Seat /\ freed' \in 0..MAX_PHILO
    BY <1>1, SeatsInUse
  <1>3. /\ at' \in [Process -> Place] /\ at'[freed] = "dead" /\ at'[Phylo] = "quit"
        /\ \A q \in Others(freed) : at'[q] = at[q]
    BY <1>1, <1>2, PhyloFacts, Context DEF Typed, Place, SeatPlace, Others
  <1>4. Typed(at') /\ Owned'
    BY <1>1, <1>2, <1>3, PhyloFacts, Context DEF Typed, Owned, Others, SeatPlace
  <1>5. Phases(at', n', freed', sem')
    <2>1. Counts(at', n', freed')
      BY <1>1, <1>3, SeatsInUse DEF IInv, Phases, Counts, Adding, Removes
    <2>2. \A i \in Seat : Lives(at', i) <=> Lives(at, i) /\ i # freed
      BY <1>3, PhyloFacts DEF Lives, Others
    <2>3. \A i \in Seat : sem'[i] # Closed <=> sem[i] # Closed /\ i # freed
      BY <1>1, Context DEF Owned
    <2>4. \A i \in Seat : /\ Lives(at, i) <=> freed <= i /\ i < n
                          /\ sem[i] # Closed <=> freed <= i /\ i < n
      BY <1>1 DEF IInv, Phases, Seats
    <2>5. \A i \in Seat : freed' <= i <=> freed <= i /\ i # freed
      BY <1>1, <1>2, SeatsInUse
    <2>6. \A i \in Seat : /\ Lives(at', i) <=> freed' <= i /\ i < n'
                          /\ sem'[i] # Closed <=> freed' <= i /\ i < n'
      BY <1>1, <2>2, <2>3, <2>4, <2>5
    <2> QED BY <1>3, <2>1, <2>6 DEF Phases, Seats, Adding, Removes
  <1>6. \A p \in Process : at'[p] \in InGate => at[p] \in InGate
    BY <1>3 DEF InGate, Others
  <1>7. \A p \in Process : at[p] \in Waiting => at'[p] \in Waiting
    BY <1>3 DEF Waiting, Others
  <1> QED BY <1>1, <1>3, <1>4, <1>5, <1>6, <1>7, KeepGateStep DEF Shut

LEMMA QuitEndsStep ==
  ASSUME IInv, QuitEnds
  PROVE  IInv'
  <1>1. /\ at[Phylo] = "quit" /\ freed = n
        /\ at' = [at EXCEPT ![Phylo] = "gone", ![PrintTable] = "dead"]
        /\ gate' = [value |-> Closed, waiters |-> <<>>]
        /\ UNCHANGED <<state, sem, n, freed>>
    BY DEF QuitEnds
  <1>2. /\ at' \in [Process -> Place] /\ at'[Phylo] = "gone" /\ at'[PrintTable] = "dead"
        /\ \A i \in Seat : at'[i] = at[i]
    BY <1>1, PhyloFacts, Context DEF Typed, Place, PhyloPlace, PrinterPlace
  <1>3. \A i \in Seat : at[i] = "dead" /\ sem[i] = Closed
    <2>1. \A i \in Seat : ~(freed <= i /\ i < n)
      BY <1>1, SeatsInUse
    <2> QED BY <1>1, <2>1 DEF IInv, Phases, Seats, Lives
  <1>4. Typed(at') /\ Owned'
    BY <1>1, <1>2, Context DEF Typed, Owned, PhyloPlace, PrinterPlace
  <1>5. GateInv'
    <2>1. \A p \in Process : at'[p] \notin InGate
      BY <1>2, <1>3 DEF InGate, Process
    <2> QED BY <1>1, <1>2, <2>1 DEF GateInv, WaitersOK, OneInside, Shut
  <1>6. gate' \in Gate
    BY <1>1 DEF Gate
  <1>7. Phases(at', n', freed', sem')
    BY <1>1, <1>2, <1>3
       DEF IInv, Phases, Counts, Seats, Adding, Removes, Lives
  <1> QED BY <1>4, <1>5, <1>6, <1>7 DEF IInv, TypeOK, Typed, Owned, Gate, Place

LEMMA AddPhilosopherStep ==
  ASSUME IInv, AddPhilosopher
  PROVE  IInv'
  <1> DEFINE out == [at EXCEPT ![Phylo] = "key", ![n] = "hungry"]
  <1>1. /\ at[Phylo] = "adding" /\ LeaveGate(out, gate.waiters)
        /\ state' = [state EXCEPT ![n] = "DECIDING"] /\ n' = n + 1
        /\ UNCHANGED <<sem, freed>>
    BY DEF AddPhilosopher
  <1>2. n < MAX_PHILO /\ n >= INITIAL_PHILO /\ freed = 0
    BY <1>1 DEF IInv, Phases, Counts, Adding
  <1>3. n \in Seat /\ n' \in 0..MAX_PHILO /\ at[n] = "dead"
    BY <1>1, <1>2, SeatsInUse, Context
  <1>4. /\ out \in [Process -> Place] /\ out[Phylo] = "key" /\ out[n] = "hungry"
        /\ \A q \in Process : q \in {Phylo, n} \/ out[q] = at[q]
    BY <1>3, PhyloFacts, Context DEF Typed, Place, PhyloPlace, SeatPlace
  <1> HIDE DEF out
  <1>5. Typed(out) /\ out[PrintTable] = at[PrintTable]
    BY <1>3, <1>4, PhyloFacts, Context DEF Typed, PhyloPlace, SeatPlace
  <1>6. at[Phylo] \in InGate /\ at[Phylo] \notin Shut /\ at[Phylo] \notin Waiting
    BY <1>1, InsideFacts DEF InGate, Shut, Waiting
  <1>7. \A q \in Process : out[q] \notin InGate
    BY <1>4, <1>6, PhyloFacts, Context DEF InGate
  <1>8. WaitersOK(out, gate.waiters)
    <2>1. "hungry" \in Waiting
      BY InsideFacts DEF Waiting
    <2> QED BY <1>4, <1>6, <2>1, Context DEF WaitersOK
  <1>9. Phases(out, n', freed', sem')
    <2>1. Counts(out, n', freed')
      BY <1>1, <1>2, <1>4, SeatsInUse DEF Counts, Adding, Removes
    <2>2. \A i \in Seat : /\ Lives(out, i) <=> Lives(at, i) \/ i = n
                          /\ i < n' <=> i <= n
                          /\ i <= n <=> i < n \/ i = n
      BY <1>1, <1>4, PhyloFacts, SeatsInUse DEF Lives
    <2>3. \A i \in Seat : /\ Lives(at, i) <=> i < n
                          /\ sem[i] # Closed <=> i <= n
      BY <1>1 DEF IInv, Phases, Seats, Adding
    <2>4. \A i \in Seat : /\ Lives(out, i) <=> i < n'
                          /\ sem'[i] # Closed <=> i < n'
      BY <1>1, <2>2, <2>3
    <2> QED BY <1>4, <2>1, <2>4 DEF Phases, Seats, Adding, Removes
  <1>10. Owned' /\ gate.waiters \in Seq(Process)
    BY <1>1, <1>3, Context DEF Owned
  <1> QED BY <1>1, <1>4, <1>5, <1>6, <1>7, <1>8, <1>9, <1>10, PhyloFacts, LeaveStep

LEMMA AddFailsStep ==
  ASSUME IInv, AddFails
  PROVE  IInv'
  <1> DEFINE out == [at EXCEPT ![Phylo] = "key"]
  <1>1. /\ at[Phylo] = "adding" /\ LeaveGate(out, gate.waiters)
        /\ state' = [state EXCEPT ![n] = "DECIDING"]
        /\ sem' = [sem EXCEPT ![n] = Closed] /\ UNCHANGED <<n, freed>>
    BY DEF AddFails
  <1>2. n < MAX_PHILO /\ n >= INITIAL_PHILO /\ freed = 0
    BY <1>1 DEF IInv, Phases, Counts, Adding
  <1>3. /\ out \in [Process -> Place] /\ out[Phylo] = "key"
        /\ \A q \in Others(Phylo) : out[q] = at[q]
    BY PhyloFacts, Context DEF Typed, Place, PhyloPlace, Others
  <1> HIDE DEF out
  <1>4. Typed(out)
    BY <1>3, PhyloFacts, Context DEF Typed, PhyloPlace, Others
  <1>5. at[Phylo] \in InGate /\ at[Phylo] \notin Shut /\ at[Phylo] \notin Waiting
    BY <1>1, InsideFacts DEF InGate, Shut, Waiting
  <1>6. \A q \in Process : out[q] \notin InGate
    BY <1>3, <1>5, PhyloFacts, Context DEF InGate, Others
  <1>7. WaitersOK(out, gate.waiters)
    BY <1>3, <1>5, Context DEF WaitersOK, Others
  <1>8. Phases(out, n', freed', sem')
    <2>1. Counts(out, n', freed')
      BY <1>1, <1>2, <1>3, SeatsInUse DEF Counts, Adding, Removes
    <2>2. \A i \in Seat : /\ Lives(out, i) <=> Lives(at, i)
                          /\ sem'[i] # Closed <=> sem[i] # Closed /\ i # n
      BY <1>1, <1>3, PhyloFacts, Context DEF Lives, Others, Owned
    <2>3. \A i \in Seat : /\ Lives(at, i) <=> i < n
                          /\ sem[i] # Closed <=> i <= n
      BY <1>1 DEF IInv, Phases, Seats, Adding
    <2>4. \A i \in Seat : i <= n /\ i # n <=> i < n
      BY SeatsInUse
    <2>5. \A i \in Seat : /\ Lives(out, i) <=> i < n'
                          /\ sem'[i] # Closed <=> i < n'
      BY <1>1, <2>2, <2>3, <2>4
    <2> QED BY <1>3, <2>1, <2>5 DEF Phases, Seats, Adding, Removes
  <1>9. Owned' /\ gate.waiters \in Seq(Process)
    BY <1>1, Context DEF Owned
  <1> QED BY <1>1, <1>3, <1>4, <1>5, <1>6, <1>7, <1>8, <1>9, PhyloFacts, LeaveStep

(* Whoever still waits after WithoutWaiter(i) waited before, and is not i.  *)
LEMMA WithoutWaiterFacts ==
  ASSUME IInv, NEW i \in Process
  PROVE  /\ WithoutWaiter(i) \in Seq(Process)
         /\ \A k \in DOMAIN WithoutWaiter(i) :
               \E l \in DOMAIN gate.waiters : /\ WithoutWaiter(i)[k] = gate.waiters[l]
                                             /\ gate.waiters[l] # i
         /\ \A k, l \in DOMAIN WithoutWaiter(i) :
               WithoutWaiter(i)[k] = WithoutWaiter(i)[l] => k = l
  <1> DEFINE ws == gate.waiters
             places == {k \in DOMAIN ws : ws[k] = i}
             gone == CHOOSE k \in places : TRUE
  <1>1. ws \in Seq(Process) /\ \A k, l \in DOMAIN ws : ws[k] = ws[l] => k = l
    BY Context DEF WaitersOK
  <1>2. CASE places = {}
    <2>1. WithoutWaiter(i) = ws
      BY <1>2 DEF WithoutWaiter
    <2> QED BY <2>1, <1>1, <1>2
  <1>3. CASE places # {}
    <2>1. gone \in DOMAIN ws /\ ws[gone] = i
      BY <1>3
    <2>2. WithoutWaiter(i) = RemoveAt(ws, gone)
      BY <1>3 DEF WithoutWaiter
    <2> HIDE DEF gone
    <2> DEFINE len == Len(ws)
               head == SubSeq(ws, 1, gone - 1)
               tail == SubSeq(ws, gone + 1, len)
               rest == head \o tail
    <2>3. len \in Nat /\ DOMAIN ws = 1..len /\ gone \in 1..len
      BY <1>1, <2>1
    <2>4. /\ head \in Seq(Process) /\ Len(head) = gone - 1
          /\ \A k \in 1..(gone - 1) : head[k] = ws[k]
      BY <1>1, <2>3, SubSeqProperties
    <2>5. /\ tail \in Seq(Process) /\ Len(tail) = len - gone
          /\ \A k \in 1..(len - gone) : tail[k] = ws[gone + k]
      BY <1>1, <2>3, SubSeqProperties
    <2> HIDE DEF head, tail
    <2>6. /\ rest \in Seq(Process) /\ Len(rest) = len - 1 /\ DOMAIN rest = 1..(len - 1)
          /\ \A k \in 1..(len - 1) : rest[k] = IF k < gone THEN ws[k] ELSE ws[k + 1]
      <3>1. rest \in Seq(Process) /\ Len(rest) = len - 1
        <4>1. rest \in Seq(Process) /\ Len(rest) = Len(head) + Len(tail)
          BY <2>4, <2>5, ConcatProperties
        <4>2. Len(head) + Len(tail) = len - 1
          BY <2>3, <2>4, <2>5
        <4> QED BY <4>1, <4>2
      <3>2. ASSUME NEW k \in 1..(len - 1)
            PROVE  rest[k] = IF k < gone THEN ws[k] ELSE ws[k + 1]
        <4>1. rest[k] = IF k <= Len(head) THEN head[k] ELSE tail[k - Len(head)]
          BY <3>1, <2>4, <2>5, ConcatProperties
        <4>2. CASE k < gone
          BY <4>1, <4>2, <2>3, <2>4
        <4>3. CASE ~(k < gone)
          <5>1. k - Len(head) \in 1..(len - gone) /\ gone + (k - Len(head)) = k + 1
            BY <4>3, <2>3, <2>4
          <5> QED BY <4>1, <4>3, <5>1, <2>3, <2>4, <2>5
        <4> QED BY <4>2, <4>3
      <3> QED BY <3>1, <3>2
    <2>7. WithoutWaiter(i) = rest
      BY <2>2 DEF RemoveAt, head, tail
    <2> HIDE DEF rest
    <2>8. \A k \in 1..(len - 1) :
            LET l == IF k < gone THEN k ELSE k + 1
            IN l \in DOMAIN ws /\ l # gone /\ rest[k] = ws[l]
      BY <2>3, <2>6
    <2>9. \A k \in DOMAIN rest : \E l \in DOMAIN ws : rest[k] = ws[l] /\ ws[l] # i
      BY <2>1, <2>6, <2>8, <1>1
    <2>10. ASSUME NEW k \in 1..(len - 1), NEW l \in 1..(len - 1), rest[k] = rest[l]
           PROVE  k = l
      <3> DEFINE kk == IF k < gone THEN k ELSE k + 1
                 ll == IF l < gone THEN l ELSE l + 1
      <3>1. kk \in DOMAIN ws /\ ll \in DOMAIN ws /\ ws[kk] = ws[ll]
        BY <2>8, <2>10
      <3>2. kk = ll
        BY <3>1, <1>1
      <3> QED BY <3>2, <2>3
    <2> QED BY <2>6, <2>7, <2>9, <2>10
  <1> QED BY <1>2, <1>3

LEMMA RemovePhilosopherStep ==
  ASSUME IInv, RemovePhilosopher
  PROVE  IInv'
  <1> DEFINE last == n - 1
             out == [at EXCEPT ![last] = "dead", ![Phylo] = "key"]
             ws == WithoutWaiter(last)
  <1>1. /\ at[Phylo] = "kill" /\ LeaveGate(out, ws)
        /\ sem' = [sem EXCEPT ![last] = Closed] /\ n' = n - 1
        /\ UNCHANGED <<state, freed>>
    BY DEF RemovePhilosopher, Removing, Killed
  <1>2. n > INITIAL_PHILO /\ freed = 0
    BY <1>1 DEF IInv, Phases, Counts, Adding, Removes
  <1>3. last \in Seat /\ n' \in 0..MAX_PHILO /\ n' >= INITIAL_PHILO
    BY <1>1, <1>2, SeatsInUse
  <1>4. last \in Process /\ last # Phylo /\ last # PrintTable
    BY <1>3, PhyloFacts
  <1>5. /\ out \in [Process -> Place] /\ out[Phylo] = "key" /\ out[last] = "dead"
        /\ \A q \in Process : q \in {Phylo, last} \/ out[q] = at[q]
    BY <1>4, PhyloFacts, Context DEF Typed, Place, PhyloPlace, SeatPlace
  <1> HIDE DEF out
  <1>6. Typed(out) /\ out[PrintTable] = at[PrintTable]
    BY <1>4, <1>5, PhyloFacts, Context DEF Typed, PhyloPlace, SeatPlace
  <1>7. at[Phylo] \in InGate /\ at[Phylo] \notin Shut /\ at[Phylo] \notin Waiting
    BY <1>1, InsideFacts DEF InGate, Shut, Waiting
  <1>8. \A q \in Process : out[q] \notin InGate
    BY <1>5, <1>7, PhyloFacts, Context DEF InGate
  <1>9. ws \in Seq(Process) /\ WaitersOK(out, ws)
    <2>1. /\ ws \in Seq(Process)
          /\ \A k \in DOMAIN ws : \E l \in DOMAIN gate.waiters :
                ws[k] = gate.waiters[l] /\ gate.waiters[l] # last
          /\ \A k, l \in DOMAIN ws : ws[k] = ws[l] => k = l
      BY <1>4, WithoutWaiterFacts
    <2> HIDE DEF ws
    <2>2. ASSUME NEW k \in DOMAIN ws
          PROVE  out[ws[k]] \in Waiting
      <3>1. PICK l \in DOMAIN gate.waiters :
              ws[k] = gate.waiters[l] /\ gate.waiters[l] # last
        BY <2>1
      <3>2. gate.waiters[l] \in Process /\ at[gate.waiters[l]] \in Waiting
        BY Context DEF WaitersOK
      <3> QED BY <1>5, <1>7, <3>1, <3>2
    <2> QED BY <2>1, <2>2 DEF WaitersOK
  <1> HIDE DEF ws
  <1>10. Phases(out, n', freed', sem')
    <2>1. Counts(out, n', freed')
      BY <1>1, <1>2, <1>3, <1>5 DEF Counts, Adding, Removes
    <2>2. \A i \in Seat : /\ Lives(out, i) <=> Lives(at, i) /\ i # last
                          /\ sem'[i] # Closed <=> sem[i] # Closed /\ i # last
      BY <1>1, <1>5, PhyloFacts, Context DEF Lives, Owned
    <2>3. \A i \in Seat : /\ Lives(at, i) <=> i < n
                          /\ sem[i] # Closed <=> i < n
      BY <1>1 DEF IInv, Phases, Seats, Removes
    <2>4. \A i \in Seat : i < n /\ i # last <=> i < n'
      BY <1>1, SeatsInUse
    <2>5. \A i \in Seat : /\ Lives(out, i) <=> i < n'
                          /\ sem'[i] # Closed <=> i < n'
      BY <2>2, <2>3, <2>4
    <2> QED BY <1>5, <2>1, <2>5 DEF Phases, Seats, Adding, Removes
  <1>11. Owned'
    BY <1>1, <1>3, Context DEF Owned
  <1> QED BY <1>1, <1>5, <1>6, <1>7, <1>8, <1>9, <1>10, <1>11, PhyloFacts, LeaveStep

-----------------------------------------------------------------------------
LEMMA InitIInv == Init => IInv
  <1> SUFFICES ASSUME Init PROVE IInv
    OBVIOUS
  <1>1. /\ at \in [Process -> Place] /\ at[Phylo] = "begin" /\ at[PrintTable] = "dead"
        /\ \A i \in Seat : at[i] = "dead"
        /\ \A p \in Process : at[p] \notin InGate
    BY PhyloFacts DEF Init, Place, SeatPlace, PhyloPlace, InGate
  <1>2. TypeOK
    BY <1>1, SeatAssumption
       DEF Init, TypeOK, Place, SeatPlace, PhyloPlace, PrinterPlace
  <1>3. GateInv
    BY <1>1 DEF Init, GateInv, WaitersOK, OneInside, Shut
  <1>4. Phases(at, n, freed, sem)
    <2>1. \A i \in Seat : ~(i < n)
      BY SeatAssumption DEF Init, Seat
    <2> QED BY <1>1, <2>1
            DEF Init, Phases, Counts, Seats, Adding, Removes, Lives
  <1> QED BY <1>2, <1>3, <1>4 DEF IInv

LEMMA NextIInv == IInv /\ [Next]_vars => IInv'
  <1> SUFFICES ASSUME IInv, [Next]_vars PROVE IInv'
    OBVIOUS
  <1>1. CASE UNCHANGED vars
    BY <1>1 DEF vars, IInv, TypeOK, GateInv, WaitersOK, OneInside, Held
  <1>2. ASSUME NEW i \in Seat, Philosopher(i) PROVE IInv'
    BY <1>2, PhyloFacts, EnterGateStep, SitStep, RestStep DEF Philosopher
  <1>3. CASE Table
    BY <1>3, PhyloFacts, EnterGateStep, PrintPlatesStep DEF Table
  <1>4. CASE Program
    BY <1>4, PhyloFacts, EnterGateStep, SetUpStep, StartPhilosopherStep, StartTableStep,
       AddPhilosopherStep, AddFailsStep, RemovePhilosopherStep, QuitFreesStep, QuitEndsStep
       DEF Program
  <1>5. CASE Key
    BY <1>5, KeyAddStep, KeyRemoveStep, KeyQuitStep DEF Key
  <1>6. CASE SetUpFails
    BY <1>6, SetUpFailsStep
  <1> QED BY <1>1, <1>2, <1>3, <1>4, <1>5, <1>6 DEF Next

LEMMA Invariance == Spec => []IInv
  BY InitIInv, NextIInv, PTL DEF Spec

(* The table's variables keep their types in every reachable state: phylo   *)
(* never takes a seat that is not there, the gate never counts past 1, and  *)
(* whoever waits for it is a process of the table.                          *)
THEOREM PhilosophersTyped == Spec => []TypeOK
  <1>1. IInv => TypeOK
    BY DEF IInv
  <1> QED BY <1>1, Invariance, PTL

(* Until the table is closed the gate is free or exactly one process is     *)
(* inside it, however many philosophers come, and whoever removePhilosofer  *)
(* kills, at the gate or asleep.                                            *)
THEOREM GateNeverLost == Spec => []GateHeldOnce
  <1>1. IInv => GateHeldOnce
    <2> SUFFICES ASSUME IInv, Open PROVE GateHeldOnce
      BY DEF GateHeldOnce
    <2> DEFINE inside == {p \in DOMAIN at : at[p] \in InGate}
    <2>1. DOMAIN at = Process /\ OneInside(at, gate) /\ Held(at, gate)
      BY DEF IInv, TypeOK, GateInv, Open, Shut
    <2>2. CASE gate.value = 1
      <3>1. inside = {}
        BY <2>1, <2>2 DEF OneInside
      <3> HIDE DEF inside
      <3>2. gate.value + Cardinality(inside) = 1
        BY <2>2, <3>1, FS_EmptySet
      <3> QED BY <3>2 DEF GateHeldOnce, inside
    <2>3. CASE gate.value = 0
      <3>1. PICK p \in Process : at[p] \in InGate
        BY <2>1, <2>3 DEF Held
      <3>2. inside = {p}
        BY <2>1, <3>1 DEF OneInside
      <3> HIDE DEF inside
      <3>3. gate.value + Cardinality(inside) = 1
        BY <2>3, <3>2, FS_Singleton
      <3> QED BY <3>3 DEF GateHeldOnce, inside
    <2> QED BY <2>1, <2>2, <2>3 DEF Held
  <1> QED BY <1>1, Invariance, PTL

(* At every key the processes and the semaphores are those of the           *)
(* philosophers at the table, whatever starting one failed at; when phylo   *)
(* returns from 'q' it has left none, and the gate is closed.               *)
THEOREM TableAlwaysCleared == Spec => []TableCleared
  <1>1. IInv => TableCleared
    BY DEF IInv, GateInv, Phases, Seats, TableCleared, Alive, Lives
  <1> QED BY <1>1, Invariance, PTL

-----------------------------------------------------------------------------
(* A living philosopher at the place a, with its state and its semaphore.   *)
Meal(a, st, s) ==
  \/ a \in {"hungry", "sit"} /\ st = "DECIDING" /\ s \in {0, 1}
  \/ a = "asleep" /\ st = "WAITING" /\ s = 0
  \/ a \in {"eat", "rest"} /\ st = "WAITING" /\ s = 0
  \/ a \in {"eat", "rest"} /\ st = "EATING" /\ s \in {0, 1}
Meals(t) == \A i \in Seat : t.at[i] # "dead" => Meal(t.at[i], t.state[i], t.sem[i])
Now == [at |-> at, state |-> state, sem |-> sem]

(* Before the table is open everybody waits at the gate, and the semaphore  *)
(* of whoever is about to sit down has its first unit.                      *)
Arriving ==
  /\ at[Phylo] \in {"begin", "seat"} => \A i \in Seat : at[i] \in {"dead", "hungry"}
  /\ at[Phylo] = "seat" => \A i \in Seat : n <= i /\ i < INITIAL_PHILO => sem[i] = 1
  /\ Adding(at) => sem[n] = 1

MInv == IInv /\ Meals(Now) /\ Arriving

Spare(a, st, s) ==
  s + (IF a \in {"eat", "rest"} THEN 1 ELSE 0) - (IF st = "EATING" THEN 1 ELSE 0)
SpareAt(t, i) == Spare(t.at[i], t.state[i], t.sem[i])

LEMMA MealSpare ==
  ASSUME NEW a, NEW st, NEW s, Meal(a, st, s)
  PROVE  /\ Spare(a, st, s) \in {0, 1}
         /\ a \in {"eat", "rest"} /\ Spare(a, st, s) = 0 <=> st = "EATING" /\ s = 0
         /\ st = "EATING" => a \in {"eat", "rest"}
         /\ a = "asleep" => st = "WAITING"
         /\ a \in {"hungry", "sit"} => st = "DECIDING"
  BY DEF Meal, Spare

(* Being let into the gate makes no difference to a meal.                   *)
Same(a, b) == a = b \/ Enters(a, b)
LEMMA SameMeal ==
  ASSUME NEW a, NEW b, NEW st, NEW s, Same(a, b)
  PROVE  /\ Meal(a, st, s) => Meal(b, st, s)
         /\ Spare(a, st, s) = Spare(b, st, s)
         /\ a = "asleep" <=> b = "asleep"
         /\ a = "dead" <=> b = "dead"
         /\ a \in {"eat", "rest"} <=> b \in {"eat", "rest"}
  <1>1. \/ a = b
        \/ <<a, b>> \in {<<"hungry", "sit">>, <<"eat", "rest">>, <<"look", "print">>,
                         <<"add", "adding">>, <<"remove", "kill">>}
    BY InsideFacts DEF Same, Enters
  <1> QED BY <1>1 DEF Meal, Spare

-----------------------------------------------------------------------------
(* The macros LEFT and RIGHT.                                               *)

LEMMA OneTurn ==
  ASSUME NEW m \in Nat, m > 0, NEW r \in 0..(m - 1)
  PROVE  r % m = r /\ (r + m) % m = r
  OBVIOUS

LEMMA Around ==
  ASSUME NEW m \in Nat, m > 0, NEW i \in 0..(m - 1)
  PROVE  /\ (i + m - 1) % m = IF i = 0 THEN m - 1 ELSE i - 1
         /\ (i + 1) % m = IF i = m - 1 THEN 0 ELSE i + 1
  <1>1. CASE i = 0
    <2>1. i + m - 1 = m - 1 /\ m - 1 \in 0..(m - 1)
      BY <1>1
    <2> QED BY <1>1, <2>1, OneTurn
  <1>2. CASE i # 0
    <2>1. i + m - 1 = (i - 1) + m /\ i - 1 \in 0..(m - 1)
      BY <1>2
    <2> QED BY <1>2, <2>1, OneTurn
  <1>3. (i + 1) % m = IF i = m - 1 THEN 0 ELSE i + 1
    <2>1. CASE i = m - 1
      <3>1. i + 1 = 0 + m /\ 0 \in 0..(m - 1)
        BY <2>1
      <3> QED BY <2>1, <3>1, OneTurn
    <2>2. CASE i # m - 1
      <3>1. i + 1 \in 0..(m - 1)
        BY <2>2
      <3> QED BY <2>2, <3>1, OneTurn
    <2> QED BY <2>1, <2>2
  <1>4. (i + m - 1) % m = IF i = 0 THEN m - 1 ELSE i - 1
    BY <1>1, <1>2
  <1> QED BY <1>3, <1>4

LEMMA Beside ==
  ASSUME IInv, NEW i \in Seat, i < n
  PROVE  /\ Left(i) = IF i = 0 THEN n - 1 ELSE i - 1
         /\ Right(i) = IF i = n - 1 THEN 0 ELSE i + 1
         /\ Left(i) \in Seat /\ Right(i) \in Seat /\ Left(i) < n /\ Right(i) < n
  <1>1. n \in Nat /\ n > 0 /\ n <= MAX_PHILO /\ i \in 0..(n - 1) /\ Seat = 0..(MAX_PHILO - 1)
        /\ MAX_PHILO \in Nat
    BY SeatsInUse
  <1>2. /\ Left(i) = IF i = 0 THEN n - 1 ELSE i - 1
        /\ Right(i) = IF i = n - 1 THEN 0 ELSE i + 1
    BY <1>1, Around DEF Left, Right
  <1> QED BY <1>1, <1>2

(* Whoever has i beside it sits beside i.                                   *)
LEMMA Mutual ==
  ASSUME IInv, NEW i \in Seat, NEW j \in Seat, i < n, j < n, j \in {Left(i), Right(i)}
  PROVE  i \in {Left(j), Right(j)}
  <1>1. n \in Nat /\ i \in Nat /\ j \in Nat
    BY SeatsInUse
  <1> QED BY <1>1, Beside

-----------------------------------------------------------------------------
(* testEat.                                                                 *)

(* The philosopher k of the table t may eat.                                *)
Grants(t, k) ==
  /\ t.state[k] = "WAITING"
  /\ t.state[Left(k)] # "EATING" /\ t.state[Right(k)] # "EATING"

(* What testEat(k) makes of the table t.                                    *)
Served(t, u, k) ==
  /\ \A i \in Seat : u.state[i] = IF i = k /\ Grants(t, k) THEN "EATING" ELSE t.state[i]
  /\ \A p \in Process : u.at[p] = IF p = k /\ Grants(t, k) /\ t.at[p] = "asleep"
                                  THEN "eat" ELSE t.at[p]
  /\ \A i \in Seat \ {k} : u.sem[i] = t.sem[i]
  /\ \A i \in Seat : t.at[i] # "dead" => SpareAt(u, i) = SpareAt(t, i)
  /\ Meals(u)

LEMMA Serves ==
  ASSUME NEW t \in Plates, Meals(t), NEW k \in Seat
  PROVE  TestEat(t, k) \in Plates /\ Served(t, TestEat(t, k), k)
  <1> DEFINE u == TestEat(t, k)
             e == [t EXCEPT !.state[k] = "EATING"]
  <1>1. /\ t.at \in [Process -> Place] /\ t.sem \in [Seat -> Nat \cup {Closed}]
        /\ t.state \in [Seat -> {"WAITING", "DECIDING", "EATING"}]
        /\ k \in Process /\ \A i \in Seat : i \in Process
    BY PhyloFacts DEF Plates
  <1>2. CASE ~Grants(t, k)
    <2>1. u = t
      BY <1>2 DEF TestEat, Grants
    <2> QED BY <1>1, <1>2, <2>1, TestEatKeeps DEF Served
  <1>3. CASE Grants(t, k)
    <2>1. u = Granted(e, k)
      BY <1>3 DEF TestEat, Grants
    <2>2. /\ e.at = t.at /\ e.sem = t.sem
          /\ e.state = [t.state EXCEPT ![k] = "EATING"]
      BY DEF Plates
    <2>3. t.state[k] = "WAITING"
      BY <1>3 DEF Grants
    <2>4. CASE t.at[k] = "asleep"
      <3>1. u = [e EXCEPT !.at[k] = "eat"]
        BY <2>1, <2>2, <2>4 DEF Granted
      <3>2. u.sem = t.sem /\ u.state = e.state /\ u.at = [t.at EXCEPT ![k] = "eat"]
        BY <2>2, <3>1 DEF Plates
      <3>3. t.sem[k] = 0
        BY <2>4 DEF Meals, Meal
      <3>4. /\ SpareAt(u, k) = SpareAt(t, k) /\ Meal(u.at[k], u.state[k], u.sem[k])
        BY <1>1, <2>2, <2>3, <2>4, <3>2, <3>3 DEF SpareAt, Spare, Meal
      <3>5. \A i \in Seat \ {k} : u.at[i] = t.at[i] /\ u.state[i] = t.state[i] /\ u.sem[i] = t.sem[i]
        BY <1>1, <2>2, <3>2
      <3>6. \A i \in Seat : t.at[i] # "dead" => SpareAt(u, i) = SpareAt(t, i)
        BY <3>4, <3>5 DEF SpareAt
      <3>7. Meals(u)
        BY <3>4, <3>5 DEF Meals
      <3> QED BY <1>1, <1>3, <2>2, <2>4, <3>2, <3>5, <3>6, <3>7, TestEatKeeps DEF Served
    <2>5. CASE t.at[k] # "asleep"
      <3>1. u.at = t.at /\ u.state = e.state /\ u.sem \in [Seat -> Nat \cup {Closed}]
            /\ u.sem = IF t.sem[k] = Closed THEN t.sem ELSE [t.sem EXCEPT ![k] = @ + 1]
        <4>1. u = IF e.sem[k] = Closed THEN e ELSE [e EXCEPT !.sem[k] = @ + 1]
          BY <2>1, <2>2, <2>5 DEF Granted
        <4>2. u \in Plates
          BY TestEatKeeps
        <4> QED BY <2>2, <4>1, <4>2 DEF Plates
      <3>2. \A i \in Seat \ {k} : u.at[i] = t.at[i] /\ u.state[i] = t.state[i] /\ u.sem[i] = t.sem[i]
        BY <1>1, <2>2, <3>1
      <3>3. ASSUME t.at[k] # "dead"
            PROVE  /\ SpareAt(u, k) = SpareAt(t, k) /\ Meal(u.at[k], u.state[k], u.sem[k])
        <4>1. t.at[k] \in {"eat", "rest"} /\ t.sem[k] = 0
          BY <2>3, <2>5, <3>3 DEF Meals, Meal
        <4>2. u.sem[k] = 1 /\ u.state[k] = "EATING" /\ u.at[k] = t.at[k]
          BY <1>1, <2>2, <3>1, <4>1 DEF Closed
        <4> QED BY <2>3, <4>1, <4>2 DEF SpareAt, Spare, Meal
      <3>4. \A i \in Seat : t.at[i] # "dead" => SpareAt(u, i) = SpareAt(t, i)
        BY <3>2, <3>3 DEF SpareAt
      <3>5. Meals(u)
        BY <3>1, <3>2, <3>3 DEF Meals
      <3> QED BY <1>1, <1>3, <2>2, <2>5, <3>1, <3>2, <3>4, <3>5, TestEatKeeps DEF Served
    <2> QED BY <2>4, <2>5
  <1> QED BY <1>2, <1>3

(* testEat lets nobody eat beside somebody who does.                        *)
LEMMA ServesApart ==
  ASSUME IInv, NEW t, NEW u, NEW k \in Seat, Served(t, u, k),
         NEW i \in Seat, NEW j \in Seat, i # j, i < n, j < n, j \in {Left(i), Right(i)},
         u.state[i] = "EATING", u.state[j] = "EATING"
  PROVE  t.state[i] = "EATING" /\ t.state[j] = "EATING"
  <1>1. i \in {Left(j), Right(j)}
    BY Mutual
  <1> QED BY <1>1 DEF Served, Grants

-----------------------------------------------------------------------------
(* The gate, as far as meals go.                                            *)

LEMMA LetIn ==
  ASSUME IInv, NEW out \in [Process -> Place], NEW ws \in Seq(Process),
         \A k \in DOMAIN ws : \E l \in DOMAIN gate.waiters : ws[k] = gate.waiters[l],
         \A p \in Process : at[p] \in Waiting => out[p] \in Waiting,
         LeaveGate(out, ws)
  PROVE  \A p \in Process : Same(out[p], at'[p])
  <1> DEFINE alive == {k \in DOMAIN ws : out[ws[k]] # "dead"}
             first == CHOOSE k \in alive : \A l \in alive : k <= l
  <1>1. CASE alive = {}
    BY <1>1 DEF LeaveGate, Same
  <1>2. CASE alive # {}
    <2>1. at' = [out EXCEPT ![ws[first]] = Inside[out[ws[first]]]]
      BY <1>2 DEF LeaveGate
    <2>2. first \in alive
      <3>1. alive \in SUBSET Nat
        OBVIOUS
      <3> QED BY <3>1, <1>2, LeastElement
    <2>3. ws[first] \in Process /\ out[ws[first]] \in Waiting
      BY <2>2, Context DEF WaitersOK
    <2>4. out[ws[first]] \in DOMAIN Inside
      BY <2>2, <2>3 DEF Waiting
    <2> QED BY <2>1, <2>3, <2>4 DEF Same, Enters
  <1> QED BY <1>1, <1>2

LEMMA NowFacts ==
  ASSUME MInv
  PROVE  /\ IInv /\ Arriving
         /\ at \in [Process -> Place] /\ sem \in [Seat -> Nat \cup {Closed}]
         /\ state \in [Seat -> {"WAITING", "DECIDING", "EATING"}]
         /\ \A i \in Seat : at[i] # "dead" => Meal(at[i], state[i], sem[i])
  BY Context DEF MInv, Meals, Now, Typed, Owned

(* Philosopher i has sat down: it has leave, or eats its first meal, or     *)
(* sleeps until a neighbour rests.                                          *)
SitsDown(i) ==
  /\ \A p \in Process \ {i} : Same(at[p], at'[p])
  /\ \A j \in Seat \ {i} : state'[j] = state[j] /\ sem'[j] = sem[j]
  /\ at[i] = "sit" /\ state[i] = "DECIDING"
  /\ \/ /\ at'[i] \in {"eat", "rest"} /\ state'[i] = "EATING" /\ sem'[i] = sem[i]
        /\ state[Left(i)] # "EATING" /\ state[Right(i)] # "EATING"
     \/ at'[i] \in {"eat", "rest"} /\ state'[i] = "WAITING" /\ sem[i] = 1 /\ sem'[i] = 0
     \/ /\ at'[i] = "asleep" /\ state'[i] = "WAITING" /\ sem[i] = 0 /\ sem'[i] = 0
        /\ \E j \in {Left(i), Right(i)} \ {i} : state[j] = "EATING"

LEMMA Sits ==
  ASSUME MInv, NEW i \in Seat, Sit(i)
  PROVE  SitsDown(i)
  <1> DEFINE b == [at |-> at, state |-> [state EXCEPT ![i] = "WAITING"], sem |-> sem]
             t == TestEat(b, i)
             unit == t.sem[i] > 0
             out == [t.at EXCEPT ![i] = IF unit THEN "eat" ELSE "asleep"]
  <1>1. /\ at[i] = "sit" /\ LeaveGate(out, gate.waiters) /\ state' = t.state
        /\ sem' = IF unit THEN [t.sem EXCEPT ![i] = @ - 1] ELSE t.sem
    BY DEF Sit
  <1>2. /\ at \in [Process -> Place] /\ sem \in [Seat -> Nat \cup {Closed}]
        /\ state \in [Seat -> {"WAITING", "DECIDING", "EATING"}]
        /\ state[i] = "DECIDING" /\ sem[i] \in {0, 1} /\ i \in Process
    BY <1>1, NowFacts, MealSpare, PhyloFacts DEF Meal
  <1>3. i < n /\ Left(i) \in Seat /\ Right(i) \in Seat
    BY <1>1, NowFacts, Context, Beside
  <1> DEFINE calm == state[Left(i)] # "EATING" /\ state[Right(i)] # "EATING"
  <1>4. /\ t.at = at
        /\ t.state = [state EXCEPT ![i] = IF calm THEN "EATING" ELSE "WAITING"]
        /\ t.sem = IF calm THEN [sem EXCEPT ![i] = @ + 1] ELSE sem
    <2>1. b.state[Left(i)] # "EATING" /\ b.state[Right(i)] # "EATING" <=> calm
      BY <1>2, <1>3
    <2>2. CASE calm
      <3>1. t = Granted([b EXCEPT !.state[i] = "EATING"], i)
        BY <1>2, <2>1, <2>2 DEF TestEat
      <3>2. sem[i] # Closed /\ at[i] # "asleep"
        BY <1>1, <1>2 DEF Closed
      <3>3. t = [[b EXCEPT !.state[i] = "EATING"] EXCEPT !.sem[i] = @ + 1]
        BY <3>1, <3>2 DEF Granted
      <3> HIDE DEF t
      <3>4. /\ t.at = at /\ t.sem = [sem EXCEPT ![i] = @ + 1]
            /\ t.state = [[state EXCEPT ![i] = "WAITING"] EXCEPT ![i] = "EATING"]
        BY <3>3
      <3>5. t.state = [state EXCEPT ![i] = "EATING"]
        BY <1>2, <3>4
      <3> QED BY <2>2, <3>4, <3>5
    <2>3. CASE ~calm
      <3>1. t = b
        BY <2>1, <2>3 DEF TestEat
      <3> QED BY <2>3, <3>1
    <2> QED BY <2>2, <2>3
  <1> HIDE DEF t
  <1>5. \A p \in Process : Same(out[p], at'[p])
    <2>1. "eat" \in Place /\ "asleep" \in Place
      BY DEF Place, SeatPlace
    <2>2. out \in [Process -> Place] /\ \A p \in Process \ {i} : out[p] = at[p]
      BY <1>2, <1>4, <2>1
    <2>3. "sit" \notin Waiting
      BY PlaceFacts DEF InGate
    <2>4. gate.waiters \in Seq(Process)
      BY Context DEF MInv
    <2> HIDE DEF out
    <2> QED BY <1>1, <2>2, <2>3, <2>4, LetIn DEF MInv
  <1>6. \A p \in Process \ {i} : Same(at[p], at'[p])
    BY <1>2, <1>4, <1>5
  <1>7. CASE calm
    <2>1. unit /\ sem' = sem /\ state'[i] = "EATING" /\ \A j \in Seat \ {i} : state'[j] = state[j]
      BY <1>1, <1>2, <1>4, <1>7
    <2>2. Same("eat", at'[i])
      BY <1>2, <1>4, <1>5, <2>1
    <2>3. at'[i] \in {"eat", "rest"}
      BY <2>2, SameMeal
    <2> QED BY <1>1, <1>2, <1>6, <1>7, <2>1, <2>3 DEF SitsDown
  <1>8. CASE ~calm
    <2>1. state'[i] = "WAITING" /\ \A j \in Seat \ {i} : state'[j] = state[j]
      BY <1>1, <1>2, <1>4, <1>8
    <2>2. CASE sem[i] = 1
      <3>1. unit /\ sem'[i] = 0 /\ \A j \in Seat \ {i} : sem'[j] = sem[j]
        BY <1>1, <1>2, <1>4, <1>8, <2>2
      <3>2. Same("eat", at'[i])
        BY <1>2, <1>4, <1>5, <3>1
      <3>3. at'[i] \in {"eat", "rest"}
        BY <3>2, SameMeal
      <3> QED BY <1>1, <1>2, <1>6, <2>1, <2>2, <3>1, <3>3 DEF SitsDown
    <2>3. CASE sem[i] = 0
      <3>1. ~unit /\ sem' = sem
        BY <1>1, <1>2, <1>4, <1>8, <2>3
      <3>2. Same("asleep", at'[i])
        BY <1>2, <1>4, <1>5, <3>1
      <3>3. at'[i] = "asleep"
        BY <3>2, SameMeal
      <3>4. \E j \in {Left(i), Right(i)} \ {i} : state[j] = "EATING"
        BY <1>2, <1>8
      <3> QED BY <1>1, <1>2, <1>6, <2>1, <2>3, <3>1, <3>3, <3>4 DEF SitsDown
    <2> QED BY <1>2, <2>2, <2>3
  <1> QED BY <1>7, <1>8

(* Philosopher k has put its forks down, and after it the left and the      *)
(* right neighbour have been tested.                                        *)
PutDown(k) == [at |-> [at EXCEPT ![k] = "hungry"],
               state |-> [state EXCEPT ![k] = "DECIDING"], sem |-> sem]
Rested(k, u, t) ==
  /\ Meals(PutDown(k)) /\ Served(PutDown(k), u, Left(k)) /\ Served(u, t, Right(k))
  /\ state' = t.state /\ sem' = t.sem
  /\ \A p \in Process : Same(t.at[p], at'[p])

LEMMA Rests ==
  ASSUME MInv, NEW k \in Seat, Rest(k)
  PROVE  at[k] = "rest" /\ \E u, t : Rested(k, u, t)
  <1> DEFINE b == PutDown(k)
             u == TestEat(b, Left(k))
             t == TestEat(u, Right(k))
  <1>1. /\ at[k] = "rest" /\ LeaveGate(t.at, gate.waiters) /\ state' = t.state /\ sem' = t.sem
    BY DEF Rest, PutDown
  <1>2. /\ at \in [Process -> Place] /\ sem \in [Seat -> Nat \cup {Closed}]
        /\ state \in [Seat -> {"WAITING", "DECIDING", "EATING"}]
        /\ k \in Process /\ \A i \in Seat : i \in Process
    BY NowFacts, PhyloFacts
  <1>3. k < n /\ Left(k) \in Seat /\ Right(k) \in Seat
    BY <1>1, NowFacts, Context, Beside
  <1>4. b \in Plates
    <2>1. "hungry" \in Place
      BY DEF Place, SeatPlace
    <2> QED BY <1>2, <2>1 DEF Plates, PutDown
  <1>5. Meals(b)
    <2>1. sem[k] \in {0, 1}
      BY <1>1, NowFacts DEF Meal
    <2>2. Meal(b.at[k], b.state[k], b.sem[k])
      BY <1>2, <2>1 DEF Meal, PutDown
    <2>3. \A i \in Seat \ {k} : b.at[i] = at[i] /\ b.state[i] = state[i] /\ b.sem[i] = sem[i]
      BY <1>2 DEF PutDown
    <2> QED BY <2>2, <2>3, NowFacts DEF Meals
  <1> HIDE DEF b
  <1>6. u \in Plates /\ Served(b, u, Left(k)) /\ Meals(u)
    <2>1. u \in Plates /\ Served(b, u, Left(k))
      BY <1>3, <1>4, <1>5, Serves
    <2> HIDE DEF u
    <2> QED BY <2>1 DEF Served
  <1> HIDE DEF u
  <1>7. t \in Plates /\ Served(u, t, Right(k))
    BY <1>3, <1>6, Serves
  <1> HIDE DEF t
  <1>8. \A p \in Process : Same(t.at[p], at'[p])
    <2>1. t.at \in [Process -> Place] /\ gate.waiters \in Seq(Process)
      BY <1>7, NowFacts, Context DEF Plates
    <2>2. \A p \in Process : at[p] \in Waiting => t.at[p] \in Waiting
      <3>1. at[k] \notin Waiting
        BY <1>1, PlaceFacts DEF InGate
      <3>2. \A p \in Process \ {k} : b.at[p] = at[p]
        BY <1>2 DEF b, PutDown
      <3>3. \A p \in Process : at[p] \in Waiting => t.at[p] = at[p]
        BY <1>6, <1>7, <3>1, <3>2, PlaceFacts DEF Served
      <3> QED BY <3>3
    <2> QED BY <1>1, <2>1, <2>2, LetIn, NowFacts
  <1> QED BY <1>1, <1>5, <1>6, <1>7, <1>8 DEF Rested, b

-----------------------------------------------------------------------------
(* What a step must do with meals.                                          *)

Recorded ==
  /\ Meals(Now)'
  /\ \A i \in Seat : Alive(i) /\ Alive(i)' => Surplus(i)' <= Surplus(i)
  /\ Open /\ n' >= n =>
       \A i, j \in Seat : EatTogether(i, j)' => EatTogether(i, j)
  /\ Open /\ n' = n => \A i \in Seat : Forgotten(i)' => Forgotten(i)

LEMMA SurplusSpare ==
  \A i \in Seat : /\ Surplus(i) = Spare(at[i], state[i], sem[i])
                  /\ Surplus(i)' = Spare(at'[i], state'[i], sem'[i])
  BY DEF Surplus, Spare, Eats

(* Who eats together, both with leave, after a step that keeps the seats.   *)
LEMMA TogetherAfter ==
  ASSUME n' = n, NEW i \in Seat, NEW j \in Seat, EatTogether(i, j)',
         \A l \in Seat : at'[l] # "dead" => Meal(at'[l], state'[l], sem'[l])
  PROVE  /\ i # j /\ i < n /\ j < n /\ j \in {Left(i), Right(i)}
         /\ \A l \in {i, j} : /\ Eats(l)' /\ at'[l] # "dead" /\ Surplus(l)' = 0
                              /\ state'[l] = "EATING" /\ sem'[l] = 0
  <1>1. /\ i # j /\ i < n /\ j < n /\ j \in {Left(i), Right(i)}
        /\ \A l \in {i, j} : Eats(l)' /\ Surplus(l)' = 0
    BY DEF EatTogether, Neighbours, Left, Right
  <1>2. \A l \in {i, j} : /\ at'[l] \in {"eat", "rest"}
                         /\ Spare(at'[l], state'[l], sem'[l]) = 0
    BY <1>1, SurplusSpare DEF Eats
  <1>3. \A l \in {i, j} : at'[l] # "dead" /\ state'[l] = "EATING" /\ sem'[l] = 0
    BY <1>2, MealSpare
  <1> QED BY <1>1, <1>3

LEMMA SitRecorded ==
  ASSUME MInv, IInv', NEW k \in Seat, Sit(k)
  PROVE  Recorded
  <1>1. SitsDown(k) /\ n' = n
    BY Sits DEF Sit
  <1>2. k < n /\ Left(k) \in Seat /\ Right(k) \in Seat /\ k \in Process
        /\ \A i \in Seat : i \in Process
    BY <1>1, NowFacts, Context, Beside, PhyloFacts DEF SitsDown
  <1>3. \A i \in Seat \ {k} : /\ Same(at[i], at'[i])
                              /\ state'[i] = state[i] /\ sem'[i] = sem[i]
    BY <1>1, <1>2 DEF SitsDown
  <1>4. /\ Meal(at'[k], state'[k], sem'[k])
        /\ Spare(at'[k], state'[k], sem'[k]) <= Spare(at[k], state[k], sem[k])
    <2>1. Meal(at[k], state[k], sem[k])
      BY <1>1, NowFacts DEF SitsDown
    <2> QED BY <1>1, <2>1 DEF SitsDown, Meal, Spare
  <1>5. \A i \in Seat : at'[i] # "dead" => Meal(at'[i], state'[i], sem'[i])
    BY <1>3, <1>4, NowFacts, SameMeal
  <1>6. \A i \in Seat : Alive(i) /\ Alive(i)' => Surplus(i)' <= Surplus(i)
    <2>1. ASSUME NEW i \in Seat, at[i] # "dead"
          PROVE  Spare(at'[i], state'[i], sem'[i]) <= Spare(at[i], state[i], sem[i])
      BY <1>3, <1>4, <2>1, SameMeal, NowFacts, MealSpare
    <2> QED BY <2>1, SurplusSpare DEF Alive
  <1>7. ASSUME NEW i \in Seat, NEW j \in Seat, EatTogether(i, j)'
        PROVE  EatTogether(i, j)
    <2>1. /\ i # j /\ i < n /\ j < n /\ j \in {Left(i), Right(i)}
          /\ \A l \in {i, j} : /\ Eats(l)' /\ at'[l] # "dead" /\ Surplus(l)' = 0
                               /\ state'[l] = "EATING" /\ sem'[l] = 0
      BY <1>1, <1>5, <1>7, TogetherAfter
    <2>2. i \in {Left(j), Right(j)}
      BY <2>1, Mutual, NowFacts
    <2>3. i # k /\ j # k
      BY <1>1, <1>3, <2>1, <2>2 DEF SitsDown
    <2>4. \A l \in {i, j} : Eats(l) /\ Surplus(l) = 0
      <3>1. \A l \in {i, j} : /\ Spare(at'[l], state[l], sem[l]) = 0
                             /\ at'[l] \in {"eat", "rest"} /\ Same(at[l], at'[l])
        BY <1>3, <2>1, <2>3, SurplusSpare DEF Eats
      <3>2. \A l \in {i, j} : /\ Spare(at[l], state[l], sem[l]) = 0
                             /\ at[l] \in {"eat", "rest"}
        BY <3>1, SameMeal
      <3> QED BY <3>2, SurplusSpare DEF Eats
    <2> QED BY <2>1, <2>4 DEF EatTogether, Neighbours
  <1>8. ASSUME NEW i \in Seat, Forgotten(i)'
        PROVE  Forgotten(i)
    <2>1. /\ i < n /\ at'[i] = "asleep"
          /\ \A j \in {Left(i), Right(i)} : state'[j] # "EATING"
      BY <1>1, <1>8 DEF Forgotten, Left, Right
    <2>2. i # k
      BY <1>1, <1>2, <1>3, <2>1 DEF SitsDown
    <2>3. at[i] = "asleep"
      BY <1>3, <2>1, <2>2, SameMeal
    <2>4. \A j \in {Left(i), Right(i)} : state[j] # "EATING"
      BY <1>1, <1>3, <2>1, Beside, NowFacts DEF SitsDown
    <2> QED BY <2>1, <2>3, <2>4 DEF Forgotten
  <1> QED BY <1>5, <1>6, <1>7, <1>8 DEF Recorded, Meals, Now

LEMMA RestRecorded ==
  ASSUME MInv, IInv', NEW k \in Seat, Rest(k)
  PROVE  Recorded
  <1>1. at[k] = "rest" /\ n' = n /\ \E u, t : Rested(k, u, t)
    BY Rests DEF Rest
  <1>2. PICK u, t : Rested(k, u, t)
    BY <1>1
  <1> DEFINE b == PutDown(k)
  <1>3. k < n /\ Left(k) \in Seat /\ Right(k) \in Seat /\ k \in Process
        /\ \A i \in Seat : i \in Process
    BY <1>1, NowFacts, Context, Beside, PhyloFacts
  <1>4. /\ Meals(b) /\ Served(b, u, Left(k)) /\ Meals(u) /\ Served(u, t, Right(k)) /\ Meals(t)
        /\ state' = t.state /\ sem' = t.sem /\ \A p \in Process : Same(t.at[p], at'[p])
    BY <1>2 DEF Rested, Served
  <1>5. /\ b.at[k] = "hungry" /\ b.state[k] = "DECIDING" /\ b.sem[k] = sem[k]
        /\ \A i \in Seat \ {k} : b.at[i] = at[i] /\ b.state[i] = state[i] /\ b.sem[i] = sem[i]
    BY <1>3, NowFacts DEF PutDown
  <1> HIDE DEF b
  <1>6. \A i \in Seat : at'[i] # "dead" => Meal(at'[i], state'[i], sem'[i])
    BY <1>3, <1>4, SameMeal DEF Meals
  <1>7. \A i \in Seat : /\ b.at[i] # "dead" => u.at[i] # "dead"
                        /\ b.at[i] # "dead" => SpareAt(t, i) = SpareAt(b, i)
    BY <1>3, <1>4 DEF Served
  <1>8. \A i \in Seat : Alive(i) /\ Alive(i)' => Surplus(i)' <= Surplus(i)
    <2>1. \A i \in Seat : Surplus(i)' = SpareAt(t, i)
      <3>1. ASSUME NEW i \in Seat
            PROVE  Spare(at'[i], state'[i], sem'[i]) = SpareAt(t, i)
        <4>1. Same(t.at[i], at'[i]) /\ state'[i] = t.state[i] /\ sem'[i] = t.sem[i]
          BY <1>3, <1>4
        <4> QED BY <4>1, SameMeal DEF SpareAt
      <3> QED BY <3>1, SurplusSpare
    <2>2. ASSUME NEW i \in Seat, at[i] # "dead", i # k
          PROVE  SpareAt(t, i) = Surplus(i)
      BY <1>5, <1>7, <2>2, SurplusSpare DEF SpareAt
    <2>3. SpareAt(t, k) <= Surplus(k)
      <3>1. SpareAt(t, k) = SpareAt(b, k)
        BY <1>5, <1>7
      <3>2. SpareAt(b, k) <= Spare(at[k], state[k], sem[k])
        <4>1. Meal(at[k], state[k], sem[k])
          BY <1>1, NowFacts
        <4> QED BY <1>1, <1>5, <4>1 DEF SpareAt, Spare, Meal
      <3> QED BY <3>1, <3>2, SurplusSpare
    <2>4. \A i \in Seat : at[i] # "dead" => Surplus(i) <= Surplus(i)
      BY NowFacts, MealSpare, SurplusSpare
    <2> QED BY <2>1, <2>2, <2>3, <2>4 DEF Alive
  <1>9. ASSUME NEW i \in Seat, NEW j \in Seat, EatTogether(i, j)'
        PROVE  EatTogether(i, j)
    <2>1. /\ i # j /\ i < n /\ j < n /\ j \in {Left(i), Right(i)}
          /\ \A l \in {i, j} : /\ Eats(l)' /\ at'[l] # "dead" /\ Surplus(l)' = 0
                               /\ state'[l] = "EATING" /\ sem'[l] = 0
      BY <1>1, <1>6, <1>9, TogetherAfter
    <2>2. t.state[i] = "EATING" /\ t.state[j] = "EATING"
      BY <1>4, <2>1
    <2>3. u.state[i] = "EATING" /\ u.state[j] = "EATING"
      BY <1>3, <1>4, <2>1, <2>2, ServesApart, NowFacts
    <2>4. b.state[i] = "EATING" /\ b.state[j] = "EATING"
      BY <1>3, <1>4, <2>1, <2>3, ServesApart, NowFacts
    <2>5. i # k /\ j # k
      BY <1>5, <2>4
    <2>6. at[i] # "dead" /\ at[j] # "dead"
      <3>1. \A l \in {i, j} : t.at[l] # "dead"
        BY <1>3, <1>4, <2>1, SameMeal
      <3>2. \A l \in {i, j} : b.at[l] # "dead"
        BY <1>3, <1>4, <3>1 DEF Served
      <3> QED BY <1>5, <2>5, <3>2
    <2>7. \A l \in {i, j} : state[l] = "EATING" /\ Meal(at[l], state[l], sem[l])
      BY <1>5, <2>4, <2>5, <2>6, NowFacts
    <2>8. \A l \in {i, j} : Eats(l) /\ Surplus(l) = 0
      <3>1. \A l \in {i, j} : Spare(at'[l], state'[l], sem'[l]) = SpareAt(t, l)
        BY <1>3, <1>4, SameMeal DEF SpareAt
      <3>2. \A l \in {i, j} : SpareAt(t, l) = Spare(at[l], state[l], sem[l])
        BY <1>5, <1>7, <2>5, <2>6 DEF SpareAt
      <3> QED BY <2>1, <2>7, <3>1, <3>2, SurplusSpare, MealSpare DEF Eats
    <2> QED BY <2>1, <2>8 DEF EatTogether, Neighbours
  <1>10. ASSUME NEW i \in Seat, Forgotten(i)'
         PROVE  Forgotten(i)
    <2>1. /\ i < n /\ at'[i] = "asleep"
          /\ \A j \in {Left(i), Right(i)} : t.state[j] # "EATING"
      BY <1>1, <1>4, <1>10 DEF Forgotten, Left, Right
    <2>2. Left(i) \in Seat /\ Right(i) \in Seat /\ Left(i) < n /\ Right(i) < n
      BY <2>1, Beside, NowFacts
    <2>3. \A j \in {Left(i), Right(i)} : b.state[j] # "EATING" /\ u.state[j] # "EATING"
      BY <1>4, <2>1, <2>2 DEF Served
    <2>4. t.at[i] = "asleep"
      BY <1>3, <1>4, <2>1, SameMeal
    <2>5. u.at[i] = "asleep" /\ b.at[i] = "asleep"
      BY <1>3, <1>4, <2>4 DEF Served
    <2>6. i # k /\ at[i] = "asleep"
      BY <1>5, <2>5
    <2>7. b.state[i] = "WAITING" /\ u.state[i] = "WAITING"
      BY <1>4, <2>5, MealSpare DEF Meals
    <2>8. i # Left(k) /\ i # Right(k)
      <3>1. Grants(b, i) /\ Grants(u, i)
        BY <2>3, <2>7 DEF Grants
      <3>2. i # Left(k)
        BY <1>3, <1>4, <2>5, <3>1 DEF Served
      <3>3. i # Right(k)
        BY <1>3, <1>4, <2>4, <2>5, <3>1 DEF Served
      <3> QED BY <3>2, <3>3
    <2>9. k \notin {Left(i), Right(i)}
      BY <1>3, <2>1, <2>8, Mutual, NowFacts
    <2>10. \A j \in {Left(i), Right(i)} : state[j] # "EATING"
      BY <1>5, <2>2, <2>3, <2>9
    <2> QED BY <2>1, <2>6, <2>10 DEF Forgotten
  <1> QED BY <1>6, <1>8, <1>9, <1>10 DEF Recorded, Meals, Now

-----------------------------------------------------------------------------
(* Steps that let nobody eat: everybody is where out says, but for those    *)
(* who are let into the gate; some are killed, some sit down.               *)
Quiet(out) ==
  /\ \A p \in Process : Same(out[p], at'[p])
  /\ \A i \in Seat :
       \/ out[i] = at[i] /\ (at[i] # "dead" => state'[i] = state[i] /\ sem'[i] = sem[i])
       \/ out[i] = "dead"
       \/ at[i] = "dead" /\ out[i] = "hungry" /\ state'[i] = "DECIDING" /\ sem'[i] = 1
  /\ n' \in {n - 1, n, n + 1}
  /\ Open /\ n' >= n => \A i \in Seat : at[i] # "dead" => out[i] # "dead"

LEMMA QuietPlaces ==
  ASSUME MInv, NEW out, Quiet(out), NEW i \in Seat, at'[i] # "dead"
  PROVE  \/ /\ at[i] # "dead" /\ Same(at[i], at'[i])
            /\ state'[i] = state[i] /\ sem'[i] = sem[i]
         \/ /\ at[i] = "dead" /\ at'[i] \in {"hungry", "sit"}
            /\ state'[i] = "DECIDING" /\ sem'[i] = 1
  <1>1. Same(out[i], at'[i]) /\ out[i] # "dead"
    BY PhyloFacts, SameMeal DEF Quiet
  <1>2. CASE at[i] # "dead"
    BY <1>1, <1>2 DEF Quiet
  <1>3. CASE at[i] = "dead"
    <2>1. out[i] = "hungry" /\ state'[i] = "DECIDING" /\ sem'[i] = 1
      BY <1>1, <1>3 DEF Quiet
    <2>2. at'[i] \in {"hungry", "sit"}
      BY <1>1, <2>1, InsideFacts DEF Same, Enters
    <2> QED BY <1>3, <2>1, <2>2
  <1> QED BY <1>2, <1>3

(* When the table is open, the seats in use are those of the living.        *)
LEMMA OpenSeats ==
  ASSUME IInv, Open
  PROVE  \A i \in Seat : at[i] # "dead" <=> i < n
  BY DEF IInv, Phases, Seats, Lives, Open

LEMMA QuietRecorded ==
  ASSUME MInv, IInv', NEW out, Quiet(out)
  PROVE  Recorded
  <1>1. \A i \in Seat : at'[i] # "dead" => Meal(at'[i], state'[i], sem'[i])
    <2> SUFFICES ASSUME NEW i \in Seat, at'[i] # "dead"
                 PROVE  Meal(at'[i], state'[i], sem'[i])
      OBVIOUS
    <2>1. CASE at[i] # "dead"
      BY <2>1, QuietPlaces, SameMeal, NowFacts
    <2>2. CASE at[i] = "dead"
      <3>1. at'[i] \in {"hungry", "sit"} /\ state'[i] = "DECIDING" /\ sem'[i] = 1
        BY <2>2, QuietPlaces
      <3> QED BY <3>1 DEF Meal
    <2> QED BY <2>1, <2>2
  <1>2. \A i \in Seat : Alive(i) /\ Alive(i)' => Surplus(i)' <= Surplus(i)
    <2> SUFFICES ASSUME NEW i \in Seat, at[i] # "dead", at'[i] # "dead"
                 PROVE  Spare(at'[i], state'[i], sem'[i]) <= Spare(at[i], state[i], sem[i])
      BY SurplusSpare DEF Alive
    <2>1. Same(at[i], at'[i]) /\ state'[i] = state[i] /\ sem'[i] = sem[i]
      BY QuietPlaces
    <2>2. Spare(at'[i], state'[i], sem'[i]) = Spare(at[i], state[i], sem[i])
      BY <2>1, SameMeal
    <2> QED BY <2>2, NowFacts, MealSpare
  <1>3. ASSUME Open, n' >= n, NEW i \in Seat, NEW j \in Seat, EatTogether(i, j)'
        PROVE  EatTogether(i, j)
    <2>1. /\ i # j /\ i < n' /\ j < n'
          /\ j \in {(i + n' - 1) % n', (i + 1) % n'}
          /\ \A l \in {i, j} : at'[l] \in {"eat", "rest"} /\ Surplus(l)' = 0
      BY <1>3 DEF EatTogether, Neighbours, Left, Right, Eats
    <2>2. ASSUME NEW l \in {i, j}
          PROVE  at[l] # "dead" /\ Eats(l) /\ Surplus(l) = 0
      <3>1. l \in Seat /\ at'[l] # "dead" /\ at'[l] \notin {"hungry", "sit"}
        BY <2>1
      <3>2. /\ at[l] # "dead" /\ Same(at[l], at'[l])
            /\ state'[l] = state[l] /\ sem'[l] = sem[l]
        BY <3>1, QuietPlaces
      <3>3. at[l] \in {"eat", "rest"}
        BY <2>1, <3>2, SameMeal
      <3>4. Spare(at[l], state[l], sem[l]) = Spare(at'[l], state'[l], sem'[l])
        BY <3>2, SameMeal
      <3>5. Surplus(l) = Surplus(l)'
        BY <3>1, <3>4, SurplusSpare
      <3> QED BY <2>1, <3>2, <3>3, <3>5 DEF Eats
    <2>3. i < n /\ j < n
      BY <1>3, <2>2, OpenSeats, NowFacts
    <2>4. n \in Nat /\ i \in Nat /\ j \in Nat /\ (n' = n \/ n' = n + 1)
      <3>1. n \in Nat /\ i \in Nat /\ j \in Nat
        BY SeatsInUse, NowFacts
      <3>2. n' \in {n - 1, n, n + 1}
        BY DEF Quiet
      <3> QED BY <1>3, <3>1, <3>2
    <2>5. /\ (i + n' - 1) % n' = IF i = 0 THEN n' - 1 ELSE i - 1
          /\ (i + 1) % n' = IF i = n' - 1 THEN 0 ELSE i + 1
      <3>1. n' \in Nat /\ n' > 0 /\ i \in 0..(n' - 1)
        BY <2>3, <2>4
      <3>2. \A m \in Nat : m > 0 /\ i \in 0..(m - 1) =>
              /\ (i + m - 1) % m = IF i = 0 THEN m - 1 ELSE i - 1
              /\ (i + 1) % m = IF i = m - 1 THEN 0 ELSE i + 1
        BY Around
      <3> QED BY <3>1, <3>2
    <2>6. j \in {Left(i), Right(i)}
      <3>1. /\ Left(i) = IF i = 0 THEN n - 1 ELSE i - 1
            /\ Right(i) = IF i = n - 1 THEN 0 ELSE i + 1
        BY <2>3, Beside, NowFacts
      <3>2. \/ j = IF i = 0 THEN n' - 1 ELSE i - 1
            \/ j = IF i = n' - 1 THEN 0 ELSE i + 1
        BY <2>1, <2>5
      <3>3. \/ j = IF i = 0 THEN n - 1 ELSE i - 1
            \/ j = IF i = n - 1 THEN 0 ELSE i + 1
        BY <2>3, <2>4, <3>2
      <3> QED BY <3>1, <3>3
    <2> QED BY <2>1, <2>2, <2>3, <2>6 DEF EatTogether, Neighbours
  <1>4. ASSUME Open, n' = n, NEW i \in Seat, Forgotten(i)'
        PROVE  Forgotten(i)
    <2>1. /\ i < n /\ at'[i] = "asleep"
          /\ \A j \in {Left(i), Right(i)} : state'[j] # "EATING"
      BY <1>4 DEF Forgotten, Left, Right
    <2>2. at[i] = "asleep"
      BY <2>1, QuietPlaces, SameMeal
    <2>3. ASSUME NEW j \in {Left(i), Right(i)}
          PROVE  state'[j] = state[j]
      <3>1. j \in Seat /\ j < n
        BY <2>1, Beside, NowFacts
      <3>2. at[j] # "dead" /\ out[j] # "dead"
        <4>1. n \in Nat
          BY SeatsInUse, NowFacts
        <4> QED BY <1>4, <3>1, <4>1, OpenSeats, NowFacts DEF Quiet
      <3> QED BY <3>1, <3>2 DEF Quiet
    <2> QED BY <2>1, <2>2, <2>3 DEF Forgotten
  <1> QED BY <1>1, <1>2, <1>3, <1>4 DEF Recorded, Meals, Now

-----------------------------------------------------------------------------
(* The other steps are quiet, and whoever sits down finds its first unit.   *)

(* Nobody moves but phylo and the printer of the table.                     *)
Still(out) ==
  /\ \A p \in Process : Same(out[p], at'[p])
  /\ \A i \in Seat : out[i] = at[i]
  /\ \A i \in Seat : at[i] # "dead" => state'[i] = state[i] /\ sem'[i] = sem[i]
  /\ n' = n

LEMMA StillQuiet ==
  ASSUME MInv, NEW out, Still(out)
  PROVE  Quiet(out)
  <1>1. n \in Nat
    BY SeatsInUse, NowFacts
  <1> QED BY <1>1 DEF Still, Quiet

LEMMA PhyloStep ==
  ASSUME MInv, \A i \in Seat : at'[i] = at[i], UNCHANGED <<state, sem, n>>,
         at'[Phylo] \notin {"begin", "seat"}, Adding(at') => Adding(at)
  PROVE  Quiet(at') /\ Arriving'
  <1>1. Still(at')
    BY DEF Still, Same
  <1>2. Arriving'
    BY NowFacts DEF Arriving, Adding
  <1> QED BY <1>1, <1>2, StillQuiet

LEMMA EnterGateQuiet ==
  ASSUME MInv, NEW p \in Process, EnterGate(p)
  PROVE  Quiet(at) /\ Arriving'
  <1>1. UNCHANGED <<state, sem, n>> /\ at[p] \in DOMAIN Inside
    BY DEF EnterGate
  <1>2. \/ at' = at
        \/ gate.value > 0 /\ at' = [at EXCEPT ![p] = Inside[at[p]]]
    BY DEF EnterGate
  <1>3. \A q \in Process : Same(at[q], at'[q])
    BY <1>1, <1>2, NowFacts DEF Same, Enters
  <1>4. Still(at)
    BY <1>1, <1>3 DEF Still
  <1>5. at[Phylo] \in {"begin", "seat"} => at' = at
    <2>1. ASSUME at[Phylo] = "seat" PROVE ~(gate.value > 0)
      <3>1. gate.value \in {0, 1, Closed} /\ gate.value # 1
        BY <2>1, PhyloFacts, NowFacts DEF IInv, TypeOK, GateInv, OneInside, InGate
      <3> QED BY <3>1 DEF Closed
    <2>2. ASSUME at[Phylo] = "begin" PROVE FALSE
      <3>1. at[PrintTable] = "dead" /\ \A i \in Seat : at[i] = "dead"
        <4>1. n = 0
          BY <2>2, NowFacts DEF IInv, Phases, Counts
        <4>2. \A i \in Seat : ~(i < n)
          BY <4>1, SeatsInUse, NowFacts
        <4> QED BY <2>2, <4>2, NowFacts DEF IInv, Phases, Counts, Seats, Lives
      <3> QED BY <1>1, <2>2, <3>1, InsideFacts DEF Process
    <2> QED BY <1>2, <2>1, <2>2
  <1>6. /\ at'[Phylo] \in {"begin", "seat"} => at' = at
        /\ Adding(at') => Adding(at)
    <2>1. Same(at[Phylo], at'[Phylo])
      BY <1>3, PhyloFacts
    <2>2. \/ at'[Phylo] = at[Phylo]
          \/ at'[Phylo] \in {"sit", "rest", "print", "kill"}
          \/ at[Phylo] = "add" /\ at'[Phylo] = "adding"
      BY <2>1, InsideFacts DEF Same, Enters
    <2> QED BY <1>5, <2>2 DEF Adding
  <1>7. Arriving'
    BY <1>1, <1>6, NowFacts DEF Arriving, Adding
  <1> QED BY <1>4, <1>7, StillQuiet

LEMMA SetUpQuiet ==
  ASSUME MInv, SetUp
  PROVE  Quiet(at') /\ Arriving'
  <1>1. /\ at[Phylo] = "begin" /\ at' = [at EXCEPT ![Phylo] = "seat"]
        /\ sem' = [i \in Seat |-> IF i < INITIAL_PHILO THEN 1 ELSE Closed]
        /\ UNCHANGED <<state, n>>
    BY DEF SetUp, Goes
  <1>2. at'[Phylo] = "seat" /\ \A i \in Seat : at'[i] = at[i]
    BY <1>1, NowFacts, PhyloFacts
  <1>3. \A i \in Seat : at[i] = "dead"
    <2>1. n = 0
      BY <1>1, NowFacts DEF IInv, Phases, Counts
    <2>2. \A i \in Seat : ~(i < n)
      BY <2>1, SeatsInUse, NowFacts
    <2> QED BY <2>2, NowFacts DEF IInv, Phases, Seats, Lives
  <1>4. Still(at')
    BY <1>1, <1>2, <1>3 DEF Still, Same
  <1>5. Arriving'
    BY <1>1, <1>2, <1>3 DEF Arriving, Adding
  <1> QED BY <1>4, <1>5, StillQuiet

LEMMA SetUpFailsQuiet ==
  ASSUME MInv, SetUpFails
  PROVE  Quiet(at') /\ Arriving'
  <1>1. at' = [at EXCEPT ![Phylo] = "failed"] /\ UNCHANGED <<state, sem, n>>
    BY DEF SetUpFails, Goes
  <1>2. at'[Phylo] = "failed" /\ \A i \in Seat : at'[i] = at[i]
    BY <1>1, NowFacts, PhyloFacts
  <1> QED BY <1>1, <1>2, PhyloStep DEF Adding

LEMMA KeyRemoveQuiet ==
  ASSUME MInv, KeyRemove
  PROVE  Quiet(at') /\ Arriving'
  <1>1. at' = [at EXCEPT ![Phylo] = "remove"] /\ UNCHANGED <<state, sem, n>>
    BY DEF KeyRemove, Goes
  <1>2. at'[Phylo] = "remove" /\ \A i \in Seat : at'[i] = at[i]
    BY <1>1, NowFacts, PhyloFacts
  <1> QED BY <1>1, <1>2, PhyloStep DEF Adding

LEMMA KeyQuitQuiet ==
  ASSUME MInv, KeyQuit
  PROVE  Quiet(at') /\ Arriving'
  <1>1. at' = [at EXCEPT ![Phylo] = "quit"] /\ UNCHANGED <<state, sem, n>>
    BY DEF KeyQuit, Goes
  <1>2. at'[Phylo] = "quit" /\ \A i \in Seat : at'[i] = at[i]
    BY <1>1, NowFacts, PhyloFacts
  <1> QED BY <1>1, <1>2, PhyloStep DEF Adding

LEMMA KeyAddQuiet ==
  ASSUME MInv, KeyAdd
  PROVE  Quiet(at') /\ Arriving'
  <1>1. /\ n # MAX_PHILO /\ at[Phylo] = "key" /\ at' = [at EXCEPT ![Phylo] = "add"]
        /\ sem' = [sem EXCEPT ![n] = 1] /\ UNCHANGED <<state, n>>
    BY DEF KeyAdd, Goes
  <1>2. at'[Phylo] = "add" /\ \A i \in Seat : at'[i] = at[i]
    BY <1>1, NowFacts, PhyloFacts
  <1>3. n \in Seat
    BY <1>1, SeatsInUse, NowFacts
  <1>4. \A i \in Seat : at[i] # "dead" => i # n
    BY SeatsInUse, Context, NowFacts
  <1>5. Still(at')
    BY <1>1, <1>2, <1>4, NowFacts DEF Still, Same
  <1>6. Arriving'
    BY <1>1, <1>2, <1>3, NowFacts DEF Arriving
  <1> QED BY <1>5, <1>6, StillQuiet

LEMMA QuitEndsQuiet ==
  ASSUME MInv, QuitEnds
  PROVE  Quiet(at') /\ Arriving'
  <1>1. /\ at' = [at EXCEPT ![Phylo] = "gone", ![PrintTable] = "dead"]
        /\ UNCHANGED <<state, sem, n>>
    BY DEF QuitEnds
  <1>2. at'[Phylo] = "gone" /\ \A i \in Seat : at'[i] = at[i]
    BY <1>1, NowFacts, PhyloFacts
  <1>3. Still(at')
    BY <1>1, <1>2 DEF Still, Same
  <1>4. Arriving'
    BY <1>2 DEF Arriving, Adding
  <1> QED BY <1>3, <1>4, StillQuiet

LEMMA QuitFreesQuiet ==
  ASSUME MInv, QuitFrees
  PROVE  Quiet(at') /\ Arriving'
  <1>1. /\ at[Phylo] = "quit" /\ freed < n
        /\ at' = [at EXCEPT ![freed] = "dead", ![Phylo] = "quit"]
        /\ sem' = [sem EXCEPT ![freed] = Closed] /\ UNCHANGED <<state, n>>
    BY DEF QuitFrees, Killed
  <1>2. freed \in Seat
    BY <1>1, SeatsInUse, NowFacts
  <1>3. /\ at'[Phylo] = "quit" /\ at'[freed] = "dead"
        /\ \A i \in Seat \ {freed} : at'[i] = at[i] /\ sem'[i] = sem[i]
    BY <1>1, <1>2, NowFacts, PhyloFacts
  <1>4. Quiet(at')
    BY <1>1, <1>3 DEF Quiet, Same, Open
  <1>5. Arriving'
    BY <1>3 DEF Arriving, Adding
  <1> QED BY <1>4, <1>5

LEMMA StartPhilosopherQuiet ==
  ASSUME MInv, StartPhilosopher
  PROVE  Quiet(at') /\ Arriving'
  <1>1. /\ at[Phylo] = "seat" /\ n < INITIAL_PHILO /\ at' = [at EXCEPT ![n] = "hungry"]
        /\ state' = [state EXCEPT ![n] = "DECIDING"] /\ n' = n + 1 /\ UNCHANGED sem
    BY DEF StartPhilosopher
  <1>2. n \in Seat /\ at[n] = "dead"
    BY <1>1, SeatsInUse, Context, NowFacts
  <1>3. /\ at'[Phylo] = "seat" /\ at'[n] = "hungry" /\ state'[n] = "DECIDING"
        /\ \A i \in Seat \ {n} : at'[i] = at[i] /\ state'[i] = state[i]
    BY <1>1, <1>2, NowFacts, PhyloFacts
  <1>4. sem[n] = 1 /\ \A i \in Seat : n + 1 <= i /\ i < INITIAL_PHILO => sem[i] = 1
    <2>1. \A i \in Seat : n <= i /\ i < INITIAL_PHILO => sem[i] = 1
      BY <1>1, NowFacts DEF Arriving
    <2>2. \A i \in Seat : n + 1 <= i => n <= i
      BY SeatsInUse, NowFacts
    <2>3. n <= n
      BY SeatsInUse, NowFacts
    <2> QED BY <1>1, <1>2, <2>1, <2>2, <2>3
  <1>5. Quiet(at')
    BY <1>1, <1>2, <1>3, <1>4 DEF Quiet, Same
  <1>6. Arriving'
    BY <1>1, <1>3, <1>4, NowFacts DEF Arriving, Adding
  <1> QED BY <1>5, <1>6
(* Nobody but phylo is inside the gate before the table is open.            *)
LEMMA OpenInside ==
  ASSUME MInv, NEW p \in Process, p # Phylo, at[p] \in InGate
  PROVE  at[Phylo] \notin {"begin", "seat"}
  <1>1. ASSUME at[Phylo] = "seat" PROVE FALSE
    <2>1. at[Phylo] \in InGate
      BY <1>1 DEF InGate
    <2> QED BY <2>1, PhyloFacts, Context, NowFacts
  <1>2. ASSUME at[Phylo] = "begin" PROVE FALSE
    <2>1. n = 0 /\ at[PrintTable] = "dead"
      BY <1>2, NowFacts DEF IInv, Phases, Counts
    <2>2. \A i \in Seat : ~(i < n)
      BY <2>1, SeatsInUse, NowFacts
    <2>3. at[p] = "dead"
      BY <1>2, <2>1, <2>2, Context, NowFacts DEF Process
    <2> QED BY <2>3 DEF InGate
  <1> QED BY <1>1, <1>2

LEMMA ArrivingAfter ==
  ASSUME MInv, Same(at[Phylo], at'[Phylo]), at[Phylo] \notin {"begin", "seat"},
         n' = n, Adding(at) => sem'[n] = sem[n]
  PROVE  Arriving'
  <1>1. \/ at'[Phylo] = at[Phylo]
        \/ at'[Phylo] \in {"sit", "rest", "print", "kill"}
        \/ at[Phylo] = "add" /\ at'[Phylo] = "adding"
    BY InsideFacts DEF Same, Enters
  <1>2. at'[Phylo] \notin {"begin", "seat"} /\ (Adding(at') => Adding(at))
    BY <1>1 DEF Adding
  <1>3. Adding(at') => sem'[n'] = 1
    BY <1>2, NowFacts DEF Arriving
  <1> QED BY <1>2, <1>3 DEF Arriving, Adding

(* Phylo, back at its keys, is not let in.                                  *)
LEMMA ArrivingAtKey ==
  ASSUME Same("key", at'[Phylo])
  PROVE  Arriving'
  <1>1. at'[Phylo] = "key"
    BY InsideFacts DEF Same, Enters
  <1> QED BY <1>1 DEF Arriving, Adding

LEMMA LetInFromGate ==
  ASSUME MInv, NEW out \in [Process -> Place], LeaveGate(out, gate.waiters),
         \A p \in Process : at[p] \in Waiting => out[p] \in Waiting
  PROVE  \A p \in Process : Same(out[p], at'[p])
  BY Context, NowFacts, LetIn

LEMMA PrintPlatesGate ==
  ASSUME MInv, PrintPlates
  PROVE  \E out : Still(out) /\ out[Phylo] = at[Phylo]
  <1> DEFINE out == [at EXCEPT ![PrintTable] = "look"]
  <1>1. /\ at[PrintTable] = "print" /\ LeaveGate(out, gate.waiters)
        /\ UNCHANGED <<state, sem, n>>
    BY DEF PrintPlates
  <1>2. "look" \in Place /\ "look" \in Waiting
    BY InsideFacts DEF Place, PrinterPlace, Waiting
  <1>3. /\ out \in [Process -> Place] /\ out[PrintTable] = "look"
        /\ \A q \in Process \ {PrintTable} : out[q] = at[q]
    BY <1>2, NowFacts, PhyloFacts
  <1> HIDE DEF out
  <1>4. \A p \in Process : Same(out[p], at'[p])
    BY <1>1, <1>2, <1>3, LetInFromGate
  <1>5. Still(out)
    BY <1>1, <1>3, <1>4, PhyloFacts DEF Still
  <1> QED BY <1>3, <1>5, PhyloFacts

LEMMA PrintPlatesPhylo ==
  ASSUME MInv, PrintPlates
  PROVE  Same(at[Phylo], at'[Phylo])
  BY PrintPlatesGate, PhyloFacts DEF Still

LEMMA PrintPlatesQuiet ==
  ASSUME MInv, PrintPlates
  PROVE  (\E out : Quiet(out)) /\ Arriving'
  <1>1. at[PrintTable] \in InGate /\ UNCHANGED <<sem, n>>
    BY DEF PrintPlates, InGate
  <1>2. \E out : Quiet(out)
    BY PrintPlatesGate, StillQuiet
  <1>3. Arriving'
    BY <1>1, PrintPlatesPhylo, PhyloFacts, OpenInside, ArrivingAfter
  <1> QED BY <1>2, <1>3

LEMMA StartTableQuiet ==
  ASSUME MInv, StartTable
  PROVE  (\E out : Quiet(out)) /\ Arriving'
  <1> DEFINE out == [at EXCEPT ![Phylo] = "key", ![PrintTable] = "look"]
  <1>1. /\ at[Phylo] = "seat" /\ LeaveGate(out, gate.waiters) /\ UNCHANGED <<state, sem, n>>
    BY DEF StartTable
  <1>2. "look" \in Place /\ "key" \in Place /\ "look" \in Waiting /\ at[Phylo] \notin Waiting
    BY <1>1, InsideFacts DEF Place, PrinterPlace, PhyloPlace, Waiting
  <1>3. /\ out \in [Process -> Place] /\ out[PrintTable] = "look" /\ out[Phylo] = "key"
        /\ \A q \in Process \ {PrintTable, Phylo} : out[q] = at[q]
    BY <1>2, NowFacts, PhyloFacts
  <1> HIDE DEF out
  <1>4. \A p \in Process : Same(out[p], at'[p])
    BY <1>1, <1>2, <1>3, LetInFromGate
  <1>5. Still(out)
    BY <1>1, <1>3, <1>4, PhyloFacts DEF Still
  <1>6. Arriving'
    BY <1>3, <1>4, PhyloFacts, ArrivingAtKey
  <1> QED BY <1>5, <1>6, StillQuiet

LEMMA AddFailsQuiet ==
  ASSUME MInv, AddFails
  PROVE  (\E out : Quiet(out)) /\ Arriving'
  <1> DEFINE out == [at EXCEPT ![Phylo] = "key"]
  <1>1. /\ at[Phylo] = "adding" /\ LeaveGate(out, gate.waiters) /\ n' = n
        /\ state' = [state EXCEPT ![n] = "DECIDING"] /\ sem' = [sem EXCEPT ![n] = Closed]
    BY DEF AddFails
  <1>2. "key" \in Place /\ at[Phylo] \notin Waiting
    BY <1>1, InsideFacts DEF Place, PhyloPlace, Waiting
  <1>3. /\ out \in [Process -> Place] /\ out[Phylo] = "key"
        /\ \A q \in Process \ {Phylo} : out[q] = at[q]
    BY <1>2, NowFacts, PhyloFacts
  <1> HIDE DEF out
  <1>4. \A p \in Process : Same(out[p], at'[p])
    BY <1>1, <1>2, <1>3, LetInFromGate
  <1>5. \A i \in Seat : at[i] # "dead" => i # n
    BY SeatsInUse, Context, NowFacts
  <1>6. \A i \in Seat : at[i] # "dead" => state'[i] = state[i] /\ sem'[i] = sem[i]
    BY <1>1, <1>5, NowFacts
  <1>7. Still(out)
    BY <1>1, <1>3, <1>4, <1>6, PhyloFacts DEF Still
  <1>8. Arriving'
    BY <1>3, <1>4, PhyloFacts, ArrivingAtKey
  <1> QED BY <1>7, <1>8, StillQuiet

LEMMA AddPhilosopherQuiet ==
  ASSUME MInv, AddPhilosopher
  PROVE  (\E out : Quiet(out)) /\ Arriving'
  <1> DEFINE out == [at EXCEPT ![Phylo] = "key", ![n] = "hungry"]
  <1>1. /\ at[Phylo] = "adding" /\ LeaveGate(out, gate.waiters)
        /\ state' = [state EXCEPT ![n] = "DECIDING"] /\ n' = n + 1 /\ UNCHANGED sem
    BY DEF AddPhilosopher
  <1>2. "key" \in Place /\ "hungry" \in Place /\ "hungry" \in Waiting /\ at[Phylo] \notin Waiting
    BY <1>1, InsideFacts DEF Place, PhyloPlace, SeatPlace, Waiting
  <1>3. n \in Seat /\ at[n] = "dead" /\ sem[n] = 1
    <2>1. n < MAX_PHILO /\ sem[n] = 1
      BY <1>1, NowFacts DEF IInv, Phases, Counts, Arriving, Adding
    <2> QED BY <2>1, SeatsInUse, Context, NowFacts
  <1>4. /\ out \in [Process -> Place] /\ out[Phylo] = "key" /\ out[n] = "hungry"
        /\ \A q \in Process \ {Phylo, n} : out[q] = at[q]
    BY <1>2, <1>3, NowFacts, PhyloFacts
  <1> HIDE DEF out
  <1>5. \A p \in Process : Same(out[p], at'[p])
    BY <1>1, <1>2, <1>4, LetInFromGate
  <1>6. /\ state'[n] = "DECIDING" /\ sem'[n] = 1
        /\ \A i \in Seat \ {n} : state'[i] = state[i] /\ sem'[i] = sem[i] /\ out[i] = at[i]
    BY <1>1, <1>3, <1>4, NowFacts, PhyloFacts
  <1>7. Quiet(out)
    BY <1>1, <1>3, <1>4, <1>5, <1>6 DEF Quiet
  <1>8. Arriving'
    BY <1>4, <1>5, PhyloFacts, ArrivingAtKey
  <1> QED BY <1>7, <1>8

LEMMA RemovePhilosopherQuiet ==
  ASSUME MInv, RemovePhilosopher
  PROVE  (\E out : Quiet(out)) /\ Arriving'
  <1> DEFINE last == n - 1
             out == [at EXCEPT ![last] = "dead", ![Phylo] = "key"]
             ws == WithoutWaiter(last)
  <1>1. /\ at[Phylo] = "kill" /\ LeaveGate(out, ws) /\ n' = n - 1
        /\ sem' = [sem EXCEPT ![last] = Closed] /\ UNCHANGED state
    BY DEF RemovePhilosopher, Removing, Killed
  <1>2. n > INITIAL_PHILO
    BY <1>1, NowFacts DEF IInv, Phases, Counts, Removes
  <1>3. last \in Seat /\ last \in Process /\ last # Phylo /\ n' < n
    <2>1. last \in Seat /\ n' < n
      BY <1>1, <1>2, SeatsInUse, NowFacts
    <2> QED BY <2>1, PhyloFacts
  <1>4. "key" \in Place /\ "dead" \in Place /\ "dead" \in Waiting /\ at[Phylo] \notin Waiting
    BY <1>1, InsideFacts DEF Place, PhyloPlace, SeatPlace, Waiting
  <1>5. /\ out \in [Process -> Place] /\ out[Phylo] = "key" /\ out[last] = "dead"
        /\ \A q \in Process \ {Phylo, last} : out[q] = at[q]
    BY <1>3, <1>4, NowFacts, PhyloFacts
  <1> HIDE DEF out
  <1>6. /\ ws \in Seq(Process)
        /\ \A k \in DOMAIN ws : \E l \in DOMAIN gate.waiters : ws[k] = gate.waiters[l]
    BY <1>3, NowFacts, WithoutWaiterFacts
  <1>7. \A p \in Process : at[p] \in Waiting => out[p] \in Waiting
    BY <1>4, <1>5
  <1> HIDE DEF ws
  <1>8. \A p \in Process : Same(out[p], at'[p])
    BY <1>1, <1>5, <1>6, <1>7, NowFacts, LetIn
  <1>9. \A i \in Seat \ {last} : state'[i] = state[i] /\ sem'[i] = sem[i] /\ out[i] = at[i]
    BY <1>1, <1>3, <1>5, NowFacts, PhyloFacts
  <1>10. ~(n' >= n)
    BY <1>1, <1>3, SeatsInUse, NowFacts
  <1> HIDE DEF last
  <1>11. Quiet(out)
    BY <1>1, <1>5, <1>8, <1>9, <1>10 DEF Quiet
  <1>12. Arriving'
    BY <1>5, <1>8, PhyloFacts, ArrivingAtKey
  <1> QED BY <1>11, <1>12
LEMMA NewSeat ==
  ASSUME IInv, Adding(at)
  PROVE  n \in Seat
  <1>1. n < MAX_PHILO
    BY DEF IInv, Phases, Counts
  <1> QED BY <1>1, SeatsInUse

LEMMA SitArriving ==
  ASSUME MInv, NEW i \in Seat, Sit(i)
  PROVE  Arriving'
  <1>1. SitsDown(i) /\ n' = n
    BY Sits DEF Sit
  <1>2. at[i] \in InGate /\ at[i] # "dead" /\ i # Phylo /\ i \in Process
    BY <1>1, PhyloFacts DEF SitsDown, InGate
  <1>3. i # n
    BY <1>2, SeatsInUse, Context, NowFacts
  <1>4. Adding(at) => sem'[n] = sem[n]
    BY <1>1, <1>3, NewSeat, NowFacts DEF SitsDown
  <1>5. Same(at[Phylo], at'[Phylo])
    BY <1>1, <1>2, PhyloFacts DEF SitsDown
  <1> QED BY <1>1, <1>2, <1>4, <1>5, OpenInside, ArrivingAfter

LEMMA RestElsewhere ==
  ASSUME MInv, NEW k \in Seat, Rest(k)
  PROVE  /\ Same(at[Phylo], at'[Phylo])
         /\ \A i \in Seat : ~(i < n) => sem'[i] = sem[i]
  <1>1. at[k] = "rest" /\ \E u, t : Rested(k, u, t)
    BY Rests
  <1>2. PICK u, t : Rested(k, u, t)
    BY <1>1
  <1>3. k < n /\ Left(k) \in Seat /\ Right(k) \in Seat /\ Left(k) < n /\ Right(k) < n
    BY <1>1, NowFacts, Context, Beside
  <1>4. \A i \in Seat : ~(i < n) => sem'[i] = sem[i]
    BY <1>2, <1>3 DEF Rested, Served, PutDown
  <1>5. PutDown(k).at[Phylo] = at[Phylo]
    BY PhyloFacts, NowFacts DEF PutDown
  <1>6. t.at[Phylo] = at[Phylo]
    BY <1>2, <1>3, <1>5, PhyloFacts DEF Rested, Served
  <1> QED BY <1>2, <1>4, <1>6, PhyloFacts DEF Rested

LEMMA RestArriving ==
  ASSUME MInv, NEW k \in Seat, Rest(k)
  PROVE  Arriving'
  <1>1. at[k] \in InGate /\ k # Phylo /\ k \in Process /\ n' = n
    BY PhyloFacts DEF Rest, InGate
  <1>2. ~(n < n)
    BY SeatsInUse, NowFacts
  <1>3. Adding(at) => sem'[n] = sem[n]
    BY <1>2, NewSeat, NowFacts, RestElsewhere
  <1> QED BY <1>1, <1>3, RestElsewhere, OpenInside, ArrivingAfter

-----------------------------------------------------------------------------
LEMMA InitMInv == Init => MInv
  <1> SUFFICES ASSUME Init PROVE MInv
    OBVIOUS
  <1>1. \A i \in Seat : at[i] = "dead"
    BY PhyloFacts DEF Init
  <1>2. at[Phylo] = "begin"
    BY PhyloFacts DEF Init
  <1>3. Arriving
    BY <1>1, <1>2 DEF Arriving, Adding
  <1>4. Meals(Now)
    BY <1>1 DEF Meals, Now
  <1> QED BY <1>3, <1>4, InitIInv DEF MInv

(* Only sitting down and resting change who may eat.                        *)
LEMMA NextSteps ==
  ASSUME MInv, Next
  PROVE  ((\E out : Quiet(out)) \/ \E i \in Seat : Sit(i) \/ Rest(i)) /\ Arriving'
  <1> DEFINE Step == ((\E out : Quiet(out)) \/ \E i \in Seat : Sit(i) \/ Rest(i)) /\ Arriving'
  <1>1. ASSUME NEW p \in Process, EnterGate(p) PROVE Step
    BY <1>1, EnterGateQuiet
  <1>2. ASSUME NEW i \in Seat, Philosopher(i) PROVE Step
    <2>1. CASE EnterGate(i)
      BY <1>1, <2>1, PhyloFacts
    <2>2. CASE Sit(i)
      BY <2>2, SitArriving
    <2>3. CASE Rest(i)
      BY <2>3, RestArriving
    <2> QED BY <1>2, <2>1, <2>2, <2>3 DEF Philosopher
  <1>3. CASE Table
    BY <1>1, <1>3, PhyloFacts, PrintPlatesQuiet DEF Table
  <1>4. CASE Program
    <2>1. CASE EnterGate(Phylo)
      BY <1>1, <2>1, PhyloFacts
    <2>2. CASE SetUp
      BY <2>2, SetUpQuiet
    <2>3. CASE StartPhilosopher
      BY <2>3, StartPhilosopherQuiet
    <2>4. CASE StartTable
      BY <2>4, StartTableQuiet
    <2>5. CASE AddPhilosopher
      BY <2>5, AddPhilosopherQuiet
    <2>6. CASE AddFails
      BY <2>6, AddFailsQuiet
    <2>7. CASE RemovePhilosopher
      BY <2>7, RemovePhilosopherQuiet
    <2>8. CASE QuitFrees
      BY <2>8, QuitFreesQuiet
    <2>9. CASE QuitEnds
      BY <2>9, QuitEndsQuiet
    <2> QED BY <1>4, <2>1, <2>2, <2>3, <2>4, <2>5, <2>6, <2>7, <2>8, <2>9 DEF Program
  <1>5. CASE Key
    BY <1>5, KeyAddQuiet, KeyRemoveQuiet, KeyQuitQuiet DEF Key
  <1>6. CASE SetUpFails
    BY <1>6, SetUpFailsQuiet
  <1> QED BY <1>2, <1>3, <1>4, <1>5, <1>6 DEF Next

LEMMA NextRecorded ==
  ASSUME MInv, IInv', Next
  PROVE  Recorded /\ Arriving'
  BY NextSteps, QuietRecorded, SitRecorded, RestRecorded

LEMMA NextMInv == MInv /\ [Next]_vars => MInv'
  <1> SUFFICES ASSUME MInv, [Next]_vars PROVE MInv'
    OBVIOUS
  <1>1. IInv'
    BY NextIInv, NowFacts
  <1>2. CASE UNCHANGED vars
    BY <1>1, <1>2 DEF vars, MInv, Meals, Now, Arriving, Adding
  <1>3. CASE Next
    BY <1>1, <1>3, NextRecorded DEF MInv, Recorded
  <1> QED BY <1>2, <1>3

LEMMA MealsInvariance == Spec => []MInv
  BY InitMInv, NextMInv, PTL DEF Spec

(* The unit a philosopher's semaphore starts with is the only meal that     *)
(* testEat has not granted, and once eaten it does not come back, whoever   *)
(* sits down beside it or is taken away.                                    *)
THEOREM MealsAreGranted == Spec => MealsGranted
  <1>1. MInv /\ MInv' /\ [Next]_vars =>
          [\A i \in Seat :
             /\ i < n /\ i < n' /\ Open /\ Alive(i) /\ Alive(i)' =>
                  Surplus(i)' \in {0, 1} /\ Surplus(i)' <= Surplus(i)]_vars
    <2> SUFFICES ASSUME MInv, MInv', Next, NEW i \in Seat, Alive(i), Alive(i)'
                 PROVE  Surplus(i)' \in {0, 1} /\ Surplus(i)' <= Surplus(i)
      OBVIOUS
    <2>1. Recorded
      BY NextRecorded DEF MInv
    <2>2. Spare(at'[i], state'[i], sem'[i]) \in {0, 1}
      <3>1. Meal(at'[i], state'[i], sem'[i])
        BY <2>1 DEF Recorded, Meals, Now, Alive
      <3> QED BY <3>1, MealSpare
    <2>3. Surplus(i)' \in {0, 1}
      BY <2>2, SurplusSpare
    <2> QED BY <2>1, <2>3 DEF Recorded
  <1> QED BY <1>1, MealsInvariance, PTL DEF Spec, MealsGranted

(* Two neighbours who both eat with leave of testEat have done so since the *)
(* philosopher between them was removed: nothing else brings it about.      *)
THEOREM NeighboursStayApart == Spec => NeighboursApart
  <1>1. MInv /\ MInv' /\ [Next]_vars =>
          [Open /\ n' >= n =>
             \A i, j \in Seat : EatTogether(i, j)' => EatTogether(i, j)]_vars
    BY NextRecorded DEF MInv, Recorded
  <1> QED BY <1>1, MealsInvariance, PTL DEF Spec, NeighboursApart

(* As long as nobody sits down or leaves, no step makes a philosopher sleep *)
(* beside two who do not eat: philoRest forgets nobody.                     *)
THEOREM NobodyIsForgotten == Spec => NobodyForgotten
  <1>1. MInv /\ MInv' /\ [Next]_vars =>
          [Open /\ n' = n => \A i \in Seat : Forgotten(i)' => Forgotten(i)]_vars
    BY NextRecorded DEF MInv, Recorded
  <1> QED BY <1>1, MealsInvariance, PTL DEF Spec, NobodyForgotten
-----------------------------------------------------------------------------
(* Seat 1, between the seats 0 and 2 as long as there are three: whoever    *)
(* sleeps there sleeps beside somebody who eats.                            *)
Remembered ==
  Open /\ at[Phylo] # "seat" /\ at[1] = "asleep" => "EATING" \in {state[0], state[2]}

FirstThree ==
  /\ 0 \in Seat /\ 1 \in Seat /\ 2 \in Seat /\ 1 < n
  /\ at[0] # "dead" /\ at[2] # "dead"
  /\ Left(1) = 0 /\ Right(1) = 2

LEMMA FirstSeats ==
  INITIAL_PHILO >= 3 => (IInv /\ Open /\ at[Phylo] # "seat" => FirstThree)
  <1> SUFFICES ASSUME INITIAL_PHILO >= 3, IInv, Open, at[Phylo] # "seat"
               PROVE  FirstThree
    OBVIOUS
  <1>1. n >= INITIAL_PHILO
    <2>1. at[Phylo] = "key" \/ Adding(at) \/ Removes(at)
      BY Context DEF Typed, Open, PhyloPlace, Adding, Removes
    <2> QED BY <2>1, SeatsInUse DEF IInv, Phases, Counts
  <1>2. n >= 3 /\ 0 \in Seat /\ 1 \in Seat /\ 2 \in Seat /\ 0 < n /\ 1 < n /\ 2 < n /\ 1 # n - 1
    BY <1>1, SeatsInUse
  <1>3. at[0] # "dead" /\ at[2] # "dead"
    BY <1>2, OpenSeats
  <1>4. /\ Left(1) = IF 1 = 0 THEN n - 1 ELSE 1 - 1
        /\ Right(1) = IF 1 = n - 1 THEN 0 ELSE 1 + 1
    <2> DEFINE one == 1
    <2>1. one \in Seat /\ one < n
      BY <1>2
    <2> HIDE DEF one
    <2>2. /\ Left(one) = IF one = 0 THEN n - 1 ELSE one - 1
          /\ Right(one) = IF one = n - 1 THEN 0 ELSE one + 1
      BY <2>1, Beside
    <2> QED BY <2>2 DEF one
  <1>5. Left(1) = 0 /\ Right(1) = 2
    BY <1>2, <1>4
  <1> QED BY <1>2, <1>3, <1>5 DEF FirstThree

LEMMA FirstSeatsAfter ==
  INITIAL_PHILO >= 3 => (IInv' /\ Open' /\ (at[Phylo] # "seat")' => FirstThree')
  <1> DEFINE Three == INITIAL_PHILO >= 3
             Seated == IInv /\ Open /\ at[Phylo] # "seat" => FirstThree
  <1>1. Three => Seated
    BY FirstSeats
  <1>2. Three' => Seated'
    <2> HIDE DEF Three, Seated
    <2> QED BY <1>1, PTL
  <1> QED BY <1>2

(* Once the table is being closed it does not open again.                   *)
LEMMA NeverReopens ==
  ASSUME MInv, Next, at[Phylo] \in {"failed", "quit", "gone"}
  PROVE  ~Open'
  <1>1. ASSUME Same(at[Phylo], at'[Phylo]) PROVE ~Open'
    BY <1>1, InsideFacts DEF Same, Enters, Open
  <1>2. ASSUME NEW p \in Process, EnterGate(p) PROVE ~Open'
    <2>1. Same(at[Phylo], at'[Phylo])
      BY <1>2, EnterGateQuiet, PhyloFacts DEF Quiet
    <2> QED BY <1>1, <2>1
  <1>3. ASSUME NEW i \in Seat, Philosopher(i) PROVE ~Open'
    <2>1. CASE EnterGate(i)
      BY <1>2, <2>1, PhyloFacts
    <2>2. CASE Sit(i)
      <3>1. SitsDown(i)
        BY <2>2, Sits
      <3> QED BY <1>1, <3>1, PhyloFacts DEF SitsDown
    <2>3. CASE Rest(i)
      BY <1>1, <2>3, RestElsewhere
    <2> QED BY <1>3, <2>1, <2>2, <2>3 DEF Philosopher
  <1>4. CASE Table
    <2>1. CASE EnterGate(PrintTable)
      BY <1>2, <2>1, PhyloFacts
    <2>2. CASE PrintPlates
      BY <1>1, <2>2, PrintPlatesPhylo
    <2> QED BY <1>4, <2>1, <2>2 DEF Table
  <1>5. CASE Program
    <2>1. CASE EnterGate(Phylo)
      BY <1>2, <2>1, PhyloFacts
    <2>2. CASE QuitFrees
      <3>1. at'[Phylo] = "quit"
        BY <2>2, NowFacts, PhyloFacts DEF QuitFrees, Killed
      <3> QED BY <3>1 DEF Open
    <2>3. CASE QuitEnds
      <3>1. at'[Phylo] = "gone"
        BY <2>3, NowFacts, PhyloFacts DEF QuitEnds
      <3> QED BY <3>1 DEF Open
    <2> QED BY <1>5, <2>1, <2>2, <2>3 DEF Program, SetUp, Goes, StartPhilosopher, StartTable,
          AddPhilosopher, AddFails, RemovePhilosopher, Removing
  <1>6. CASE Key \/ SetUpFails
    BY <1>6 DEF Key, KeyAdd, KeyRemove, KeyQuit, SetUpFails, Goes
  <1> QED BY <1>3, <1>4, <1>5, <1>6 DEF Next

LEMMA NextRemembered ==
  ASSUME INITIAL_PHILO >= 3, MInv, Remembered, IInv', Next
  PROVE  Remembered'
  <1> SUFFICES ASSUME Open', at'[Phylo] # "seat", at'[1] = "asleep"
               PROVE  state'[0] = "EATING" \/ state'[2] = "EATING"
    BY DEF Remembered
  <1>1. /\ 0 \in Seat /\ 1 \in Seat /\ 2 \in Seat /\ (1 < n)'
        /\ at'[0] # "dead" /\ at'[2] # "dead" /\ (Left(1) = 0)' /\ (Right(1) = 2)'
    BY FirstSeatsAfter DEF FirstThree
  <1>2. Open \/ at[Phylo] = "begin"
    BY NeverReopens DEF Open
  <1>3. ASSUME at[Phylo] \notin {"begin", "seat"}
        PROVE  /\ Open /\ at[0] # "dead" /\ at[2] # "dead"
               /\ at[1] = "asleep" => state[0] = "EATING" \/ state[2] = "EATING"
    BY <1>2, <1>3, FirstSeats, NowFacts DEF FirstThree, Remembered
  <1>4. CASE \E out : Quiet(out)
    <2>1. PICK out : Quiet(out)
      BY <1>4
    <2>2. at[1] = "asleep"
      BY <1>1, <2>1, QuietPlaces, SameMeal
    <2>3. at[Phylo] \notin {"begin", "seat"}
      BY <1>1, <2>2, NowFacts DEF Arriving
    <2>4. state'[0] = state[0] /\ state'[2] = state[2]
      BY <1>1, <1>3, <2>1, <2>3, QuietPlaces
    <2> QED BY <1>3, <2>2, <2>3, <2>4
  <1>5. CASE \E i \in Seat : Sit(i) \/ Rest(i)
    <2>1. at[Phylo] \notin {"begin", "seat"} /\ n' = n
      BY <1>5, PhyloFacts, OpenInside DEF Sit, Rest, InGate
    <2>2. Forgotten(1)' => Forgotten(1)
      BY <1>1, <1>3, <2>1, NextRecorded DEF Recorded
    <2>3. ~Forgotten(1)
      BY <1>3, <2>1, FirstSeats, NowFacts DEF FirstThree, Forgotten
    <2> QED BY <1>1, <2>2, <2>3 DEF Forgotten
  <1> QED BY <1>4, <1>5, NextSteps

(* At a table of three or more the printer and the keys never find everybody *)
(* asleep, whoever came, left or was forgotten: the code opens it with five. *)
THEOREM SomebodyIsAwake ==
  ASSUME INITIAL_PHILO >= 3
  PROVE  Spec => []SomebodyAwake
  <1>1. Init => Remembered
    BY PhyloFacts DEF Init, Remembered, Open
  <1>2. MInv /\ MInv' /\ Remembered /\ [Next]_vars => Remembered'
    <2> SUFFICES ASSUME MInv, MInv', Remembered, [Next]_vars PROVE Remembered'
      OBVIOUS
    <2>1. CASE Next
      BY <2>1, NextRemembered DEF MInv
    <2>2. CASE UNCHANGED vars
      BY <2>2 DEF vars, Remembered, Open
    <2> QED BY <2>1, <2>2
  <1>3. MInv /\ Remembered => SomebodyAwake
    <2> SUFFICES ASSUME MInv, Remembered, Open, at[Phylo] # "seat"
                 PROVE  \E i \in 0..(n - 1) : at[i] # "asleep"
      BY DEF SomebodyAwake
    <2>1. /\ 0 \in Seat /\ 1 \in Seat /\ 2 \in Seat /\ 1 < n
          /\ at[0] # "dead" /\ at[2] # "dead"
      BY FirstSeats, NowFacts DEF FirstThree
    <2>2. n \in Nat /\ 0 < n /\ 2 < n
      BY <2>1, SeatsInUse, Context, NowFacts
    <2>3. at[1] = "asleep" => state[0] = "EATING" \/ state[2] = "EATING"
      BY DEF Remembered
    <2>4. \A j \in {0, 2} : state[j] = "EATING" => at[j] # "asleep"
      BY <2>1, NowFacts DEF Meal
    <2>5. \E i \in {0, 1, 2} : at[i] # "asleep"
      BY <2>3, <2>4
    <2> QED BY <2>1, <2>2, <2>5
  <1> QED BY <1>1, <1>2, <1>3, MealsInvariance, PTL DEF Spec

=============================================================================
