------------------------ MODULE ProcessManagerProofs ------------------------
(***************************************************************************)
(* Invariance proofs for ProcessManager: the type invariant, the exact     *)
(* counting of ready processes, the process queue and the pids, for any    *)
(* number of pcb addresses and any workload.                               *)
(*                                                                         *)
(* Every step is a change of the process table (an operator of             *)
(* ProcessManager on k = [pcb, sem, ready]) followed by a scheduling       *)
(* decision.  The first part shows that each operator keeps a table Good   *)
(* and moves no process; the second that each decision keeps the queue.    *)
(***************************************************************************)
EXTENDS ProcessManager, FiniteSetTheorems, SequenceTheorems,
        WellFoundedInduction, TLAPS

Pcb == [pid : Nat, ppid : Nat, fg : BOOLEAN, prio : Nat, state : State]
Semaphore == [value : Nat, waiters : Seq(Nat)]
Table == [pcb : [Slot -> Pcb], sem : [Sem -> Semaphore], ready : Int]

ReadySet(p) == {s \in Slot \ {Idle} : p[s].state = "READY"}

IdleOK(p) == /\ p[Idle].pid = IdlePid
             /\ p[Idle].ppid = 0
             /\ p[Idle].fg = FALSE
             /\ p[Idle].state = "READY"

(* What every table the steps go through satisfies. *)
Good(k) == /\ k \in Table
           /\ k.ready = Cardinality(ReadySet(k.pcb))
           /\ IdleOK(k.pcb)
           /\ \A x \in Sem : k.sem[x].value > 0 => k.sem[x].waiters = <<>>

(* Two tables with the same processes at the same addresses. *)
SameProcesses(p, q) ==
  \A s \in Slot : p[s].pid = q[s].pid /\ (p[s].state = NoPcb <=> q[s].state = NoPcb)

-----------------------------------------------------------------------------
(* Operations on tables. *)

(* The set of ready processes is finite. *)
LEMMA ReadyFinite == ASSUME NEW p PROVE IsFiniteSet(ReadySet(p))
  BY SlotAssumption, FS_Subset DEF ReadySet

LEMMA SameRefl == ASSUME NEW p PROVE SameProcesses(p, p)
  BY DEF SameProcesses

LEMMA SameTrans ==
  ASSUME NEW p, NEW q, NEW r, SameProcesses(p, q), SameProcesses(q, r)
  PROVE  SameProcesses(p, r)
  BY DEF SameProcesses

(* A change of state of a process other than idle keeps the count exact. *)
LEMMA SetStateGood ==
  ASSUME NEW k, Good(k), NEW s \in Slot, NEW state \in State \ {NoPcb},
         k.pcb[s].state # NoPcb,
         s = Idle => state = "READY"
  PROVE  /\ Good(SetState(k, s, state))
         /\ SameProcesses(k.pcb, SetState(k, s, state).pcb)
  <1> DEFINE l == SetState(k, s, state)
  <1>1. l.pcb = [k.pcb EXCEPT ![s].state = state] /\ l.sem = k.sem
    BY DEF Good, Table, SetState
  <1>2. l.ready = IF k.pcb[s].state # "READY" /\ state = "READY" THEN k.ready + 1
                  ELSE IF k.pcb[s].state = "READY" /\ state # "READY" THEN k.ready - 1
                  ELSE k.ready
    BY DEF Good, Table, SetState
  <1>3. l.pcb \in [Slot -> Pcb] /\ \A t \in Slot \ {s} : l.pcb[t] = k.pcb[t]
    BY <1>1 DEF Good, Table, Pcb, State
  <1>4. l.pcb[s] = [k.pcb[s] EXCEPT !.state = state] /\ k.pcb[s] \in Pcb
    BY <1>1 DEF Good, Table
  <1>5. /\ l.pcb[s].state = state /\ l.pcb[s].pid = k.pcb[s].pid
        /\ l.pcb[s].ppid = k.pcb[s].ppid /\ l.pcb[s].fg = k.pcb[s].fg
    BY <1>4 DEF Pcb
  <1>6. SameProcesses(k.pcb, l.pcb)
    BY <1>3, <1>5 DEF SameProcesses
  <1>7. IdleOK(l.pcb)
    BY <1>3, <1>5, SlotAssumption DEF Good, IdleOK
  <1>8. l \in Table
    <2>1. l.ready \in Int
      BY <1>2 DEF Good, Table
    <2> QED BY <2>1, <1>1, <1>3 DEF Good, Table, SetState
  <1>9. l.ready = Cardinality(ReadySet(l.pcb))
    <2> DEFINE R == ReadySet(k.pcb)
    <2>1. IsFiniteSet(R) /\ k.ready = Cardinality(R) /\ k.ready \in Int
      BY ReadyFinite DEF Good, Table
    <2>2. CASE s = Idle
      <3>1. ReadySet(l.pcb) = R
        BY <2>2, <1>3 DEF ReadySet
      <3> QED BY <3>1, <2>1, <2>2, <1>2 DEF Good, IdleOK
    <2>3. CASE s # Idle /\ state = "READY"
      <3>1. ReadySet(l.pcb) = R \cup {s}
        BY <2>3, <1>3, <1>5 DEF ReadySet
      <3>2. s \in R <=> k.pcb[s].state = "READY"
        BY <2>3 DEF ReadySet
      <3> QED BY <3>1, <3>2, <2>1, <2>3, <1>2, FS_AddElement
    <2>4. CASE s # Idle /\ state # "READY"
      <3>1. ReadySet(l.pcb) = R \ {s}
        BY <2>4, <1>3, <1>5 DEF ReadySet
      <3>2. s \in R <=> k.pcb[s].state = "READY"
        BY <2>4 DEF ReadySet
      <3>3. Cardinality(R \ {s}) = IF s \in R THEN Cardinality(R) - 1 ELSE Cardinality(R)
        BY <2>1, FS_RemoveElement
      <3> QED BY <3>1, <3>2, <3>3, <2>1, <2>4, <1>2
    <2> QED BY <2>2, <2>3, <2>4
  <1> QED BY <1>1, <1>6, <1>7, <1>8, <1>9 DEF Good

(* The pids a table refers to stay natural numbers when a semaphore changes. *)
LEMMA WithSemGood ==
  ASSUME NEW k, Good(k), NEW x \in Sem, NEW s \in Semaphore,
         s.value > 0 => s.waiters = <<>>
  PROVE  /\ Good(WithSem(k, x, s))
         /\ WithSem(k, x, s).pcb = k.pcb
  <1> DEFINE l == WithSem(k, x, s)
  <1>1. l.pcb = k.pcb /\ l.ready = k.ready /\ l.sem = [k.sem EXCEPT ![x] = s]
    BY DEF WithSem
  <1>2. l \in Table
    BY DEF Good, Table, WithSem
  <1>3. \A y \in Sem : l.sem[y] = IF y = x THEN s ELSE k.sem[y]
    BY <1>1 DEF Good, Table
  <1> QED BY <1>1, <1>2, <1>3 DEF Good

(* FirstOf picks the least element. *)
LEMMA FirstOfInSet ==
  ASSUME NEW S \in SUBSET Nat, S # {}
  PROVE  FirstOf(S) \in S
  <1>1. PICK i \in S : \A j \in S : ~(<<j, i>> \in OpToRel(<, Nat))
    BY NatLessThanWellFounded, WFMin
  <1>2. \A j \in S : ~(j < i)
    BY <1>1 DEF OpToRel
  <1>3. \A j \in S : i <= j
    BY <1>2
  <1> QED BY <1>3 DEF FirstOf

(* semPost: the unit goes to a waiter or is counted. *)
LEMMA PostGood ==
  ASSUME NEW k, Good(k), NEW x \in Sem,
         \A s \in Slot : Visible(s) => k.pcb[s].state # NoPcb
  PROVE  /\ Good(Post(k, x))
         /\ SameProcesses(k.pcb, Post(k, x).pcb)
  <1> DEFINE waiters == k.sem[x].waiters
             H == Handover(k, x)
             i == FirstOf(H)
             t == CHOOSE s \in Resumable(k, waiters[i]) : TRUE
             woken == [value |-> k.sem[x].value,
                       waiters |-> SubSeq(waiters, i + 1, Len(waiters))]
  <1>1. k.sem[x] \in Semaphore /\ waiters \in Seq(Nat) /\ k.sem[x].value \in Nat
    BY DEF Good, Table, Semaphore
  <1>2. CASE H = {}
    <2>1. NewSem(k.sem[x].value + 1) \in Semaphore
      BY <1>1, EmptySeq DEF NewSem, Semaphore
    <2>2. NewSem(k.sem[x].value + 1).waiters = <<>>
      BY DEF NewSem
    <2>3. Post(k, x) = WithSem(k, x, NewSem(k.sem[x].value + 1))
      BY <1>2 DEF Post
    <2>4. /\ Good(WithSem(k, x, NewSem(k.sem[x].value + 1)))
          /\ WithSem(k, x, NewSem(k.sem[x].value + 1)).pcb = k.pcb
      BY <2>1, <2>2, WithSemGood
    <2> QED BY <2>3, <2>4, SameRefl
  <1>3. CASE H # {}
    <2>1. H \in SUBSET Nat /\ H \subseteq 1..Len(waiters)
      BY <1>1 DEF Handover
    <2>2. i \in H
      BY <2>1, <1>3, FirstOfInSet
    <2>3. Resumable(k, waiters[i]) # {}
      BY <2>2 DEF Handover
    <2>4. t \in Resumable(k, waiters[i])
      BY <2>3
    <2>5. t \in Slot /\ k.pcb[t].state # NoPcb
      BY <2>4 DEF Resumable
    <2>6. i \in 1..Len(waiters)
      BY <2>1, <2>2
    <2>7. k.sem[x].value = 0
      <3>1. waiters # <<>>
        BY <2>6, EmptySeq
      <3> QED BY <3>1, <1>1 DEF Good
    <2>8. woken \in Semaphore /\ woken.value = 0
      <3>1. SubSeq(waiters, i + 1, Len(waiters)) \in Seq(Nat)
        <4>1. i + 1 \in Int /\ Len(waiters) \in Int
          BY <1>1, <2>6, LenProperties
        <4>2. \A j \in (i + 1)..Len(waiters) : waiters[j] \in Nat
          <5> SUFFICES ASSUME NEW j \in (i + 1)..Len(waiters)
                       PROVE  waiters[j] \in Nat
            OBVIOUS
          <5>1. j \in 1..Len(waiters)
            BY <4>1, <2>6
          <5> QED BY <5>1, <1>1, ElementOfSeq
        <4> QED BY <4>1, <4>2, SubSeqProperties
      <3> QED BY <3>1, <1>1, <2>7 DEF Semaphore
    <2>9. Good(WithSem(k, x, woken)) /\ WithSem(k, x, woken).pcb = k.pcb
      BY <2>8, WithSemGood
    <2>10. Post(k, x) = SetState(WithSem(k, x, woken), t, "READY")
      BY <1>3 DEF Post
    <2>11. /\ Good(SetState(WithSem(k, x, woken), t, "READY"))
           /\ SameProcesses(k.pcb, SetState(WithSem(k, x, woken), t, "READY").pcb)
      <3>1. "READY" \in State \ {NoPcb}
        BY DEF State, NoPcb
      <3> QED BY <2>5, <2>9, <3>1, SetStateGood
    <2> QED BY <2>10, <2>11
  <1> QED BY <1>2, <1>3

(* A table that differs in the parents of processes other than idle only.   *)
LEMMA ReparentGood ==
  ASSUME NEW k, Good(k), NEW l,
         l = [pcb |-> l.pcb, sem |-> k.sem, ready |-> k.ready],
         l.pcb \in [Slot -> Pcb],
         l.pcb[Idle] = k.pcb[Idle],
         \A s \in Slot : l.pcb[s].pid = k.pcb[s].pid /\ l.pcb[s].state = k.pcb[s].state
  PROVE  Good(l) /\ SameProcesses(k.pcb, l.pcb)
  <1>1. l \in Table /\ l.sem = k.sem /\ l.ready = k.ready
    BY DEF Good, Table
  <1>2. ReadySet(l.pcb) = ReadySet(k.pcb)
    BY DEF ReadySet
  <1>3. IdleOK(l.pcb)
    BY DEF Good, IdleOK
  <1>4. SameProcesses(k.pcb, l.pcb)
    BY DEF SameProcesses
  <1> QED BY <1>1, <1>2, <1>3, <1>4 DEF Good

(* sendTaskToInit changes parents only. *)
LEMMA SendTaskToInitGood ==
  ASSUME NEW k, Good(k), NEW dead \in Slot \ {Idle}, k.pcb[dead].pid # 0
  PROVE  LET l == SendTaskToInit(k, dead)
         IN  /\ Good(l)
             /\ SameProcesses(k.pcb, l.pcb)
             /\ \A s \in Slot : l.pcb[s].state = k.pcb[s].state
  <1> DEFINE l == SendTaskToInit(k, dead)
  <1>1. k.pcb \in [Slot -> Pcb] /\ Idle \in Slot
    BY SlotAssumption DEF Good, Table
  <1>2. l = [pcb |-> l.pcb, sem |-> k.sem, ready |-> k.ready]
    BY DEF SendTaskToInit
  <1>3. \A s \in Slot : l.pcb[s] = k.pcb[s] \/ l.pcb[s] = [k.pcb[s] EXCEPT !.ppid = InitPid]
    BY DEF SendTaskToInit
  <1>4. l.pcb = [s \in Slot |-> l.pcb[s]]
    BY DEF SendTaskToInit
  <1>5. \A s \in Slot : /\ l.pcb[s] \in Pcb
                        /\ l.pcb[s].pid = k.pcb[s].pid /\ l.pcb[s].state = k.pcb[s].state
    <2> SUFFICES ASSUME NEW s \in Slot
                 PROVE  /\ l.pcb[s] \in Pcb
                        /\ l.pcb[s].pid = k.pcb[s].pid /\ l.pcb[s].state = k.pcb[s].state
      OBVIOUS
    <2>1. k.pcb[s] \in Pcb
      BY <1>1
    <2>2. CASE l.pcb[s] = k.pcb[s]
      BY <2>1, <2>2
    <2>3. CASE l.pcb[s] = [k.pcb[s] EXCEPT !.ppid = InitPid]
      BY <2>1, <2>3 DEF Pcb, InitPid
    <2> QED BY <1>3, <2>2, <2>3
  <1>6. l.pcb \in [Slot -> Pcb]
    BY <1>4, <1>5
  <1>7. l.pcb[Idle] = k.pcb[Idle]
    <2>1. k.pcb[Idle].ppid = 0
      BY DEF Good, IdleOK
    <2>2. k.pcb[Idle].ppid # k.pcb[dead].pid /\ Idle # dead
      BY <2>1
    <2> QED BY <2>2, <1>1 DEF SendTaskToInit
  <1>8. Good(l) /\ SameProcesses(k.pcb, l.pcb)
    BY <1>2, <1>5, <1>6, <1>7, ReparentGood
  <1> QED BY <1>5, <1>8

(* changeState, for any process but idle. *)
LEMMA ChangeStateGood ==
  ASSUME NEW k, Good(k), NEW s \in Slot \ {Idle}, NEW state \in State \ {NoPcb},
         k.pcb[s].state # NoPcb, k.pcb[s].pid # 0,
         \A t \in Slot : Visible(t) => k.pcb[t].state # NoPcb
  PROVE  /\ Good(ChangeState(k, s, state))
         /\ SameProcesses(k.pcb, ChangeState(k, s, state).pcb)
  <1> DEFINE m == CASE state = "EXITED" -> Post(k, s)
                    [] state = "TERMINATED" -> SendTaskToInit(k, s)
                    [] OTHER -> k
  <1>1. Good(m) /\ SameProcesses(k.pcb, m.pcb)
    <2>1. CASE state = "EXITED"
      <3>1. s \in Sem
        BY DEF Sem
      <3> QED BY <2>1, <3>1, PostGood
    <2>2. CASE state = "TERMINATED"
      BY <2>2, SendTaskToInitGood
    <2>3. CASE state \notin {"EXITED", "TERMINATED"}
      BY <2>3, SameRefl
    <2> QED BY <2>1, <2>2, <2>3
  <1>2. m.pcb[s].state # NoPcb
    BY <1>1 DEF SameProcesses
  <1>3. ChangeState(k, s, state) = SetState(m, s, state)
    BY DEF ChangeState
  <1>4. Good(SetState(m, s, state)) /\ SameProcesses(m.pcb, SetState(m, s, state).pcb)
    BY <1>1, <1>2, SetStateGood
  <1> HIDE DEF m
  <1> QED BY <1>1, <1>3, <1>4, SameTrans

(* changeState with its early return. *)
LEMMA TryChangeStateGood ==
  ASSUME NEW k, Good(k), NEW s \in Slot \ {Idle}, NEW state \in State \ {NoPcb},
         k.pcb[s].state # NoPcb, k.pcb[s].pid # 0,
         \A t \in Slot : Visible(t) => k.pcb[t].state # NoPcb
  PROVE  /\ Good(TryChangeState(k, s, state))
         /\ SameProcesses(k.pcb, TryChangeState(k, s, state).pcb)
  BY ChangeStateGood, SameRefl DEF TryChangeState

(* The processes a kernel function can name are those of the table. *)
Reachable(k) == \A t \in Slot : Visible(t) => k.pcb[t].state # NoPcb
PidsPositive(k) == \A t \in Slot : k.pcb[t].state # NoPcb => k.pcb[t].pid # 0

LEMMA VisitedVisible ==
  ASSUME queue \in Seq(Slot), NEW s, Visited(s)
  PROVE  Visible(s)
  <1>1. Len(queue) \in Nat
    BY LenProperties
  <1> QED BY <1>1 DEF Visited, Visible, InQueue

(* terminateChildren: the children that were ready are no longer counted. *)
LEMMA TerminateChildrenGood ==
  ASSUME NEW k, Good(k), NEW parent \in Slot \ {Idle}, k.pcb[parent].state # NoPcb,
         queue \in Seq(Slot), Reachable(k), PidsPositive(k)
  PROVE  /\ Good(TerminateChildren(k, parent))
         /\ SameProcesses(k.pcb, TerminateChildren(k, parent).pcb)
  <1> DEFINE l == TerminateChildren(k, parent)
             child(s) == Visited(s) /\ k.pcb[s].ppid = k.pcb[parent].pid
             grandchild(s) == /\ Visited(s)
                              /\ k.pcb[s].state # "TERMINATED"
                              /\ \E c \in Slot : /\ child(c)
                                                 /\ k.pcb[c].state # "TERMINATED"
                                                 /\ k.pcb[s].ppid = k.pcb[c].pid
             R == ReadySet(k.pcb)
             D == {s \in Slot : child(s) /\ k.pcb[s].state = "READY"}
             after(s) == IF child(s)
                         THEN [k.pcb[s] EXCEPT !.ppid = InitPid, !.state = "TERMINATED"]
                         ELSE IF grandchild(s) THEN [k.pcb[s] EXCEPT !.ppid = InitPid]
                         ELSE k.pcb[s]
  <1>1. k.pcb \in [Slot -> Pcb] /\ Idle \in Slot
    BY SlotAssumption DEF Good, Table
  <1>2. l.pcb = [s \in Slot |-> after(s)] /\ l.sem = k.sem /\ l.ready = k.ready - Cardinality(D)
    BY DEF TerminateChildren
  <1>3. l = [pcb |-> l.pcb, sem |-> k.sem, ready |-> l.ready]
    BY DEF TerminateChildren
  <1>4. \A s \in Slot : child(s) => k.pcb[s].state # NoPcb /\ s # Idle
    <2> SUFFICES ASSUME NEW s \in Slot, child(s)
                 PROVE  k.pcb[s].state # NoPcb /\ s # Idle
      OBVIOUS
    <2>1. k.pcb[s].state # NoPcb
      BY VisitedVisible DEF Reachable
    <2>2. k.pcb[parent].pid # 0 /\ k.pcb[Idle].ppid = 0
      BY DEF PidsPositive, Good, IdleOK
    <2> QED BY <2>1, <2>2
  <1>5. ~child(Idle) /\ ~grandchild(Idle)
    <2>1. \A c \in Slot : child(c) => k.pcb[c].pid # 0
      BY <1>4 DEF PidsPositive
    <2>2. k.pcb[Idle].ppid = 0
      BY DEF Good, IdleOK
    <2> QED BY <2>1, <2>2, <1>4, <1>1
  <1>6. \A s \in Slot : /\ after(s) \in Pcb
                        /\ after(s).pid = k.pcb[s].pid
                        /\ after(s).state = IF child(s) THEN "TERMINATED" ELSE k.pcb[s].state
    <2> SUFFICES ASSUME NEW s \in Slot
                 PROVE  /\ after(s) \in Pcb
                        /\ after(s).pid = k.pcb[s].pid
                        /\ after(s).state = IF child(s) THEN "TERMINATED" ELSE k.pcb[s].state
      OBVIOUS
    <2>1. k.pcb[s] \in Pcb
      BY <1>1
    <2> HIDE DEF child, grandchild
    <2>2. CASE child(s)
      BY <2>1, <2>2 DEF Pcb, InitPid, State
    <2>3. CASE ~child(s) /\ grandchild(s)
      BY <2>1, <2>3 DEF Pcb, InitPid
    <2>4. CASE ~child(s) /\ ~grandchild(s)
      BY <2>1, <2>4 DEF Pcb
    <2> QED BY <2>2, <2>3, <2>4
  <1> HIDE DEF l, child, grandchild, after
  <1>7. /\ l.pcb \in [Slot -> Pcb]
        /\ \A s \in Slot : l.pcb[s].pid = k.pcb[s].pid
        /\ \A s \in Slot : l.pcb[s].state = IF child(s) THEN "TERMINATED" ELSE k.pcb[s].state
    BY <1>2, <1>6
  <1>8. SameProcesses(k.pcb, l.pcb)
    BY <1>7, <1>4 DEF SameProcesses, NoPcb
  <1>9. IdleOK(l.pcb)
    <2>1. l.pcb[Idle] = k.pcb[Idle]
      BY <1>1, <1>2, <1>5 DEF after
    <2> QED BY <2>1 DEF Good, IdleOK
  <1>10. ReadySet(l.pcb) = R \ D
    BY <1>7 DEF ReadySet
  <1>11. Cardinality(R \ D) = Cardinality(R) - Cardinality(D)
    <2>1. IsFiniteSet(R)
      BY ReadyFinite
    <2>2. R \cap D = D
      BY <1>4 DEF ReadySet
    <2> QED BY <2>1, <2>2, FS_Difference
  <1>12. l \in Table
    <2>1. D \subseteq Slot /\ IsFiniteSet(Slot)
      BY SlotAssumption
    <2>2. Cardinality(D) \in Nat
      BY <2>1, FS_Subset, FS_CardinalityType
    <2>3. l.ready \in Int
      BY <1>2, <2>2 DEF Good, Table
    <2> QED BY <1>3, <1>7, <2>3 DEF Good, Table
  <1>13. l.ready = Cardinality(ReadySet(l.pcb))
    BY <1>2, <1>10, <1>11 DEF Good
  <1> QED BY <1>2, <1>8, <1>9, <1>12, <1>13 DEF Good, l

(* semPost leaves terminated and ready processes as they are. *)
LEMMA PostStates ==
  ASSUME NEW k, Good(k), NEW x \in Sem, NEW s \in Slot,
         k.pcb[s].state \in {"TERMINATED", "READY"}
  PROVE  Post(k, x).pcb[s].state = k.pcb[s].state
  <1> DEFINE waiters == k.sem[x].waiters
             H == Handover(k, x)
             i == FirstOf(H)
             t == CHOOSE r \in Resumable(k, waiters[i]) : TRUE
             woken == [value |-> k.sem[x].value,
                       waiters |-> SubSeq(waiters, i + 1, Len(waiters))]
  <1>1. CASE H = {}
    BY <1>1 DEF Post, WithSem
  <1>2. CASE H # {}
    <2>1. H \in SUBSET Nat
      <3>1. waiters \in Seq(Nat)
        BY DEF Good, Table, Semaphore
      <3>2. Len(waiters) \in Nat
        BY <3>1, LenProperties
      <3> QED BY <3>2 DEF Handover
    <2>2. i \in H
      BY <2>1, <1>2, FirstOfInSet
    <2>3. t \in Resumable(k, waiters[i])
      BY <2>2 DEF Handover
    <2>4. t \in Slot /\ k.pcb[t].state # "TERMINATED"
      BY <2>3 DEF Resumable, Accepts
    <2>5. Post(k, x).pcb = [k.pcb EXCEPT ![t].state = "READY"]
      BY <1>2 DEF Post, SetState, WithSem
    <2>6. k.pcb \in [Slot -> Pcb]
      BY DEF Good, Table
    <2>7. t = s => k.pcb[s].state = "READY" /\ Post(k, x).pcb[s].state = "READY"
      <3> HIDE DEF t
      <3>1. k.pcb[t] \in Pcb
        BY <2>4, <2>6
      <3>2. [k.pcb[t] EXCEPT !.state = "READY"].state = "READY"
        BY <3>1 DEF Pcb
      <3>3. Post(k, x).pcb[t].state = "READY"
        BY <2>4, <2>5, <2>6, <3>2
      <3> QED BY <2>4, <3>3
    <2>8. t # s => Post(k, x).pcb[s] = k.pcb[s]
      BY <2>4, <2>5, <2>6
    <2> QED BY <2>7, <2>8
  <1> QED BY <1>1, <1>2

(* freeProcess removes one terminated process and nothing else. *)
LEMMA FreedGood ==
  ASSUME Good(K), NEW s \in Slot \ {Idle}, pcb[s].state = "TERMINATED",
         Reachable(K)
  PROVE  /\ Good(Freed(s))
         /\ Freed(s).pcb[s].state = NoPcb
         /\ \A t \in Slot \ {s} : /\ Freed(s).pcb[t].pid = pcb[t].pid
                                  /\ Freed(s).pcb[t].state = NoPcb <=> pcb[t].state = NoPcb
         /\ \A t \in Slot \ {s} : pcb[t].state = "READY" => Freed(s).pcb[t].state = "READY"
  <1> DEFINE k == IF sem[s].value = 0 THEN Post(K, s) ELSE K
             l == Freed(s)
  <1>1. K.pcb = pcb /\ K.sem = sem
    BY DEF K
  <1>2. s \in Sem
    BY DEF Sem
  <1>3. Good(k) /\ SameProcesses(pcb, k.pcb) /\ k.pcb[s].state = "TERMINATED"
    BY <1>1, <1>2, PostGood, PostStates, SameRefl DEF Reachable
  <1>14. \A t \in Slot : pcb[t].state = "READY" => k.pcb[t].state = "READY"
    BY <1>1, <1>2, PostStates
  <1> HIDE DEF k
  <1>4. k.pcb \in [Slot -> Pcb] /\ k.sem \in [Sem -> Semaphore] /\ k.ready \in Int
    BY <1>3 DEF Good, Table
  <1>5. l = [pcb |-> [k.pcb EXCEPT ![s] = FreePcb],
             sem |-> [k.sem EXCEPT ![s] = NewSem(0)],
             ready |-> k.ready]
    BY DEF Freed, k
  <1>6. FreePcb \in Pcb /\ FreePcb.state = NoPcb
    BY DEF FreePcb, Pcb, State
  <1>7. NewSem(0) \in Semaphore /\ NewSem(0).waiters = <<>>
    BY EmptySeq DEF NewSem, Semaphore
  <1>8. l \in Table
    <2>1. [k.pcb EXCEPT ![s] = FreePcb] \in [Slot -> Pcb]
      BY <1>4, <1>6
    <2>2. [k.sem EXCEPT ![s] = NewSem(0)] \in [Sem -> Semaphore]
      BY <1>4, <1>7
    <2> QED BY <1>4, <1>5, <2>1, <2>2 DEF Table
  <1>9. /\ l.pcb[s] = FreePcb
        /\ \A t \in Slot \ {s} : l.pcb[t] = k.pcb[t]
        /\ l.ready = k.ready
    BY <1>4, <1>5
  <1>10. \A x \in Sem : l.sem[x] = IF x = s THEN NewSem(0) ELSE k.sem[x]
    BY <1>4, <1>5
  <1> HIDE DEF l
  <1>11. ReadySet(l.pcb) = ReadySet(k.pcb)
    <2>1. FreePcb.state # "READY"
      BY DEF FreePcb, NoPcb
    <2> QED BY <2>1, <1>9, <1>3 DEF ReadySet
  <1>12. IdleOK(l.pcb)
    BY <1>3, <1>9, SlotAssumption DEF Good, IdleOK
  <1>13. Good(l)
    BY <1>3, <1>7, <1>8, <1>9, <1>10, <1>11, <1>12 DEF Good
  <1> QED BY <1>3, <1>6, <1>9, <1>13, <1>14 DEF SameProcesses, l

-----------------------------------------------------------------------------
(* The process queue. *)

(* q lists the members of S, each once. *)
Lists(q, S) == /\ q \in Seq(Slot)
               /\ \A i, j \in 1..Len(q) : q[i] = q[j] => i = j
               /\ \A s \in Slot : (\E i \in 1..Len(q) : q[i] = s) <=> s \in S

LEMMA ListsAppend ==
  ASSUME NEW q, NEW S, Lists(q, S), NEW s \in Slot, s \notin S
  PROVE  Lists(Append(q, s), S \cup {s})
  <1> DEFINE r == Append(q, s)
  <1>1. q \in Seq(Slot) /\ Len(q) \in Nat
    BY LenProperties DEF Lists
  <1>2. /\ r \in Seq(Slot)
        /\ Len(r) = Len(q) + 1
        /\ \A i \in 1..Len(q) : r[i] = q[i]
        /\ r[Len(q) + 1] = s
    BY <1>1, AppendProperties
  <1>3. \A i \in 1..Len(q) : q[i] # s
    BY DEF Lists
  <1> HIDE DEF r
  <1>4. \A i, j \in 1..Len(r) : r[i] = r[j] => i = j
    <2> SUFFICES ASSUME NEW i \in 1..Len(r), NEW j \in 1..Len(r), r[i] = r[j]
                 PROVE  i = j
      OBVIOUS
    <2>1. CASE i \in 1..Len(q) /\ j \in 1..Len(q)
      BY <2>1, <1>2 DEF Lists
    <2>2. CASE i = Len(q) + 1 \/ j = Len(q) + 1
      BY <2>2, <1>1, <1>2, <1>3
    <2> QED BY <2>1, <2>2, <1>1, <1>2
  <1>5. \A t \in Slot : (\E i \in 1..Len(r) : r[i] = t) <=> t \in S \cup {s}
    <2> SUFFICES ASSUME NEW t \in Slot
                 PROVE  (\E i \in 1..Len(r) : r[i] = t) <=> t \in S \cup {s}
      OBVIOUS
    <2>1. t = s => Len(q) + 1 \in 1..Len(r) /\ r[Len(q) + 1] = t
      BY <1>1, <1>2
    <2>2. ASSUME NEW i \in 1..Len(q), q[i] = t
          PROVE  i \in 1..Len(r) /\ r[i] = t
      BY <2>2, <1>1, <1>2
    <2>3. ASSUME NEW i \in 1..Len(r), r[i] = t, t # s
          PROVE  i \in 1..Len(q) /\ q[i] = t
      BY <2>3, <1>1, <1>2
    <2>4. t \in S <=> \E i \in 1..Len(q) : q[i] = t
      BY DEF Lists
    <2> QED BY <2>1, <2>2, <2>3, <2>4
  <1> QED BY <1>2, <1>4, <1>5 DEF Lists, r

LEMMA ListsTail ==
  ASSUME NEW q, NEW S, Lists(q, S), q # <<>>
  PROVE  Head(q) \in Slot /\ Head(q) \in S /\ Lists(Tail(q), S \ {Head(q)})
  <1> DEFINE r == Tail(q)
  <1>1. q \in Seq(Slot) /\ Len(q) \in Nat /\ Len(q) # 0
    BY LenProperties, EmptySeq DEF Lists
  <1>2. /\ Head(q) \in Slot
        /\ r \in Seq(Slot)
        /\ Len(r) = Len(q) - 1
        /\ \A i \in 1..Len(r) : r[i] = q[i + 1]
    BY <1>1, HeadTailProperties DEF Lists
  <1>3. Head(q) = q[1] /\ 1 \in 1..Len(q)
    BY <1>1
  <1> HIDE DEF r
  <1>4. Head(q) \in S
    BY <1>2, <1>3 DEF Lists
  <1>5. \A i, j \in 1..Len(r) : r[i] = r[j] => i = j
    <2> SUFFICES ASSUME NEW i \in 1..Len(r), NEW j \in 1..Len(r), r[i] = r[j]
                 PROVE  i = j
      OBVIOUS
    <2>1. i + 1 \in 1..Len(q) /\ j + 1 \in 1..Len(q) /\ q[i + 1] = q[j + 1]
      BY <1>1, <1>2
    <2>2. i + 1 = j + 1
      BY <2>1 DEF Lists
    <2> QED BY <2>2
  <1>6. \A t \in Slot : (\E i \in 1..Len(r) : r[i] = t) <=> t \in S \ {Head(q)}
    <2> SUFFICES ASSUME NEW t \in Slot
                 PROVE  (\E i \in 1..Len(r) : r[i] = t) <=> t \in S \ {Head(q)}
      OBVIOUS
    <2>1. ASSUME NEW i \in 1..Len(r), r[i] = t
          PROVE  t \in S /\ t # Head(q)
      <3>1. i + 1 \in 1..Len(q) /\ q[i + 1] = t /\ i + 1 # 1
        BY <2>1, <1>1, <1>2
      <3> QED BY <3>1, <1>3 DEF Lists
    <2>2. ASSUME t \in S, t # Head(q)
          PROVE  \E i \in 1..Len(r) : r[i] = t
      <3>1. PICK i \in 1..Len(q) : q[i] = t
        BY <2>2 DEF Lists
      <3>2. i # 1
        BY <3>1, <2>2, <1>3
      <3>3. i - 1 \in 1..Len(r) /\ r[i - 1] = q[(i - 1) + 1]
        BY <3>2, <1>1, <1>2
      <3> QED BY <3>1, <3>3
    <2> QED BY <2>1, <2>2
  <1> QED BY <1>2, <1>4, <1>5, <1>6 DEF Lists, r

-----------------------------------------------------------------------------
(* The inductive invariant. *)

LiveSet(p) == {s \in Slot : p[s].state # NoPcb}

(* Each process is in one place: running, in the queue, or idle and waiting *)
(* to be chosen.                                                            *)
Placed(p, q, c) == /\ c \in LiveSet(p)
                   /\ Lists(q, LiveSet(p) \ {c, Idle})

Pids(p, count) ==
  /\ \A s, t \in LiveSet(p) : p[s].pid = p[t].pid => s = t
  /\ \A s \in LiveSet(p) : 0 < p[s].pid /\ p[s].pid < count

Cont == [Slot -> [at : {"user", "reap", "waitpid"}, child : Slot \cup {None}]]

(* The loop of scheduleTask has a ready process to find and never holds     *)
(* idle.                                                                    *)
Core == /\ Good(K)
        /\ Placed(pcb, queue, cur)
        /\ Pids(pcb, pidCounter)
        /\ pidCounter \in Nat
        /\ cycles \in Nat
        /\ mode \in {"run", "scan"}
        /\ mode = "scan" => readyCount > 0 /\ cur # Idle

(* Idle never waits in the kernel. *)
IInv == Core /\ cont \in Cont /\ cont[Idle] = InUser

LEMMA KTypes ==
  K.pcb = pcb /\ K.sem = sem /\ K.ready = readyCount
  BY DEF K

LEMMA SameLive ==
  ASSUME NEW p, NEW q, SameProcesses(p, q)
  PROVE  LiveSet(p) = LiveSet(q)
  BY DEF SameProcesses, LiveSet

LEMMA SamePids ==
  ASSUME NEW p, NEW q, NEW n, SameProcesses(p, q), Pids(p, n)
  PROVE  Pids(q, n)
  <1>1. LiveSet(p) = LiveSet(q)
    BY SameLive
  <1>2. \A s \in LiveSet(p) : p[s].pid = q[s].pid
    BY DEF SameProcesses, LiveSet
  <1> QED BY <1>1, <1>2 DEF Pids

(* What the operators on tables ask of the state. *)
LEMMA IInvReachable ==
  ASSUME IInv
  PROVE  /\ Reachable(K) /\ PidsPositive(K)
         /\ queue \in Seq(Slot) /\ cur \in Slot /\ pcb[cur].state # NoPcb
         /\ \A s \in Slot : Visible(s) => pcb[s].state # NoPcb /\ pcb[s].pid # 0
         /\ \A s \in Slot : InQueue(s) => s # Idle /\ s # cur
  <1>1. cur \in LiveSet(pcb) /\ Lists(queue, LiveSet(pcb) \ {cur, Idle})
    BY DEF IInv, Core, Placed
  <1>2. \A s \in Slot : InQueue(s) <=> s \in LiveSet(pcb) \ {cur, Idle}
    BY <1>1 DEF Lists, InQueue
  <1>3. \A s \in Slot : Visible(s) => s \in LiveSet(pcb)
    BY <1>1, <1>2 DEF Visible
  <1>4. \A s \in LiveSet(pcb) : pcb[s].pid # 0
    <2>1. pcb \in [Slot -> Pcb]
      BY KTypes DEF IInv, Core, Good, Table
    <2> QED BY <2>1 DEF IInv, Core, Pids, LiveSet, Pcb
  <1> QED BY <1>1, <1>2, <1>3, <1>4, KTypes
      DEF Reachable, PidsPositive, LiveSet, Lists

(* After Commit(k) the table is good if k is. *)
LEMMA CommitGood ==
  ASSUME NEW k, Good(k), Commit(k)
  PROVE  Good(K')
  <1>1. K' = [pcb |-> k.pcb, sem |-> k.sem, ready |-> k.ready]
    BY DEF Commit, K
  <1>2. k = [pcb |-> k.pcb, sem |-> k.sem, ready |-> k.ready]
    BY DEF Good, Table
  <1> QED BY <1>1, <1>2

(* A step that changes the table and does not enter the scheduler. *)
LEMMA StayCore ==
  ASSUME IInv, NEW k, Good(k), SameProcesses(pcb, k.pcb), Stay(k), mode = "run",
         UNCHANGED pidCounter
  PROVE  Core'
  <1>1. Good(K')
    BY CommitGood DEF Stay
  <1>2. pcb' = k.pcb
    BY DEF Stay, Commit
  <1>3. LiveSet(pcb') = LiveSet(pcb)
    BY <1>2, SameLive
  <1>4. Placed(pcb', queue', cur')
    BY <1>3 DEF IInv, Core, Placed, Stay
  <1>5. Pids(pcb', pidCounter')
    BY <1>2, SamePids DEF IInv, Core
  <1> QED BY <1>1, <1>4, <1>5 DEF IInv, Core, Stay

(* A step that enters the scheduler. *)
LEMMA ScheduleCore ==
  ASSUME IInv, NEW k, Good(k), SameProcesses(pcb, k.pcb), NEW c \in Nat,
         Schedule(k, c), mode = "run", UNCHANGED pidCounter
  PROVE  Core'
  <1>1. Good(K') /\ pcb' = k.pcb /\ readyCount' = k.ready
    BY CommitGood DEF Schedule, Commit
  <1>2. LiveSet(pcb') = LiveSet(pcb)
    BY <1>1, SameLive
  <1>3. Pids(pcb', pidCounter')
    BY <1>1, SamePids DEF IInv, Core
  <1>4. /\ cur \in LiveSet(pcb) /\ cur \in Slot
        /\ Lists(queue, LiveSet(pcb) \ {cur, Idle})
    BY DEF IInv, Core, Placed, LiveSet
  <1>5. CASE KeepRunning(k, c)
    <2>1. cycles' \in Nat /\ mode' = "run" /\ UNCHANGED <<cur, queue>>
      BY <1>5 DEF KeepRunning
    <2> QED BY <2>1, <1>1, <1>2, <1>3, <1>4 DEF IInv, Core, Placed
  <1>6. Lists(Requeued, LiveSet(pcb) \ {Idle})
    <2>1. CASE cur = Idle
      <3>1. LiveSet(pcb) \ {cur, Idle} = LiveSet(pcb) \ {Idle}
        BY <2>1
      <3> QED BY <2>1, <3>1, <1>4 DEF Requeued
    <2>2. CASE cur # Idle
      <3>1. (LiveSet(pcb) \ {cur, Idle}) \cup {cur} = LiveSet(pcb) \ {Idle}
        BY <2>2, <1>4
      <3>2. Lists(Append(queue, cur), (LiveSet(pcb) \ {cur, Idle}) \cup {cur})
        BY <1>4, ListsAppend
      <3> QED BY <2>2, <3>1, <3>2 DEF Requeued
    <2> QED BY <2>1, <2>2
  <1>7. CASE SwitchToQueue(k, c)
    <2>1. Requeued # <<>>
      <3>1. ReadySet(k.pcb) # {}
        <4>1. k.ready > 0 /\ k.ready = Cardinality(ReadySet(k.pcb))
          BY <1>7 DEF SwitchToQueue, Good
        <4> QED BY <4>1, FS_EmptySet
      <3>2. PICK s \in Slot \ {Idle} : k.pcb[s].state = "READY"
        BY <3>1 DEF ReadySet
      <3>3. s \in LiveSet(pcb) \ {Idle}
        BY <3>2, <1>1, <1>2 DEF LiveSet, NoPcb
      <3>4. \E i \in 1..Len(Requeued) : Requeued[i] = s
        BY <3>2, <3>3, <1>6 DEF Lists
      <3> QED BY <3>4, EmptySeq
    <2>2. /\ Head(Requeued) \in Slot /\ Head(Requeued) \in LiveSet(pcb) \ {Idle}
          /\ Lists(Tail(Requeued), (LiveSet(pcb) \ {Idle}) \ {Head(Requeued)})
      BY <2>1, <1>6, ListsTail
    <2>3. /\ cur' = Head(Requeued) /\ queue' = Tail(Requeued)
          /\ mode' = "scan" /\ cycles' = c /\ k.ready > 0
      BY <1>7 DEF SwitchToQueue
    <2>4. (LiveSet(pcb) \ {Idle}) \ {cur'} = LiveSet(pcb') \ {cur', Idle}
      BY <1>2
    <2>5. Placed(pcb', queue', cur')
      BY <2>2, <2>3, <2>4, <1>2 DEF Placed
    <2> QED BY <2>2, <2>3, <2>5, <1>1, <1>3 DEF IInv, Core
  <1>8. CASE SwitchToIdle(k, c)
    <2>1. cur' = Idle /\ queue' = Requeued /\ cycles' = k.pcb[Idle].prio /\ mode' = "run"
      BY <1>8 DEF SwitchToIdle
    <2>2. k.pcb[Idle] \in Pcb
      BY SlotAssumption DEF Good, Table
    <2>3. cycles' \in Nat
      BY <2>1, <2>2 DEF Pcb
    <2>4. Idle \in LiveSet(pcb')
      BY <1>1, SlotAssumption DEF Good, IdleOK, LiveSet, NoPcb
    <2>5. LiveSet(pcb') \ {cur', Idle} = LiveSet(pcb) \ {Idle}
      BY <2>1, <1>2
    <2>6. Placed(pcb', queue', cur')
      BY <2>1, <2>4, <2>5, <1>6 DEF Placed
    <2> QED BY <2>1, <2>3, <2>6, <1>1, <1>3 DEF IInv, Core
  <1> QED BY <1>5, <1>7, <1>8 DEF Schedule

-----------------------------------------------------------------------------
(* Steps. *)

(* The common shape of interrupts and system calls. *)
LEMMA TableStep ==
  ASSUME IInv, NEW k, Good(k), SameProcesses(pcb, k.pcb), mode = "run",
         NEW c \in Nat, Stay(k) \/ Schedule(k, c),
         UNCHANGED pidCounter, cont' \in Cont, cont'[Idle] = InUser
  PROVE  IInv'
  BY StayCore, ScheduleCore DEF IInv

LEMMA RescheduleStep ==
  ASSUME NEW k, NEW s, Reschedule(k, s)
  PROVE  Stay(k) \/ Schedule(k, cycles)
  BY DEF Reschedule, Stay

(* The current table, with a process moved to another state. *)
LEMMA ChangeStateStep ==
  ASSUME IInv, NEW s \in Slot, Visible(s), s # Idle, NEW state \in State \ {NoPcb}
  PROVE  /\ Good(ChangeState(K, s, state))
         /\ SameProcesses(pcb, ChangeState(K, s, state).pcb)
  <1>1. Reachable(K) /\ pcb[s].state # NoPcb /\ pcb[s].pid # 0
    BY IInvReachable
  <1>2. Good(K)
    BY DEF IInv, Core
  <1> QED BY <1>1, <1>2, KTypes, ChangeStateGood DEF Reachable

(* Taking a unit, and queueing for one. *)
LEMMA TakeGood ==
  ASSUME IInv, NEW x \in Sem, sem[x].value > 0
  PROVE  Good(Take(x)) /\ Take(x).pcb = pcb
  <1> DEFINE s == [sem[x] EXCEPT !.value = @ - 1]
  <1>1. Good(K) /\ sem[x] \in Semaphore /\ sem[x].waiters = <<>>
    BY KTypes DEF IInv, Core, Good, Table
  <1>2. s \in Semaphore /\ s.waiters = <<>>
    BY <1>1 DEF Semaphore
  <1> QED BY <1>1, <1>2, WithSemGood, KTypes DEF Take

LEMMA EnlistGood ==
  ASSUME IInv, NEW x \in Sem, sem[x].value = 0
  PROVE  Good(Enlist(x)) /\ Enlist(x).pcb = pcb
  <1> DEFINE s == [sem[x] EXCEPT !.waiters = Append(@, pcb[cur].pid)]
  <1>1. Good(K) /\ sem[x] \in Semaphore /\ pcb \in [Slot -> Pcb]
    BY KTypes DEF IInv, Core, Good, Table
  <1>2. pcb[cur].pid \in Nat
    BY <1>1, IInvReachable DEF Pcb
  <1>3. Append(sem[x].waiters, pcb[cur].pid) \in Seq(Nat)
    BY <1>1, <1>2, AppendProperties DEF Semaphore
  <1>4. s \in Semaphore /\ s.value = 0
    BY <1>1, <1>3 DEF Semaphore
  <1>5. Enlist(x) = WithSem(K, x, s)
    BY DEF Enlist
  <1> HIDE DEF s
  <1>6. Good(WithSem(K, x, s)) /\ WithSem(K, x, s).pcb = K.pcb
    BY <1>1, <1>4, WithSemGood
  <1> QED BY <1>5, <1>6, KTypes

(* The caller blocks in the queue of a semaphore. *)
LEMMA SleepGood ==
  ASSUME IInv, NEW x \in Sem, sem[x].value = 0, cur # Idle
  PROVE  LET k == SetState(Enlist(x), cur, "BLOCKED")
         IN  Good(k) /\ SameProcesses(pcb, k.pcb)
  <1>1. Good(Enlist(x)) /\ Enlist(x).pcb = pcb
    BY EnlistGood
  <1>2. cur \in Slot /\ pcb[cur].state # NoPcb /\ "BLOCKED" \in State \ {NoPcb}
    BY IInvReachable DEF State, NoPcb
  <1> QED BY <1>1, <1>2, SetStateGood

(* waitpid past the exit semaphore. *)
LEMMA ReapGood ==
  ASSUME IInv, NEW k, Good(k), k.pcb = pcb, NEW s \in Slot, Visible(s), s # Idle
  PROVE  LET l == TryChangeState(k, s, "TERMINATED")
         IN  Good(l) /\ SameProcesses(pcb, l.pcb)
  <1>1. /\ \A t \in Slot : Visible(t) => k.pcb[t].state # NoPcb
        /\ k.pcb[s].state # NoPcb /\ k.pcb[s].pid # 0
    BY IInvReachable
  <1>2. "TERMINATED" \in State \ {NoPcb}
    BY DEF State, NoPcb
  <1> QED BY <1>1, <1>2, TryChangeStateGood

LEMMA SyscallContext ==
  ASSUME IInv, NEW call, Calling(call)
  PROVE  /\ mode = "run" /\ cur # Idle /\ cur \in Slot
         /\ \A s \in Slot : Visible(s) => s # Idle
         /\ cycles \in Nat /\ Good(K) /\ K.pcb = pcb /\ SameProcesses(pcb, pcb)
         /\ cont \in Cont /\ cont[Idle] = InUser
  <1>1. mode = "run" /\ cur # Idle
    BY DEF Calling
  <1>2. \A s \in Slot : Visible(s) => s # Idle
    BY <1>1, IInvReachable DEF Visible
  <1> QED BY <1>1, <1>2, IInvReachable, SameRefl, KTypes DEF IInv, Core

LEMMA TickStep == IInv /\ Tick => IInv'
  <1> SUFFICES ASSUME IInv, Tick PROVE IInv'
    OBVIOUS
  <1>1. mode = "run" /\ Schedule(K, cycles) /\ UNCHANGED <<pidCounter, cont>>
    BY DEF Tick, InterruptsOn
  <1>2. Good(K) /\ SameProcesses(pcb, K.pcb) /\ cycles \in Nat
    BY SameRefl, KTypes DEF IInv, Core
  <1> QED BY <1>1, <1>2, TableStep DEF IInv

LEMMA CtrlCStep == IInv /\ CtrlC => IInv'
  <1> SUFFICES ASSUME IInv, CtrlC PROVE IInv'
    OBVIOUS
  <1>1. PICK s \in Slot :
          /\ CtrlCTarget(s)
          /\ LET k == TerminateChildren(K, s)
             IN  \/ Killable(k, s) /\ Reschedule(ChangeState(k, s, "EXITED"), s)
                 \/ ~Killable(k, s) /\ Stay(k)
    BY DEF CtrlC
  <1>2. mode = "run" /\ UNCHANGED <<pidCounter, cont>>
    BY DEF CtrlC, InterruptsOn
  <1>3. Good(K) /\ K.pcb = pcb /\ cycles \in Nat /\ cont \in Cont /\ cont[Idle] = InUser
    BY KTypes DEF IInv, Core
  <1>4. pcb[s].fg /\ Visible(s)
    BY <1>1 DEF CtrlCTarget, FirstForeground, Foreground, Visible, InQueue
  <1>5. s # Idle
    BY <1>3, <1>4 DEF Good, IdleOK
  <1> DEFINE k == TerminateChildren(K, s)
  <1>6. Good(k) /\ SameProcesses(pcb, k.pcb)
    BY <1>3, <1>4, <1>5, IInvReachable, TerminateChildrenGood
  <1> HIDE DEF k
  <1>7. CASE ~Killable(k, s) /\ Stay(k)
    BY <1>7, <1>2, <1>3, <1>6, TableStep
  <1>8. CASE Reschedule(ChangeState(k, s, "EXITED"), s)
    <2> DEFINE l == ChangeState(k, s, "EXITED")
    <2>1. /\ \A t \in Slot : Visible(t) => k.pcb[t].state # NoPcb
          /\ k.pcb[s].state # NoPcb /\ k.pcb[s].pid # 0
      BY <1>4, <1>6, IInvReachable DEF SameProcesses
    <2>2. "EXITED" \in State \ {NoPcb}
      BY DEF State, NoPcb
    <2>3. Good(l) /\ SameProcesses(k.pcb, l.pcb)
      BY <1>5, <1>6, <2>1, <2>2, ChangeStateGood
    <2> HIDE DEF l
    <2>4. SameProcesses(pcb, l.pcb)
      BY <1>6, <2>3, SameTrans
    <2>5. Stay(l) \/ Schedule(l, cycles)
      BY <1>8, RescheduleStep DEF l
    <2> QED BY <1>2, <1>3, <2>3, <2>4, <2>5, TableStep
  <1> QED BY <1>1, <1>7, <1>8 DEF k

LEMMA ExitStep == IInv /\ Exit => IInv'
  <1> SUFFICES ASSUME IInv, Exit PROVE IInv'
    OBVIOUS
  <1>1. /\ Calling("exit") /\ UNCHANGED <<pidCounter, cont>>
        /\ Schedule(ChangeState(K, cur, "EXITED"), cycles)
    BY DEF Exit
  <1>2. "EXITED" \in State \ {NoPcb} /\ Visible(cur)
    BY DEF State, NoPcb, Visible
  <1> DEFINE l == ChangeState(K, cur, "EXITED")
  <1>3. Good(l) /\ SameProcesses(pcb, l.pcb)
    BY <1>1, <1>2, SyscallContext, ChangeStateStep
  <1> QED BY <1>1, <1>3, SyscallContext, TableStep

(* kill, block and resume, and their effect on the caller. *)
LEMMA MoveStep ==
  ASSUME IInv, NEW call, Calling(call), NEW t \in Slot, Visible(t),
         NEW state \in State \ {NoPcb}, UNCHANGED <<pidCounter, cont>>,
         \/ Reschedule(ChangeState(K, t, state), t)
         \/ Stay(ChangeState(K, t, state))
  PROVE  IInv'
  <1> DEFINE l == ChangeState(K, t, state)
  <1>1. Good(l) /\ SameProcesses(pcb, l.pcb)
    BY SyscallContext, ChangeStateStep
  <1> HIDE DEF l
  <1>2. Stay(l) \/ Schedule(l, cycles)
    BY RescheduleStep DEF l
  <1> QED BY <1>1, <1>2, SyscallContext, TableStep

LEMMA KillTaskStep == IInv /\ KillTask => IInv'
  <1>1. "EXITED" \in State \ {NoPcb}
    BY DEF State, NoPcb
  <1> QED BY <1>1, MoveStep DEF KillTask

LEMMA BlockTaskStep == IInv /\ BlockTask => IInv'
  <1>1. "BLOCKED" \in State \ {NoPcb}
    BY DEF State, NoPcb
  <1> QED BY <1>1, MoveStep DEF BlockTask

LEMMA ResumeTaskStep == IInv /\ ResumeTask => IInv'
  <1>1. "READY" \in State \ {NoPcb}
    BY DEF State, NoPcb
  <1> QED BY <1>1, MoveStep DEF ResumeTask

LEMMA YieldStep == IInv /\ Yield => IInv'
  <1> SUFFICES ASSUME IInv, Yield PROVE IInv'
    OBVIOUS
  <1>1. Calling("yield") /\ Schedule(K, 0) /\ UNCHANGED <<pidCounter, cont>>
    BY DEF Yield
  <1> QED BY <1>1, SyscallContext, TableStep

LEMMA SemWaitStep == IInv /\ SemWait => IInv'
  <1> SUFFICES ASSUME IInv, SemWait PROVE IInv'
    OBVIOUS
  <1>1. Calling("sem") /\ UNCHANGED <<pidCounter, cont>>
    BY DEF SemWait
  <1>2. PICK x \in UserSem :
          \/ sem[x].value > 0 /\ Stay(Take(x))
          \/ /\ sem[x].value = 0
             /\ Schedule(SetState(Enlist(x), cur, "BLOCKED"), cycles)
          \/ sem[x].value = 0 /\ Stay(Enlist(x))
    BY DEF SemWait
  <1>3. x \in Sem
    BY DEF Sem
  <1>4. CASE sem[x].value > 0 /\ Stay(Take(x))
    BY <1>1, <1>3, <1>4, TakeGood, SyscallContext, TableStep
  <1>5. CASE /\ sem[x].value = 0
             /\ Schedule(SetState(Enlist(x), cur, "BLOCKED"), cycles)
    BY <1>1, <1>3, <1>5, SleepGood, SyscallContext, TableStep
  <1>6. CASE sem[x].value = 0 /\ Stay(Enlist(x))
    BY <1>1, <1>3, <1>6, EnlistGood, SyscallContext, TableStep
  <1> QED BY <1>2, <1>4, <1>5, <1>6

LEMMA SemPostStep == IInv /\ SemPost => IInv'
  <1> SUFFICES ASSUME IInv, SemPost PROVE IInv'
    OBVIOUS
  <1>1. Calling("sem") /\ UNCHANGED <<pidCounter, cont>>
    BY DEF SemPost
  <1>2. PICK x \in UserSem : Stay(Post(K, x))
    BY DEF SemPost
  <1>3. x \in Sem /\ Reachable(K)
    BY IInvReachable DEF Sem
  <1>4. Good(Post(K, x)) /\ SameProcesses(pcb, Post(K, x).pcb)
    BY <1>1, <1>3, SyscallContext, PostGood DEF Reachable
  <1> QED BY <1>1, <1>2, <1>4, SyscallContext, TableStep

LEMMA ContExcept ==
  ASSUME IInv, cur # Idle, cur \in Slot,
         NEW c \in [at : {"user", "reap", "waitpid"}, child : Slot \cup {None}],
         cont' = [cont EXCEPT ![cur] = c]
  PROVE  cont' \in Cont /\ cont'[Idle] = InUser
  BY SlotAssumption DEF IInv, Cont

LEMMA WaitpidStep == IInv /\ Waitpid => IInv'
  <1> SUFFICES ASSUME IInv, Waitpid PROVE IInv'
    OBVIOUS
  <1>1. PICK t \in Slot :
          /\ MayWait(t)
          /\ \/ /\ sem[t].value > 0
                /\ Stay(TryChangeState(Take(t), t, "TERMINATED"))
                /\ UNCHANGED cont
             \/ /\ sem[t].value = 0
                /\ Schedule(SetState(Enlist(t), cur, "BLOCKED"), cycles)
                /\ cont' = [cont EXCEPT ![cur] = [at |-> "waitpid", child |-> t]]
             \/ /\ sem[t].value = 0
                /\ Stay(TryChangeState(Enlist(t), t, "TERMINATED"))
                /\ UNCHANGED cont
    BY DEF Waitpid
  <1>2. Calling("wait") /\ Visible(t) /\ UNCHANGED pidCounter /\ t \in Sem
    BY <1>1 DEF Waitpid, MayWait, Sem
  <1>3. t # Idle
    BY <1>2, SyscallContext
  <1>4. CASE /\ sem[t].value > 0
             /\ Stay(TryChangeState(Take(t), t, "TERMINATED"))
             /\ UNCHANGED cont
    <2>1. Good(Take(t)) /\ Take(t).pcb = pcb
      BY <1>2, <1>4, TakeGood
    <2> DEFINE l == TryChangeState(Take(t), t, "TERMINATED")
    <2>2. Good(l) /\ SameProcesses(pcb, l.pcb)
      BY <2>1, <1>2, <1>3, ReapGood
    <2> HIDE DEF l
    <2> QED BY <2>2, <1>2, <1>4, SyscallContext, TableStep DEF l
  <1>5. CASE /\ sem[t].value = 0
             /\ Schedule(SetState(Enlist(t), cur, "BLOCKED"), cycles)
             /\ cont' = [cont EXCEPT ![cur] = [at |-> "waitpid", child |-> t]]
    <2>1. cont' \in Cont /\ cont'[Idle] = InUser
      BY <1>2, <1>5, SyscallContext, ContExcept
    <2> DEFINE l == SetState(Enlist(t), cur, "BLOCKED")
    <2>2. Good(l) /\ SameProcesses(pcb, l.pcb)
      BY <1>2, <1>5, SyscallContext, SleepGood
    <2> HIDE DEF l
    <2> QED BY <2>1, <2>2, <1>2, <1>5, SyscallContext, TableStep DEF l
  <1>6. CASE /\ sem[t].value = 0
             /\ Stay(TryChangeState(Enlist(t), t, "TERMINATED"))
             /\ UNCHANGED cont
    <2>1. Good(Enlist(t)) /\ Enlist(t).pcb = pcb
      BY <1>2, <1>6, EnlistGood
    <2> DEFINE l == TryChangeState(Enlist(t), t, "TERMINATED")
    <2>2. Good(l) /\ SameProcesses(pcb, l.pcb)
      BY <2>1, <1>2, <1>3, ReapGood
    <2> HIDE DEF l
    <2> QED BY <2>2, <1>2, <1>6, SyscallContext, TableStep DEF l
  <1> QED BY <1>1, <1>4, <1>5, <1>6

(* A process that has something left to do in the kernel is not idle. *)
LEMMA KernelContext ==
  ASSUME IInv, cont[cur].at # "user"
  PROVE  /\ cur # Idle /\ cur \in Slot
         /\ \A s \in Slot : Visible(s) => s # Idle
         /\ cycles \in Nat /\ Good(K) /\ K.pcb = pcb /\ SameProcesses(pcb, pcb)
  <1>1. cur # Idle
    BY DEF IInv, InUser
  <1>2. \A s \in Slot : Visible(s) => s # Idle
    BY <1>1, IInvReachable DEF Visible
  <1> QED BY <1>1, <1>2, IInvReachable, SameRefl, KTypes DEF IInv, Core

LEMMA WaitpidReturnStep == IInv /\ WaitpidReturn => IInv'
  <1> SUFFICES ASSUME IInv, WaitpidReturn PROVE IInv'
    OBVIOUS
  <1>1. /\ mode = "run" /\ cont[cur].at = "waitpid" /\ UNCHANGED pidCounter
        /\ cont' = [cont EXCEPT ![cur] = InUser]
    BY DEF WaitpidReturn
  <1>2. \/ Stay(K)
        \/ \E s \in Slot : Visible(s) /\ Stay(TryChangeState(K, s, "TERMINATED"))
    BY DEF WaitpidReturn
  <1>3. cont[cur].at # "user"
    BY <1>1
  <1>4. cont' \in Cont /\ cont'[Idle] = InUser
    <2>1. InUser \in [at : {"user", "reap", "waitpid"}, child : Slot \cup {None}]
      BY DEF InUser
    <2> QED BY <2>1, <1>1, <1>3, KernelContext, ContExcept
  <1>5. CASE Stay(K)
    BY <1>1, <1>3, <1>4, <1>5, KernelContext, TableStep
  <1>6. CASE \E s \in Slot : Visible(s) /\ Stay(TryChangeState(K, s, "TERMINATED"))
    <2>1. PICK s \in Slot : Visible(s) /\ Stay(TryChangeState(K, s, "TERMINATED"))
      BY <1>6
    <2> DEFINE l == TryChangeState(K, s, "TERMINATED")
    <2>2. Good(l) /\ SameProcesses(pcb, l.pcb)
      BY <2>1, <1>3, KernelContext, ReapGood
    <2> HIDE DEF l
    <2> QED BY <2>1, <2>2, <1>1, <1>3, <1>4, KernelContext, TableStep DEF l
  <1> QED BY <1>2, <1>5, <1>6

LEMMA InitContext ==
  ASSUME IInv, cur = InitProc
  PROVE  /\ cur # Idle /\ cur \in Slot
         /\ \A s \in Slot : Visible(s) => s # Idle
         /\ cycles \in Nat /\ Good(K) /\ K.pcb = pcb /\ SameProcesses(pcb, pcb)
         /\ cont \in Cont /\ cont[Idle] = InUser
  <1>1. cur # Idle
    BY SlotAssumption
  <1>2. \A s \in Slot : Visible(s) => s # Idle
    BY <1>1, IInvReachable DEF Visible
  <1> QED BY <1>1, <1>2, IInvReachable, SameRefl, KTypes DEF IInv, Core

LEMMA InitFindStep == ASSUME NEW s \in Slot PROVE IInv /\ InitFind(s) => IInv'
  <1> SUFFICES ASSUME IInv, InitFind(s) PROVE IInv'
    OBVIOUS
  <1>1. /\ cur = InitProc
        /\ cont' = [cont EXCEPT ![cur] = [at |-> "reap", child |-> s]]
        /\ UNCHANGED <<pcb, queue, cur, mode, cycles, readyCount, pidCounter, sem>>
    BY DEF InitFind, InitRuns
  <1>2. cont' \in Cont /\ cont'[Idle] = InUser
    BY <1>1, InitContext, ContExcept
  <1>3. K' = K
    BY <1>1 DEF K
  <1> QED BY <1>1, <1>2, <1>3 DEF IInv, Core, Placed, Pids

LEMMA InitWaitStep == IInv /\ InitWait => IInv'
  <1> SUFFICES ASSUME IInv, InitWait PROVE IInv'
    OBVIOUS
  <1> DEFINE waiting(s) == cont' = [cont EXCEPT ![cur] = [at |-> "waitpid", child |-> s]]
  <1>1. cur = InitProc /\ mode = "run" /\ UNCHANGED pidCounter
    BY DEF InitWait, InitRuns
  <1>2. \/ Stay(K) /\ cont' = [cont EXCEPT ![cur] = InUser]
        \/ \E s \in Slot : sem[s].value > 0 /\ Stay(Take(s)) /\ waiting(s)
        \/ \E s \in Slot :
             /\ sem[s].value = 0
             /\ waiting(s)
             /\ \/ Schedule(SetState(Enlist(s), cur, "BLOCKED"), cycles)
                \/ Stay(Enlist(s))
    BY DEF InitWait
  <1>3. ASSUME NEW s \in Slot, waiting(s)
        PROVE  cont' \in Cont /\ cont'[Idle] = InUser
    BY <1>1, <1>3, InitContext, ContExcept
  <1>4. CASE Stay(K) /\ cont' = [cont EXCEPT ![cur] = InUser]
    <2>1. InUser \in [at : {"user", "reap", "waitpid"}, child : Slot \cup {None}]
      BY DEF InUser
    <2>2. cont' \in Cont /\ cont'[Idle] = InUser
      BY <2>1, <1>1, <1>4, InitContext, ContExcept
    <2> QED BY <2>2, <1>1, <1>4, InitContext, TableStep
  <1>5. CASE \E s \in Slot : sem[s].value > 0 /\ Stay(Take(s)) /\ waiting(s)
    <2>1. PICK s \in Slot : sem[s].value > 0 /\ Stay(Take(s)) /\ waiting(s)
      BY <1>5
    <2>2. s \in Sem
      BY DEF Sem
    <2>3. Good(Take(s)) /\ Take(s).pcb = pcb
      BY <2>1, <2>2, TakeGood
    <2>4. cont' \in Cont /\ cont'[Idle] = InUser
      BY <2>1, <1>3
    <2> QED BY <2>1, <2>3, <2>4, <1>1, InitContext, TableStep
  <1>6. CASE \E s \in Slot :
               /\ sem[s].value = 0
               /\ waiting(s)
               /\ \/ Schedule(SetState(Enlist(s), cur, "BLOCKED"), cycles)
                  \/ Stay(Enlist(s))
    <2>1. PICK s \in Slot :
               /\ sem[s].value = 0
               /\ waiting(s)
               /\ \/ Schedule(SetState(Enlist(s), cur, "BLOCKED"), cycles)
                  \/ Stay(Enlist(s))
      BY <1>6
    <2>2. s \in Sem
      BY DEF Sem
    <2>3. cont' \in Cont /\ cont'[Idle] = InUser
      BY <2>1, <1>3
    <2>4. CASE Stay(Enlist(s))
      <3>1. Good(Enlist(s)) /\ Enlist(s).pcb = pcb
        BY <2>1, <2>2, EnlistGood
      <3> QED BY <3>1, <2>3, <2>4, <1>1, InitContext, TableStep
    <2>5. CASE Schedule(SetState(Enlist(s), cur, "BLOCKED"), cycles)
      <3> DEFINE l == SetState(Enlist(s), cur, "BLOCKED")
      <3>1. Good(l) /\ SameProcesses(pcb, l.pcb)
        BY <2>1, <2>2, <1>1, InitContext, SleepGood
      <3> HIDE DEF l
      <3> QED BY <3>1, <2>3, <2>5, <1>1, InitContext, TableStep DEF l
    <2> QED BY <2>1, <2>4, <2>5
  <1> QED BY <1>2, <1>4, <1>5, <1>6

LEMMA InitSleepStep == IInv /\ InitSleep => IInv'
  <1> SUFFICES ASSUME IInv, InitSleep PROVE IInv'
    OBVIOUS
  <1>1. cur = InitProc /\ mode = "run" /\ Schedule(K, 0) /\ UNCHANGED <<pidCounter, cont>>
    BY DEF InitSleep, InitRuns
  <1> QED BY <1>1, InitContext, TableStep

LEMMA NiceStep == IInv /\ Nice => IInv'
  <1> SUFFICES ASSUME IInv, Nice PROVE IInv'
    OBVIOUS
  <1>1. PICK t \in Slot, prio \in 0..MaxPrio :
          InQueue(t) /\ pcb' = [pcb EXCEPT ![t].prio = prio]
    BY DEF Nice
  <1>2. UNCHANGED <<queue, cur, mode, cycles, readyCount, pidCounter, sem, cont>>
    BY DEF Nice
  <1>3. t # Idle
    BY <1>1, IInvReachable
  <1>4. Good(K) /\ pcb \in [Slot -> Pcb] /\ pcb[t] \in Pcb
    BY KTypes DEF IInv, Core, Good, Table
  <1>5. /\ \A s \in Slot \ {t} : pcb'[s] = pcb[s]
        /\ pcb'[t] = [pcb[t] EXCEPT !.prio = prio]
    BY <1>1, <1>4
  <1>6. prio \in Nat
    BY BoundAssumption
  <1>7. /\ pcb'[t] \in Pcb
        /\ pcb'[t].pid = pcb[t].pid /\ pcb'[t].state = pcb[t].state
    BY <1>4, <1>5, <1>6 DEF Pcb
  <1>8. pcb' \in [Slot -> Pcb]
    BY <1>1, <1>4, <1>5, <1>7
  <1>9. \A s \in Slot : pcb'[s].pid = pcb[s].pid /\ pcb'[s].state = pcb[s].state
    BY <1>5, <1>7
  <1>10. K' = [pcb |-> K'.pcb, sem |-> K.sem, ready |-> K.ready] /\ K'.pcb = pcb'
    BY <1>2 DEF K
  <1>11. K'.pcb[Idle] = K.pcb[Idle]
    BY <1>3, <1>5, <1>10, KTypes, SlotAssumption
  <1>12. Good(K') /\ SameProcesses(pcb, pcb')
    BY <1>4, <1>8, <1>9, <1>10, <1>11, KTypes, ReparentGood
  <1>13. LiveSet(pcb') = LiveSet(pcb) /\ Pids(pcb', pidCounter')
    BY <1>2, <1>12, SameLive, SamePids DEF IInv, Core
  <1> QED BY <1>2, <1>12, <1>13 DEF IInv, Core, Placed

LEMMA StartTaskFailsStep == IInv /\ StartTaskFails => IInv'
  <1> SUFFICES ASSUME IInv, StartTaskFails PROVE IInv'
    OBVIOUS
  <1>1. /\ pidCounter' = pidCounter + 1
        /\ UNCHANGED <<pcb, queue, cur, mode, cycles, readyCount, sem, cont>>
    BY DEF StartTaskFails
  <1>2. pidCounter \in Nat /\ Pids(pcb, pidCounter) /\ pcb \in [Slot -> Pcb]
    BY KTypes DEF IInv, Core, Good, Table
  <1>3. Pids(pcb', pidCounter')
    <2>1. \A s \in LiveSet(pcb) : pcb[s].pid \in Nat
      BY <1>2 DEF LiveSet, Pcb
    <2> QED BY <2>1, <1>1, <1>2 DEF Pids
  <1>4. K' = K
    BY <1>1 DEF K
  <1> QED BY <1>1, <1>2, <1>3, <1>4 DEF IInv, Core, Placed

LEMMA StartTaskStep == IInv /\ StartTask => IInv'
  <1> SUFFICES ASSUME IInv, StartTask PROVE IInv'
    OBVIOUS
  <1>1. PICK s \in Slot, fg \in BOOLEAN :
          /\ ~Live(s)
          /\ LET ppid == IF cur = Shell /\ ~fg THEN InitPid ELSE pcb[cur].pid
             IN  pcb' = [pcb EXCEPT ![s] = NewPcb(pidCounter, ppid, fg)]
          /\ queue' = Append(queue, s)
    BY DEF StartTask
  <1>2. /\ Calling("start")
        /\ readyCount' = readyCount + 1 /\ pidCounter' = pidCounter + 1
        /\ UNCHANGED <<cur, mode, cycles, sem, cont>>
    BY DEF StartTask
  <1> DEFINE ppid == IF cur = Shell /\ ~fg THEN InitPid ELSE pcb[cur].pid
             new == NewPcb(pidCounter, ppid, fg)
  <1>3. /\ Good(K) /\ K.pcb = pcb /\ K.ready = readyCount /\ K.sem = sem /\ cur \in Slot
        /\ pcb \in [Slot -> Pcb] /\ pidCounter \in Nat /\ mode = "run" /\ cycles \in Nat
        /\ readyCount \in Int /\ sem \in [Sem -> Semaphore]
    BY <1>2, SyscallContext, KTypes DEF IInv, Core, Good, Table
  <1>4. pcb[s].state = NoPcb /\ s # Idle
    BY <1>1, <1>3 DEF Live, Good, IdleOK, NoPcb
  <1>5. new \in Pcb /\ new.state = "READY" /\ new.pid = pidCounter
    <2>1. ppid \in Nat
      BY <1>3 DEF Pcb, InitPid
    <2>2. Priority(fg) \in Nat
      BY DEF Priority, ForegroundPriority, BackgroundPriority
    <2> QED BY <2>1, <2>2, <1>3 DEF NewPcb, Pcb, State
  <1> HIDE DEF new, ppid
  <1>6. pcb' \in [Slot -> Pcb] /\ pcb'[s] = new /\ \A t \in Slot \ {s} : pcb'[t] = pcb[t]
    BY <1>1, <1>3, <1>5 DEF new, ppid
  <1>7. LiveSet(pcb') = LiveSet(pcb) \cup {s} /\ s \notin LiveSet(pcb)
    BY <1>4, <1>5, <1>6 DEF LiveSet, NoPcb
  <1>8. Good(K')
    <2>1. K'.pcb = pcb' /\ K'.sem = sem /\ K'.ready = readyCount + 1
      BY <1>2 DEF K
    <2>2. K' \in Table
      BY <1>2, <1>3, <1>6 DEF K, Table
    <2>3. ReadySet(pcb') = ReadySet(pcb) \cup {s} /\ s \notin ReadySet(pcb)
      BY <1>4, <1>5, <1>6 DEF ReadySet, NoPcb
    <2>4. Cardinality(ReadySet(pcb')) = readyCount + 1
      BY <2>3, <1>3, ReadyFinite, FS_AddElement DEF Good
    <2>5. IdleOK(pcb')
      BY <1>3, <1>4, <1>6, SlotAssumption DEF Good, IdleOK
    <2> QED BY <2>1, <2>2, <2>4, <2>5, <1>3 DEF Good
  <1>9. Placed(pcb', queue', cur')
    <2>1. cur \in LiveSet(pcb) /\ Lists(queue, LiveSet(pcb) \ {cur, Idle})
      BY DEF IInv, Core, Placed
    <2>2. Lists(queue', (LiveSet(pcb) \ {cur, Idle}) \cup {s})
      BY <2>1, <1>1, <1>7, ListsAppend
    <2>3. (LiveSet(pcb) \ {cur, Idle}) \cup {s} = LiveSet(pcb') \ {cur, Idle}
      BY <2>1, <1>4, <1>7
    <2> QED BY <2>1, <2>2, <2>3, <1>2, <1>7 DEF Placed
  <1>10. Pids(pcb', pidCounter')
    <2>1. Pids(pcb, pidCounter)
      BY DEF IInv, Core
    <2>2. \A t \in LiveSet(pcb) : /\ pcb'[t].pid = pcb[t].pid /\ pcb[t].pid \in Nat
                                  /\ 0 < pcb[t].pid /\ pcb[t].pid < pidCounter
      BY <2>1, <1>3, <1>6, <1>7 DEF Pids, LiveSet, Pcb
    <2>3. 0 < pidCounter
      <3>1. Idle \in LiveSet(pcb) /\ pcb[Idle].pid = 1
        BY <1>3, SlotAssumption DEF Good, IdleOK, LiveSet, NoPcb, IdlePid
      <3> QED BY <3>1, <2>2, <1>3
    <2>4. pcb'[s].pid = pidCounter
      BY <1>5, <1>6
    <2>5. \A t \in LiveSet(pcb') : 0 < pcb'[t].pid /\ pcb'[t].pid < pidCounter'
      BY <2>2, <2>3, <2>4, <1>2, <1>3, <1>7
    <2>6. \A t, u \in LiveSet(pcb') : pcb'[t].pid = pcb'[u].pid => t = u
      BY <2>1, <2>2, <2>4, <1>3, <1>7 DEF Pids
    <2> QED BY <2>5, <2>6 DEF Pids
  <1> QED BY <1>2, <1>3, <1>8, <1>9, <1>10 DEF IInv, Core

-----------------------------------------------------------------------------
(* The loop of scheduleTask. *)

LEMMA ScanContext ==
  ASSUME IInv, mode = "scan"
  PROVE  /\ cur # Idle /\ cur \in Slot /\ cur \in LiveSet(pcb)
         /\ Lists(queue, LiveSet(pcb) \ {cur, Idle})
         /\ \E s \in LiveSet(pcb) \ {Idle} : pcb[s].state = "READY"
         /\ Good(K) /\ K.pcb = pcb /\ K.ready = readyCount /\ readyCount > 0
         /\ pcb \in [Slot -> Pcb]
  <1>1. readyCount > 0 /\ readyCount = Cardinality(ReadySet(pcb))
    BY KTypes DEF IInv, Core, Good
  <1>2. ReadySet(pcb) # {}
    BY <1>1, FS_EmptySet
  <1>3. \E s \in LiveSet(pcb) \ {Idle} : pcb[s].state = "READY"
    BY <1>2 DEF ReadySet, LiveSet, NoPcb
  <1> QED BY <1>1, <1>3, KTypes DEF IInv, Core, Placed, LiveSet, Good, Table

LEMMA ScanRunStep == IInv /\ ScanRun => IInv'
  <1> SUFFICES ASSUME IInv, ScanRun PROVE IInv'
    OBVIOUS
  <1>1. /\ mode = "scan" /\ mode' = "run" /\ cycles' = pcb[cur].prio
        /\ UNCHANGED <<pcb, queue, cur, readyCount, pidCounter, sem, cont>>
    BY DEF ScanRun
  <1>2. cycles' \in Nat
    BY <1>1, ScanContext DEF Pcb
  <1>3. K' = K
    BY <1>1 DEF K
  <1> QED BY <1>1, <1>2, <1>3 DEF IInv, Core, Placed, Pids

LEMMA ScanSkipStep == IInv /\ ScanSkip => IInv'
  <1> SUFFICES ASSUME IInv, ScanSkip PROVE IInv'
    OBVIOUS
  <1> DEFINE q == Append(queue, cur)
  <1>1. /\ mode = "scan" /\ cur' = Head(q) /\ queue' = Tail(q)
        /\ UNCHANGED <<pcb, mode, cycles, readyCount, pidCounter, sem, cont>>
    BY DEF ScanSkip
  <1>2. Lists(q, (LiveSet(pcb) \ {cur, Idle}) \cup {cur})
    BY <1>1, ScanContext, ListsAppend
  <1>3. (LiveSet(pcb) \ {cur, Idle}) \cup {cur} = LiveSet(pcb) \ {Idle}
    BY <1>1, ScanContext
  <1>4. q # <<>>
    BY <1>1, ScanContext, AppendProperties DEF Lists
  <1> HIDE DEF q
  <1>5. /\ Head(q) \in LiveSet(pcb) \ {Idle}
        /\ Lists(Tail(q), (LiveSet(pcb) \ {Idle}) \ {Head(q)})
    BY <1>2, <1>3, <1>4, ListsTail
  <1>6. (LiveSet(pcb) \ {Idle}) \ {Head(q)} = LiveSet(pcb) \ {Head(q), Idle}
    OBVIOUS
  <1>7. Placed(pcb', queue', cur')
    BY <1>1, <1>5, <1>6 DEF Placed
  <1>8. K' = K
    BY <1>1 DEF K
  <1> QED BY <1>1, <1>5, <1>7, <1>8 DEF IInv, Core, Pids

LEMMA ScanFreeStep == IInv /\ ScanFree => IInv'
  <1> SUFFICES ASSUME IInv, ScanFree PROVE IInv'
    OBVIOUS
  <1>1. /\ mode = "scan" /\ pcb[cur].state = "TERMINATED" /\ Commit(Freed(cur))
        /\ pidCounter' = IF pcb[cur].pid = pidCounter - 1 THEN pidCounter - 1 ELSE pidCounter
        /\ cont' = [cont EXCEPT ![cur] = InUser]
        /\ cur' = Head(queue) /\ queue' = Tail(queue)
        /\ UNCHANGED <<mode, cycles>>
    BY DEF ScanFree, PidCounterAfter
  <1> DEFINE l == Freed(cur)
  <1>2. /\ Good(l) /\ l.pcb[cur].state = NoPcb
        /\ \A t \in Slot \ {cur} : /\ l.pcb[t].pid = pcb[t].pid
                                   /\ l.pcb[t].state = NoPcb <=> pcb[t].state = NoPcb
        /\ \A t \in Slot \ {cur} : pcb[t].state = "READY" => l.pcb[t].state = "READY"
    BY <1>1, ScanContext, IInvReachable, FreedGood
  <1> HIDE DEF l
  <1>3. Good(K') /\ pcb' = l.pcb /\ readyCount' = l.ready
    BY <1>1, <1>2, CommitGood DEF Commit, l
  <1>4. LiveSet(pcb') = LiveSet(pcb) \ {cur}
    BY <1>2, <1>3 DEF LiveSet
  <1>5. PICK r \in LiveSet(pcb) \ {Idle} : pcb[r].state = "READY"
    BY <1>1, ScanContext
  <1>6. r # cur /\ r \in Slot
    BY <1>1, <1>5 DEF LiveSet
  <1>7. readyCount' > 0
    <2>1. r \in ReadySet(l.pcb)
      BY <1>2, <1>5, <1>6 DEF ReadySet
    <2>2. Cardinality(ReadySet(l.pcb)) \in Nat /\ Cardinality(ReadySet(l.pcb)) # 0
      BY <2>1, ReadyFinite, FS_CardinalityType, FS_EmptySet
    <2> QED BY <2>2, <1>2, <1>3 DEF Good
  <1>8. queue # <<>>
    <2>1. \E i \in 1..Len(queue) : queue[i] = r
      BY <1>1, <1>5, <1>6, ScanContext DEF Lists
    <2> QED BY <2>1, EmptySeq
  <1>9. /\ Head(queue) \in LiveSet(pcb) \ {cur, Idle}
        /\ Lists(Tail(queue), (LiveSet(pcb) \ {cur, Idle}) \ {Head(queue)})
    BY <1>1, <1>8, ScanContext, ListsTail
  <1>10. Placed(pcb', queue', cur') /\ cur' # Idle
    <2>1. (LiveSet(pcb) \ {cur, Idle}) \ {Head(queue)} = LiveSet(pcb') \ {cur', Idle}
      BY <1>1, <1>4
    <2> QED BY <2>1, <1>1, <1>4, <1>9 DEF Placed
  <1>11. Pids(pcb', pidCounter') /\ pidCounter' \in Nat
    <2>1. Pids(pcb, pidCounter) /\ pidCounter \in Nat
      BY DEF IInv, Core
    <2>2. \A t \in LiveSet(pcb) : pcb[t].pid \in Nat /\ 0 < pcb[t].pid /\ pcb[t].pid < pidCounter
      BY <1>1, <2>1, ScanContext DEF Pids, LiveSet, Pcb
    <2>3. \A t \in LiveSet(pcb') : /\ t \in LiveSet(pcb) /\ t # cur
                                   /\ pcb'[t].pid = pcb[t].pid /\ pcb[t].pid # pcb[cur].pid
      BY <1>1, <1>2, <1>3, <1>4, <2>1, ScanContext DEF Pids, LiveSet
    <2>4. pidCounter' \in Nat
      BY <1>1, <2>1, <2>2, ScanContext
    <2>5. \A t \in LiveSet(pcb') : 0 < pcb'[t].pid /\ pcb'[t].pid < pidCounter'
      BY <1>1, <2>1, <2>2, <2>3
    <2>6. \A t, u \in LiveSet(pcb') : pcb'[t].pid = pcb'[u].pid => t = u
      BY <2>1, <2>3 DEF Pids
    <2> QED BY <2>4, <2>5, <2>6 DEF Pids
  <1>12. cont' \in Cont /\ cont'[Idle] = InUser
    <2>1. InUser \in [at : {"user", "reap", "waitpid"}, child : Slot \cup {None}]
      BY DEF InUser
    <2> QED BY <2>1, <1>1, ScanContext, ContExcept
  <1> QED BY <1>1, <1>3, <1>7, <1>10, <1>11, <1>12 DEF IInv, Core

-----------------------------------------------------------------------------
(* The invariant. *)

LEMMA InitIInv == Init => IInv
  <1> SUFFICES ASSUME Init PROVE IInv
    OBVIOUS
  <1>1. /\ pcb = [s \in Slot |->
                    CASE s = Idle -> NewPcb(IdlePid, 0, FALSE)
                      [] s = InitProc -> NewPcb(InitPid, 0, FALSE)
                      [] s = Shell -> NewPcb(UserlandPid, 0, TRUE)
                      [] OTHER -> FreePcb]
        /\ queue = <<Shell>> /\ cur = InitProc /\ mode = "run"
        /\ cycles = BackgroundPriority /\ readyCount = 2 /\ pidCounter = UserlandPid + 1
        /\ sem = [x \in Sem |-> NewSem(IF x \in UserSem THEN SemValue ELSE 0)]
        /\ cont = [s \in Slot |-> InUser]
    BY DEF Init
  <1>2. /\ Idle \in Slot /\ InitProc \in Slot /\ Shell \in Slot
        /\ Idle # InitProc /\ Idle # Shell /\ InitProc # Shell
    BY SlotAssumption
  <1>3. /\ pcb[Idle] = NewPcb(IdlePid, 0, FALSE)
        /\ pcb[InitProc] = NewPcb(InitPid, 0, FALSE)
        /\ pcb[Shell] = NewPcb(UserlandPid, 0, TRUE)
        /\ \A s \in Slot \ {Idle, InitProc, Shell} : pcb[s] = FreePcb
    BY <1>1, <1>2
  <1>4. \A fg \in BOOLEAN, pid, ppid \in Nat :
          /\ NewPcb(pid, ppid, fg) \in Pcb
          /\ NewPcb(pid, ppid, fg).pid = pid
          /\ NewPcb(pid, ppid, fg).ppid = ppid
          /\ NewPcb(pid, ppid, fg).fg = fg
          /\ NewPcb(pid, ppid, fg).state = "READY"
    BY DEF NewPcb, Pcb, State, Priority, ForegroundPriority, BackgroundPriority
  <1>5. FreePcb \in Pcb /\ FreePcb.state = NoPcb
    BY DEF FreePcb, Pcb, State
  <1>6. IdlePid = 1 /\ InitPid = 2 /\ UserlandPid = 3
    BY DEF IdlePid, InitPid, UserlandPid
  <1>7. pcb \in [Slot -> Pcb]
    BY <1>1, <1>4, <1>5, <1>6
  <1>14. /\ pcb[Idle].pid = 1 /\ pcb[InitProc].pid = 2 /\ pcb[Shell].pid = 3
         /\ pcb[Idle].ppid = 0
         /\ pcb[Idle].fg = FALSE
         /\ pcb[Idle].state = "READY"
         /\ pcb[InitProc].state = "READY"
         /\ pcb[Shell].state = "READY"
    BY <1>3, <1>6 DEF NewPcb
  <1>15. \A s \in Slot \ {Idle, InitProc, Shell} : pcb[s].state = "free"
    BY <1>3, <1>5 DEF NoPcb
  <1>8. LiveSet(pcb) = {Idle, InitProc, Shell}
    BY <1>2, <1>14, <1>15 DEF LiveSet, NoPcb
  <1>9. Good(K)
    <2>1. \A x \in Sem : sem[x] \in Semaphore /\ sem[x].waiters = <<>>
      BY <1>1, EmptySeq, BoundAssumption DEF NewSem, Semaphore
    <2>2. sem \in [Sem -> Semaphore]
      BY <2>1, <1>1
    <2>3. K \in Table
      <3>1. readyCount \in Int
        BY <1>1
      <3> QED BY <1>7, <2>2, <3>1 DEF K, Table
    <2>4. ReadySet(pcb) = {InitProc, Shell}
      BY <1>2, <1>14, <1>15 DEF ReadySet
    <2>5. Cardinality({InitProc, Shell}) = 2
      <3>1. {InitProc, Shell} = {InitProc} \cup {Shell}
        OBVIOUS
      <3>2. IsFiniteSet({InitProc}) /\ Cardinality({InitProc}) = 1
        BY FS_Singleton
      <3>3. Shell \notin {InitProc}
        BY <1>2
      <3> QED BY <3>1, <3>2, <3>3, FS_AddElement
    <2>6. IdleOK(pcb)
      BY <1>6, <1>14 DEF IdleOK
    <2> QED BY <1>1, <2>1, <2>3, <2>4, <2>5, <2>6, KTypes DEF Good
  <1>10. Placed(pcb, queue, cur)
    <2>1. queue \in Seq(Slot) /\ Len(queue) = 1 /\ queue[1] = Shell
      BY <1>1, <1>2
    <2>2. Lists(queue, {Shell})
      BY <2>1 DEF Lists
    <2>3. LiveSet(pcb) \ {cur, Idle} = {Shell}
      BY <1>1, <1>2, <1>8
    <2> QED BY <2>2, <2>3, <1>1, <1>8 DEF Placed
  <1>11. Pids(pcb, pidCounter)
    <2>1. pcb[Idle].pid = 1 /\ pcb[InitProc].pid = 2 /\ pcb[Shell].pid = 3 /\ pidCounter = 4
      <3>1. pidCounter = UserlandPid + 1
        BY <1>1
      <3> QED BY <1>6, <1>14, <3>1
    <2> QED BY <2>1, <1>8 DEF Pids
  <1>12. cont \in Cont /\ cont[Idle] = InUser
    BY <1>1, <1>2 DEF Cont, InUser
  <1> QED BY <1>1, <1>9, <1>10, <1>11, <1>12
      DEF IInv, Core, BackgroundPriority, UserlandPid

LEMMA NextIInv == IInv /\ [Next]_vars => IInv'
  <1> SUFFICES ASSUME IInv, [Next]_vars PROVE IInv'
    OBVIOUS
  <1>1. CASE Scan
    BY <1>1, ScanRunStep, ScanSkipStep, ScanFreeStep DEF Scan
  <1>2. CASE Tick
    BY <1>2, TickStep
  <1>3. CASE CtrlC
    BY <1>3, CtrlCStep
  <1>4. CASE Syscall
    BY <1>4, StartTaskStep, StartTaskFailsStep, ExitStep, KillTaskStep, BlockTaskStep,
       ResumeTaskStep, NiceStep, YieldStep, SemWaitStep, SemPostStep, WaitpidStep DEF Syscall
  <1>5. CASE WaitpidReturn
    BY <1>5, WaitpidReturnStep
  <1>6. CASE InitStep
    BY <1>6, InitWaitStep, InitSleepStep, InitFindStep DEF InitStep
  <1>7. CASE UNCHANGED vars
    <2>1. UNCHANGED <<pcb, queue, cur, mode, cycles, readyCount, pidCounter, sem, cont>>
      BY <1>7 DEF vars
    <2>2. K' = K
      BY <2>1 DEF K
    <2> QED BY <2>1, <2>2 DEF IInv, Core, Placed, Pids
  <1> QED BY <1>1, <1>2, <1>3, <1>4, <1>5, <1>6, <1>7 DEF Next

(* IInv is an invariant of every execution, of the fair ones too. *)
LEMMA Invariance == Spec => []IInv
  BY InitIInv, NextIInv, PTL DEF Spec

(* Type correctness: the variables of processManager.c keep their types.    *)
THEOREM TypeCorrect == Spec => []TypeOK
  <1>1. IInv => TypeOK
    <2> SUFFICES ASSUME IInv PROVE TypeOK
      OBVIOUS
    <2>1. K \in Table /\ K.pcb = pcb /\ K.sem = sem /\ K.ready = readyCount
      BY KTypes DEF IInv, Core, Good
    <2>2. queue \in Seq(Slot) /\ cur \in Slot
      BY IInvReachable
    <2> QED BY <2>1, <2>2 DEF TypeOK, IInv, Core, Cont, Table, Pcb, Semaphore
  <1> QED BY <1>1, Invariance, PTL

(* readyCount, kept by changeState, startTask and terminateChildren, is the *)
(* number of ready processes at every step, whatever kill, block, resume,   *)
(* Ctrl-C and stale pids do.                                                *)
THEOREM ReadyCountCorrect == Spec => []ReadyCountExact
  <1>1. IInv => ReadyCountExact
    BY KTypes DEF IInv, Core, Good, ReadyCountExact, ReadySet
  <1> QED BY <1>1, Invariance, PTL

(* The loop of scheduleTask always has a ready process ahead: it neither    *)
(* runs forever nor dequeues from an empty queue.                           *)
THEOREM SchedulerFindsReady == Spec => []ScanFinds
  <1>1. IInv => ScanFinds
    <2> SUFFICES ASSUME IInv, mode = "scan"
                 PROVE  /\ cur # Idle
                        /\ \E s \in Slot : s # Idle /\ Visible(s) /\ pcb[s].state = "READY"
      BY DEF ScanFinds
    <2>1. PICK s \in LiveSet(pcb) \ {Idle} : pcb[s].state = "READY"
      BY ScanContext
    <2>2. s \in Slot
      BY DEF LiveSet
    <2>3. s # cur => \E i \in 1..Len(queue) : queue[i] = s
      BY <2>1, <2>2, ScanContext DEF Lists
    <2> QED BY <2>1, <2>2, <2>3, ScanContext DEF Visible, InQueue
  <1> QED BY <1>1, Invariance, PTL

(* No process is lost by the scheduler or listed twice, and no freed pcb    *)
(* can be reached from the queue or from currentProcessPCB.                 *)
THEOREM QueueCorrect == Spec => []QueueExact
  <1>1. IInv => QueueExact
    <2> SUFFICES ASSUME IInv PROVE QueueExact
      OBVIOUS
    <2>1. cur \in LiveSet(pcb) /\ Lists(queue, LiveSet(pcb) \ {cur, Idle})
      BY DEF IInv, Core, Placed
    <2> QED BY <2>1 DEF QueueExact, Lists, LiveSet, InQueue, Live
  <1> QED BY <1>1, Invariance, PTL

(* A pid names one process, although freeProcess lowers pidCounter and the  *)
(* next startTask uses the pid again.                                       *)
THEOREM PidsUnique == Spec => []PidsDistinct
  <1>1. IInv => PidsDistinct
    BY DEF IInv, Core, Pids, PidsDistinct, LiveSet, Live
  <1> QED BY <1>1, Invariance, PTL

(* A semaphore with units has nobody waiting: semWait and semPost never     *)
(* leave a process asleep next to a unit it could take.                     *)
THEOREM SemaphoresSound == Spec => []SemSound
  <1>1. IInv => SemSound
    BY KTypes DEF IInv, Core, Good, SemSound
  <1> QED BY <1>1, Invariance, PTL

=============================================================================
