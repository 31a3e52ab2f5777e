------------------------------ MODULE SemTable ------------------------------
(***************************************************************************)
(* The table of semaphores (semaphores/sem.c) on the linked queues of      *)
(* lib/queue.c, and the programs that use it as test_sync and phylo do:    *)
(* openers share a semaphore by its name and add to a counter inside it;   *)
(* an owner makes one without a name, hands its identifier to guests and   *)
(* closes it when it likes.                                                *)
(*                                                                         *)
(* A system call runs with interrupts disabled, so that it is one step and *)
(* nobody ever finds allSemsLock taken; the lock of a semaphore matters    *)
(* where a call returns without releasing it.  Any process may be killed.  *)
(***************************************************************************)
EXTENDS LinkedQueue

CONSTANTS
  Opener, Owner, Guest,   \* processes, numbers
  Spelling,               \* the name each opener gives to semOpen
  Lower,                  \* its letters in lower case, as strcasecmp compares
  Amount,                 \* what each process adds to the counter
  Rounds,                 \* how often
  Together,               \* bound: how many of the processes take part
  Faults                  \* mallocs that may fail: "sem", "queue" (in initQueue) and
                          \* "name" in createSem, "pid" in semWait, "node" in enqueue,
                          \* "iterator" in find

ASSUME ProcessAssumption ==
  /\ IsFiniteSet(Opener) /\ IsFiniteSet(Guest)
  /\ Opener \cap Guest = {} /\ Owner \notin Opener \cup Guest

Client == Opener \cup Guest \cup {Owner}
Unnamed == ""
ASSUME NameAssumption ==         \* semOpen is given a name
  Lower[Unnamed] = Unnamed /\ \A c \in Opener : Lower[Spelling[c]] # Unnamed
ASSUME CounterAssumption == Rounds \in Nat \ {0} /\ Amount \in [Client -> Int]

SemId == 0..Cardinality(Client)
Cell(c) == IF c \in Opener THEN Lower[Spelling[c]] ELSE Unnamed

VARIABLES
  mem,        \* the nodes of all queues
  semQueue,   \* the queue of the identifiers of the t_sem
  sems,       \* the t_sem that malloc has given out, by their identifier
  semId,      \* the identifier of the next
  at, id,     \* where each process is, and the semaphore it uses
  left, aux,  \* rounds it has left, what it read of the counter
  global,     \* the counters
  missed      \* history: the names whose semaphore find has missed

sysVars == <<mem, semQueue, sems, semId>>
vars == <<mem, semQueue, sems, semId, at, id, left, aux, global, missed>>

Goes(c, to) == at' = [at EXCEPT ![c] = to]

(* The processor halts when acquire finds a lock taken, which nobody can     *)
(* release while it spins, for interrupts are disabled; and when a queue    *)
(* that initQueue did not make is used: at address 0 are descriptors of     *)
(* interrupts, and what is read there as a node or as a pid is no address   *)
(* that the processor accepts.                                              *)
Running == \A c \in Client : at[c] # "halts"

-----------------------------------------------------------------------------
(* findSem and findSemName: only semaphores in the queue are found.         *)
FindSem(i) == FindFirst(mem, semQueue, {i})
FindSemName(name) ==
  FindFirst(mem, semQueue, {i \in DOMAIN sems : Lower[sems[i].name] = Lower[name]})

(* What find answers to process c; when it is not found, the semaphore of   *)
(* that name has been missed for want of memory.                            *)
Found(found) == Answers(found, "iterator" \in Faults)
Misses(c, s, found) == missed' = IF s = found THEN missed ELSE missed \cup {Cell(c)}

(* getBlockedPids, and what getSemInfo copies for the command sem, when     *)
(* their mallocs have memory.                                               *)
GetBlockedPids(i) ==
  IF FindSem(i) = NULL THEN <<>> ELSE Contents(mem, sems[i].blocked)
GetSemInfo ==
  LET ids == Contents(mem, semQueue)
  IN [k \in DOMAIN ids |->
        [id |-> ids[k], name |-> sems[ids[k]].name, value |-> sems[ids[k]].value,
         lock |-> sems[ids[k]].lock, attached |-> sems[ids[k]].attached, blockedPids |-> GetBlockedPids(ids[k])]]

(* createSem, after which attached processes use it.  Without memory for    *)
(* its node the semaphore exists, and its identifier is handed out, but it  *)
(* is not in the table.  Without memory for its queue it exists too: nobody *)
(* looks at what initQueue returns.  An identifier is used up before the    *)
(* name fails.                                                              *)
CreateSem(value, name, attached, listed, hasQueue) ==
  LET new == [value |-> value, name |-> name, attached |-> attached, lock |-> FALSE,
              hasQueue |-> hasQueue, blocked |-> EmptyQueue]
      r == Enqueue(mem, semQueue, semId)
  IN /\ sems' = [i \in DOMAIN sems \cup {semId} |-> IF i = semId THEN new ELSE sems[i]]
     /\ semId' = semId + 1
     /\ IF listed THEN mem' = r.mem /\ semQueue' = r.q ELSE UNCHANGED <<mem, semQueue>>

CreateFails ==
  \/ "sem" \in Faults /\ UNCHANGED sysVars
  \/ "name" \in Faults /\ semId' = semId + 1 /\ UNCHANGED <<mem, semQueue, sems>>

Creates(name) ==
  \E listed \in {l \in BOOLEAN : IF l THEN Room(mem) ELSE "node" \in Faults},
     hasQueue \in {h \in BOOLEAN : h \/ "queue" \in Faults} :
       CreateSem(1, name, 1, listed, hasQueue)

BadSemOpen(c) ==
  /\ Running /\ c \in Opener /\ at[c] = "start"
  /\ \E s \in Found(FindSemName(Spelling[c])) :
       /\ Misses(c, s, FindSemName(Spelling[c]))
       /\ IF s # NULL
          THEN id' = [id EXCEPT ![c] = s] /\ UNCHANGED sysVars /\ Goes(c, "wait")
          ELSE \/ Creates(Spelling[c]) /\ id' = [id EXCEPT ![c] = semId] /\ Goes(c, "wait")
               \/ CreateFails /\ Goes(c, "done") /\ UNCHANGED id
  /\ UNCHANGED <<left, aux, global>>

(* semOpen(name, 1): the one of that name, or a new one. *)
SemOpen(c) ==
  /\ Running /\ c \in Opener /\ at[c] = "start"
  /\ \E s \in Found(FindSemName(Spelling[c])) :
       /\ Misses(c, s, FindSemName(Spelling[c]))
       /\ IF s # NULL
          THEN /\ sems' = [sems EXCEPT ![s].attached = @ + 1]
               /\ id' = [id EXCEPT ![c] = s]
               /\ Goes(c, "wait")
               /\ UNCHANGED <<mem, semQueue, semId>>
          ELSE \/ Creates(Spelling[c]) /\ id' = [id EXCEPT ![c] = semId] /\ Goes(c, "wait")
               \/ CreateFails /\ Goes(c, "done") /\ UNCHANGED id
  /\ UNCHANGED <<left, aux, global>>

(* semInit(1), whose identifier the owner shows to the guests. *)
SemInit ==
  /\ Running /\ at[Owner] = "start"
  /\ \/ /\ Creates(Unnamed)
        /\ id' = [c \in Client |-> IF c = Owner \/ at[c] = "idle" THEN semId ELSE id[c]]
        /\ at' = [c \in Client |-> IF c = Owner THEN "close"
                                   ELSE IF at[c] = "idle" THEN "wait" ELSE at[c]]
     \/ CreateFails /\ Goes(Owner, "done") /\ UNCHANGED id
  /\ UNCHANGED <<left, aux, global, missed>>

BadSemClose(c) ==
  /\ Running /\ at[c] = "close"
  /\ \E s \in Found(FindSem(id[c])) :
       LET r == TakeElement(mem, semQueue, s)
       IN /\ Misses(c, s, FindSem(id[c]))
          /\ IF s = NULL THEN UNCHANGED sysVars
             ELSE /\ sems' = [i \in DOMAIN sems \ {s} |-> sems[i]]
                  /\ mem' = FreeQueue(r.mem, sems[s].blocked)
                  /\ semQueue' = r.q
                  /\ UNCHANGED semId
  /\ Goes(c, "done")
  /\ UNCHANGED <<id, left, aux, global>>

(* semClose: the last to close it destroys a semaphore, and whoever closes  *)
(* one without a name does.  The pids in its queue are freed with it.       *)
SemClose(c) ==
  /\ Running /\ at[c] = "close"
  /\ \E s \in Found(FindSem(id[c])) :
       LET r == TakeElement(mem, semQueue, s)
       IN /\ Misses(c, s, FindSem(id[c]))
          /\ IF s = NULL THEN UNCHANGED sysVars
             ELSE IF sems[s].name = Unnamed \/ sems[s].attached = 1
             THEN /\ sems' = [i \in DOMAIN sems \ {s} |-> sems[i]]
                  /\ mem' = FreeQueue(r.mem, sems[s].blocked)
                  /\ semQueue' = r.q
                  /\ UNCHANGED semId
             ELSE sems' = [sems EXCEPT ![s].attached = @ - 1] /\ UNCHANGED <<mem, semQueue, semId>>
  /\ Goes(c, "done")
  /\ UNCHANGED <<id, left, aux, global>>

(* semWait of a semaphore whose value is 0.  Without memory for the pid of  *)
(* the caller it lets it go on, with the lock taken; without memory for the *)
(* node it blocks the caller, who is in no queue, for it does not look at   *)
(* what enqueue returns.                                                    *)
Block(c, s) ==
  LET r == Enqueue(mem, sems[s].blocked, c)
  IN \/ /\ "pid" \in Faults
        /\ sems' = [sems EXCEPT ![s].lock = TRUE]
        /\ Goes(c, "read") /\ UNCHANGED <<mem, semQueue, semId>>
     \/ "node" \in Faults /\ Goes(c, "asleep") /\ UNCHANGED sysVars
     \/ ~sems[s].hasQueue /\ Goes(c, "halts") /\ UNCHANGED sysVars
     \/ /\ sems[s].hasQueue /\ Room(mem)
        /\ sems' = [sems EXCEPT ![s].blocked = r.q]
        /\ mem' = r.mem
        /\ Goes(c, "asleep") /\ UNCHANGED <<semQueue, semId>>

(* semWait, which answers -1 and lets the caller go on for a semaphore that *)
(* find does not find.                                                      *)
SemWait(c) ==
  /\ Running /\ at[c] = "wait"
  /\ \E s \in Found(FindSem(id[c])) :
       /\ Misses(c, s, FindSem(id[c]))
       /\ \/ s = NULL /\ Goes(c, "read") /\ UNCHANGED sysVars
          \/ s # NULL /\ sems[s].lock /\ Goes(c, "halts") /\ UNCHANGED sysVars
          \/ /\ s # NULL /\ ~sems[s].lock /\ sems[s].value > 0
             /\ sems' = [sems EXCEPT ![s].value = @ - 1]
             /\ Goes(c, "read") /\ UNCHANGED <<mem, semQueue, semId>>
          \/ s # NULL /\ ~sems[s].lock /\ sems[s].value = 0 /\ Block(c, s)
  /\ UNCHANGED <<id, left, aux, global>>

(* slowInc reads the counter, and lets others run. *)
Read(c) ==
  /\ Running /\ at[c] = "read"
  /\ aux' = [aux EXCEPT ![c] = global[Cell(c)]]
  /\ Goes(c, "write")
  /\ UNCHANGED <<sysVars, id, left, global, missed>>

-----------------------------------------------------------------------------
(* The pids dequeue returns until one can be resumed, or all of them: those *)
(* of processes that have been killed cannot.                               *)
Woken(s) ==
  LET pids == Contents(mem, sems[s].blocked)
      alive == {k \in DOMAIN pids : at[pids[k]] # "dead"}
  IN IF alive = {} THEN pids ELSE SubSeq(pids, 1, Min(alive))

(* dequeue, k times. *)
Dequeued(s, k) ==
  LET nth[j \in 0..k] ==
        IF j = 0 THEN [mem |-> mem, q |-> sems[s].blocked]
        ELSE LET t == nth[j - 1]
                 r == Dequeue(t.mem, t.q)
             IN [mem |-> r.mem, q |-> r.q]
  IN nth[k]

BadPost(s, to) ==
  IF sems[s].blocked.size = 0
  THEN at' = to /\ sems' = [sems EXCEPT ![s].value = @ + 1] /\ UNCHANGED mem
  ELSE LET r == Dequeued(s, 1)
           w == Woken(s)[1]
       IN /\ mem' = r.mem
          /\ sems' = [sems EXCEPT ![s].blocked = r.q]
          /\ at' = IF at[w] = "dead" THEN to ELSE [to EXCEPT ![w] = "read"]

BadPostTwice(s, to) ==
  LET woken == Woken(s)
      r == Dequeued(s, Len(woken))
      handed == woken # <<>> /\ at[woken[Len(woken)]] # "dead"
  IN /\ mem' = r.mem
     /\ sems' = [sems EXCEPT ![s].blocked = r.q, ![s].value = @ + 1]
     /\ at' = IF handed THEN [to EXCEPT ![woken[Len(woken)]] = "read"] ELSE to

(* semPost on s, when the processes are where to says. *)
Post(s, to) ==
  LET woken == Woken(s)
      r == Dequeued(s, Len(woken))
      handed == woken # <<>> /\ at[woken[Len(woken)]] # "dead"
  IN /\ mem' = r.mem
     /\ sems' = [sems EXCEPT ![s].blocked = r.q,
                             ![s].value = IF handed THEN @ ELSE @ + 1]
     /\ at' = IF handed THEN [to EXCEPT ![woken[Len(woken)]] = "read"] ELSE to

(* slowInc writes the counter, and semPost. *)
SemPost(c) ==
  LET to == [at EXCEPT ![c] = IF left[c] # 1 THEN "wait"
                              ELSE IF c \in Guest THEN "done" ELSE "close"]
  IN /\ Running /\ at[c] = "write"
     /\ \E s \in Found(FindSem(id[c])) :
          /\ Misses(c, s, FindSem(id[c]))
          /\ \/ s = NULL /\ at' = to /\ UNCHANGED sysVars
             \/ /\ s # NULL /\ (sems[s].lock \/ ~sems[s].hasQueue)
                /\ Goes(c, "halts") /\ UNCHANGED sysVars
             \/ /\ s # NULL /\ ~sems[s].lock /\ sems[s].hasQueue
                /\ Post(s, to) /\ UNCHANGED <<semQueue, semId>>
     /\ left' = [left EXCEPT ![c] = @ - 1]
     /\ global' = [global EXCEPT ![Cell(c)] = aux[c] + Amount[c]]
     /\ aux' = [aux EXCEPT ![c] = 0]
     /\ UNCHANGED id

(* kill: nothing is closed on behalf of the process.  Killed elsewhere it   *)
(* leaves behind the same: a semaphore open, and taken if it was inside.    *)
Kill(c) ==
  /\ Running /\ at[c] \in {"wait", "asleep", "write"}
  /\ Goes(c, "dead")
  /\ UNCHANGED <<sysVars, id, left, aux, global, missed>>

Init ==
  /\ mem = <<>> /\ semQueue = EmptyQueue /\ sems = <<>> /\ semId = 0
  /\ \E crew \in {s \in SUBSET Client : Cardinality(s) = Together} :
       at = [c \in Client |-> IF c \notin crew THEN "done"
                              ELSE IF c \in Guest THEN "idle" ELSE "start"]
  /\ id = [c \in Client |-> NULL]
  /\ left = [c \in Client |-> Rounds] /\ aux = [c \in Client |-> 0]
  /\ global = [n \in {Cell(c) : c \in Client} |-> 0]
  /\ missed = {}

Next ==
  \/ SemInit
  \/ \E c \in Client :
       SemOpen(c) \/ SemClose(c) \/ SemWait(c) \/ SemPost(c) \/ Read(c) \/ Kill(c)

Spec == Init /\ [][Next]_vars

-----------------------------------------------------------------------------
(* Properties.                                                              *)
Asleep == {c \in Client : at[c] = "asleep"}
Dead == {c \in Client : at[c] = "dead"}
Table == LET ids == Contents(mem, semQueue) IN {ids[k] : k \in DOMAIN ids}
InTable(i) == i \in Table

TypeOK ==
  /\ DOMAIN mem \subseteq Node
  /\ semQueue \in [first : Node \cup {NULL}, last : Node \cup {NULL}, size : Nat]
  /\ semId \in SemId /\ DOMAIN sems \subseteq SemId
  /\ \A i \in DOMAIN sems :
       /\ sems[i].value \in IF Lower[sems[i].name] \in missed THEN Nat ELSE 0..1
       /\ sems[i].attached \in 1..Cardinality(Client)
  /\ at \in [Client -> {"start", "idle", "wait", "asleep", "read", "write", "close",
                        "done", "dead", "halts"}]
  /\ id \in [Client -> SemId \cup {NULL}] /\ left \in [Client -> 0..Rounds]

(* Every queue is in order, and every node in use is in exactly one of      *)
(* them: none is lost when a semaphore is closed or a killed process is     *)
(* passed over.                                                             *)
Queues == {semQueue} \cup {sems[i].blocked : i \in DOMAIN sems}
QueuesSound ==
  LET nodes(q) == LET seq == NodesFrom(mem, q.first) IN {seq[k] : k \in DOMAIN seq}
      listed == nodes(semQueue)
      waiting(i) == nodes(sems[i].blocked)
  IN /\ \A q \in Queues : WellFormed(mem, q)
     /\ DOMAIN mem = listed \cup UNION {waiting(i) : i \in DOMAIN sems}
     /\ \A i \in DOMAIN sems :
          /\ listed \cap waiting(i) = {}
          /\ \A j \in DOMAIN sems \ {i} : waiting(i) \cap waiting(j) = {}

(* Those who open a name find it as it should be as long as find has not    *)
(* missed its semaphore, nor createSem left it out of the table, for want   *)
(* of memory.                                                               *)
Named(name) == {i \in DOMAIN sems : Lower[sems[i].name] = name}
Intact(name) == name \notin missed /\ Named(name) \subseteq Table

(* Nobody destroys the semaphore of an opener before it closes it, and      *)
(* while their name is intact all who open it share one semaphore, whatever *)
(* their spelling, and find it.  The dump counts for each just those who    *)
(* have it open, the killed included (semOpen, semClose, getSemInfo).       *)
HasOpened(c) == c \in Opener \cup {Owner} /\ id[c] # NULL /\ at[c] # "done"
OpenedStays ==
  LET users == {c \in Opener : HasOpened(c)}
  IN /\ \A c \in users : id[c] \in DOMAIN sems
     /\ \A c, d \in users :
          Cell(c) = Cell(d) /\ Intact(Cell(c)) => id[c] = id[d] /\ InTable(id[c])
     /\ \A k \in DOMAIN GetSemInfo :
          Lower[GetSemInfo[k].name] \notin missed =>
            GetSemInfo[k].attached
              = Cardinality({c \in Client : HasOpened(c) /\ id[c] = GetSemInfo[k].id})

(* What test_sync checks: the counter of a name is the sum of what was      *)
(* added, as long as the name is intact and semWait has not left its lock   *)
(* taken.  Whatever malloc fails for the semaphores of other names, and     *)
(* whoever sleeps in no queue, does no harm to it.                          *)
FinalValue ==
  \A name \in {Cell(c) : c \in Opener} :
    Intact(name) /\ (\A i \in Named(name) : ~sems[i].lock) =>
      LET users == {c \in Opener : Cell(c) = name}
          added == [c \in Opener |-> (Rounds - left[c]) * Amount[c]]
      IN global[name] = FoldSet(LAMBDA c, n : n + added[c], 0, users)

(* A process asleep is in the queue of a semaphore that can wake it, until  *)
(* somebody closes a semaphore without a name under it: semClose frees the  *)
(* pids and wakes nobody.  Only one that has gone to sleep without memory   *)
(* for its node never is.                                                   *)
Stranded(c) ==
  /\ at[c] = "asleep"
  /\ LET pids == GetBlockedPids(id[c]) IN \A k \in DOMAIN pids : pids[k] # c
StrandedByCloseOrMemory ==
  [][\A c \in Client : Stranded(c)' /\ ~Stranded(c) =>
       \/ c \in Guest /\ at[Owner] = "close" /\ at'[Owner] = "done"
       \/ at[c] = "wait" /\ "node" \in Faults /\ UNCHANGED sysVars]_vars

(* The semaphores in the table are counts with their sleepers in order of   *)
(* arrival (Semaphores), through every list operation.                      *)
Promise == INSTANCE Semaphores WITH
  Id <- SemId,
  table <- [i \in Table |->
              [value |-> sems[i].value, waiters |-> Contents(mem, sems[i].blocked)]],
  dead <- Dead
SemaphoresPromised == Promise!Spec
=============================================================================
