---------------------------- MODULE ChannelProofs ----------------------------
(***************************************************************************)
(* Proofs about what is in the pipes of Pipeline, for any number of        *)
(* pipelines, any bytes and any capacity: the semaphores of a pipe account *)
(* for its buffer, and the pipe is a first-in first-out channel, the       *)
(* abstract specification Channel.  They need that no writer ends while    *)
(* its pipe is full ("full" is not among the faults): the scheduler, which  *)
(* cannot block, would put the end of file over a byte that was not read.   *)
(***************************************************************************)
EXTENDS PipelineProofs

(* The process p that may wait for the semaphore s, its call and its state, *)
(* when d units should be there: counted, or in the hands of p.             *)
Units(s, p, c, st) ==
  IF c = None \/ s.waiters # <<>> THEN {0} ELSE IF st \in Awake THEN {1} ELSE {0, 1}
Side(s, p, c, st, d) ==
  /\ s.waiters = <<>> \/ s.waiters = <<p>>
  /\ s.waiters = <<p>> => c # None /\ st # "READY" /\ s.value = 0
  /\ st = "BLOCKED" => s.waiters = <<p>>
  /\ d - s.value \in Units(s, p, c, st)

(* The circular buffer of the pipe x holds what is in o and not yet in i.   *)
Buffered(x, o, i) ==
  /\ x.writeIndex = Len(o) % Capacity /\ x.readIndex = Len(i) % Capacity
  /\ \A k \in (Len(i) + 1)..Len(o) : x.buffer[(k - 1) % Capacity] = o[k]

Unread(j) == Len(out[j]) - Len(in[j])
Chan(j) ==
  /\ Side(pipe[j].readSem, Reader(j), call[Reader(j)], state[Reader(j)], Unread(j))
  /\ Side(pipe[j].writeSem, Writer(j), call[Writer(j)], state[Writer(j)], Capacity - Unread(j))
  /\ Buffered(pipe[j], out[j], in[j])
  /\ state[Writer(j)] \in {"EXITED", "TERMINATED"} => pipe[j].writeSem.value > 0
  /\ \A k \in 1..Len(out[j]) : out[j][k] = Eof => state[Writer(j)] = "freed"
Chans == \A j \in Job : pipe[j].open => Chan(j)

-----------------------------------------------------------------------------
(* Places in a circular buffer.                                             *)

LEMMA Times ==
  ASSUME NEW C \in Int, NEW a \in Int
  PROVE  C * a \in Int /\ C * (a + 1) = C * a + C /\ C * 1 = C /\ C * 0 = 0
  <1>1. C * a \in Int
    OBVIOUS
  <1>2. C * (a + 1) = C * a + C
    OBVIOUS
  <1>3. C * 1 = C /\ C * 0 = 0
    OBVIOUS
  <1> QED BY <1>1, <1>2, <1>3

LEMMA Division ==
  ASSUME NEW n \in Nat, NEW C \in Nat, C > 0
  PROVE  n \div C \in Int /\ n % C \in 0..(C - 1) /\ n = C * (n \div C) + (n % C)
  <1>1. n \div C \in Int
    OBVIOUS
  <1>2. n % C \in 0..(C - 1)
    OBVIOUS
  <1>3. n = C * (n \div C) + (n % C)
    OBVIOUS
  <1> QED BY <1>1, <1>2, <1>3

(* Two multiples of C less than C apart are the same. *)
LEMMA MultipleApart ==
  ASSUME NEW C \in Nat, C > 0, NEW q \in Int, NEW r \in Int, C * q < C * r + C, C * r < C * q + C
  PROVE  q = r
  <1>1. q - r \in Int /\ C * (q - r) = C * q - C * r
    OBVIOUS
  <1>2. ASSUME q - r >= 1 PROVE FALSE
    <2>1. C * (q - r) >= C * 1
      BY <1>1, <1>2
    <2> QED BY <1>1, <2>1
  <1>3. ASSUME q - r <= -1 PROVE FALSE
    <2>1. C * (q - r) <= C * (-1)
      BY <1>1, <1>3
    <2> QED BY <1>1, <2>1
  <1> QED BY <1>1, <1>2, <1>3

LEMMA Remainder ==
  ASSUME NEW n \in Nat, NEW C \in Nat, C > 0, NEW q \in Int, NEW r \in 0..(C - 1), n = C * q + r
  PROVE  n % C = r
  <1> DEFINE a == n \div C
  <1>1. a \in Int /\ n % C \in 0..(C - 1) /\ n = C * a + (n % C)
    BY Division
  <1> HIDE DEF a
  <1>2. C * a \in Int /\ C * q \in Int
    BY <1>1, Times
  <1>3. a = q
    BY <1>1, <1>2, MultipleApart
  <1> QED BY <1>1, <1>2, <1>3

(* An index of a buffer moves to the next place, and two positions less than *)
(* a buffer apart have places of their own.                                 *)
LEMMA NextPlace ==
  ASSUME NEW n \in Nat, NEW C \in Nat, C > 0
  PROVE  ((n % C) + 1) % C = (n + 1) % C
  <1> DEFINE a == n \div C
             r == n % C
  <1>1. a \in Int /\ r \in 0..(C - 1) /\ n = C * a + r
    BY Division
  <1> HIDE DEF a, r
  <1>2. C * a \in Int /\ C * 1 = C /\ C * 0 = 0 /\ C * (a + 1) = C * a + C
    BY <1>1, Times
  <1>3. CASE r + 1 < C
    <2>1. (r + 1) % C = r + 1
      BY <1>1, <1>2, <1>3, Remainder
    <2>2. (n + 1) % C = r + 1
      BY <1>1, <1>2, <1>3, Remainder
    <2> QED BY <2>1, <2>2 DEF r
  <1>4. CASE r + 1 = C
    <2>1. (r + 1) % C = 0
      BY <1>1, <1>2, <1>4, Remainder
    <2>2. (n + 1) % C = 0
      BY <1>1, <1>2, <1>4, Remainder
    <2> QED BY <2>1, <2>2 DEF r
  <1> QED BY <1>1, <1>3, <1>4

LEMMA PlacesApart ==
  ASSUME NEW m \in Nat, NEW n \in Nat, NEW C \in Nat, C > 0, m < n, n < m + C
  PROVE  m % C # n % C
  <1> DEFINE a == m \div C
             b == n \div C
  <1>1. a \in Int /\ m % C \in 0..(C - 1) /\ m = C * a + (m % C)
    BY Division
  <1>2. b \in Int /\ n % C \in 0..(C - 1) /\ n = C * b + (n % C)
    BY Division
  <1> HIDE DEF a, b
  <1>3. SUFFICES ASSUME m % C = n % C PROVE FALSE
    OBVIOUS
  <1>4. C * a \in Int /\ C * b \in Int
    BY <1>1, <1>2, Times
  <1>5. a = b
    BY <1>1, <1>2, <1>3, <1>4, MultipleApart
  <1> QED BY <1>1, <1>2, <1>3, <1>5

LEMMA BufferStored ==
  ASSUME NEW x \in Pipe, NEW T, NEW o \in Seq(T), NEW U, NEW i \in Seq(U), NEW c,
         Buffered(x, o, i), Len(i) <= Len(o), Len(o) - Len(i) < Capacity
  PROVE  Buffered(Stored(x, c), Append(o, c), i)
  <1> DEFINE n == Len(o)
             m == Len(i)
             o2 == Append(o, c)
             x2 == Stored(x, c)
  <1>1. n \in Nat /\ m \in Nat /\ m <= n /\ n < m + Capacity
    BY CapacityFacts
  <1>2. Len(o2) = n + 1 /\ o2[n + 1] = c /\ \A k \in 1..n : o2[k] = o[k]
    OBVIOUS
  <1>3. /\ x2.buffer = [x.buffer EXCEPT ![n % Capacity] = c]
        /\ x2.writeIndex = ((n % Capacity) + 1) % Capacity
        /\ x2.readIndex = m % Capacity
    BY DEF Stored, Pipe, Buffered
  <1>4. x.buffer \in [0..(Capacity - 1) -> Byte \cup {None, Eof}] /\ n % Capacity \in 0..(Capacity - 1)
    BY <1>1, CapacityFacts DEF Pipe
  <1>5. \A k \in (m + 1)..n : x.buffer[(k - 1) % Capacity] = o[k]
    BY DEF Buffered
  <1> HIDE DEF n, m, o2, x2
  <1>6. x2.writeIndex = (n + 1) % Capacity
    BY <1>1, <1>3, CapacityFacts, NextPlace
  <1>7. x2.buffer[n % Capacity] = c
    BY <1>3, <1>4
  <1>8. ASSUME NEW k \in (m + 1)..n
        PROVE  x2.buffer[(k - 1) % Capacity] = o2[k]
    <2>1. k - 1 \in Nat /\ k - 1 < n /\ n < (k - 1) + Capacity /\ k \in 1..n
      BY <1>1, CapacityFacts
    <2>2. (k - 1) % Capacity # n % Capacity /\ (k - 1) % Capacity \in 0..(Capacity - 1)
      BY <1>1, <2>1, PlacesApart, CapacityFacts
    <2>3. x2.buffer[(k - 1) % Capacity] = x.buffer[(k - 1) % Capacity]
      BY <1>3, <1>4, <2>2
    <2> QED BY <1>2, <1>5, <2>1, <2>3
  <1>9. ASSUME NEW k \in (m + 1)..(n + 1)
        PROVE  x2.buffer[(k - 1) % Capacity] = o2[k]
    <2>1. k \in (m + 1)..n \/ k = n + 1
      BY <1>1
    <2>2. (n + 1) - 1 = n
      BY <1>1
    <2> QED BY <1>2, <1>7, <1>8, <2>1, <2>2
  <1> QED BY <1>2, <1>3, <1>6, <1>9 DEF Buffered, n, m, o2, x2

LEMMA BufferFetched ==
  ASSUME NEW x \in Pipe, NEW T, NEW o \in Seq(T), NEW U, NEW i \in Seq(U), NEW b,
         Buffered(x, o, i), Len(i) < Len(o)
  PROVE  /\ x.buffer[x.readIndex] = o[Len(i) + 1]
         /\ Buffered(Fetched(x), o, Append(i, b))
  <1> DEFINE n == Len(o)
             m == Len(i)
             i2 == Append(i, b)
             x2 == Fetched(x)
  <1>1. n \in Nat /\ m \in Nat /\ m < n
    OBVIOUS
  <1>2. Len(i2) = m + 1
    OBVIOUS
  <1>3. /\ x2.buffer = x.buffer /\ x2.writeIndex = n % Capacity
        /\ x2.readIndex = ((m % Capacity) + 1) % Capacity /\ x.readIndex = m % Capacity
    BY DEF Fetched, Pipe, Buffered
  <1>4. \A k \in (m + 1)..n : x.buffer[(k - 1) % Capacity] = o[k]
    BY DEF Buffered
  <1> HIDE DEF n, m, i2, x2
  <1>5. x2.readIndex = (m + 1) % Capacity
    BY <1>1, <1>3, CapacityFacts, NextPlace
  <1>6. x.buffer[x.readIndex] = o[m + 1]
    <2>1. m + 1 \in (m + 1)..n /\ (m + 1) - 1 = m
      BY <1>1
    <2> QED BY <1>3, <1>4, <2>1
  <1>7. \A k \in ((m + 1) + 1)..n : k \in (m + 1)..n
    BY <1>1
  <1> QED BY <1>2, <1>3, <1>4, <1>5, <1>6, <1>7 DEF Buffered, n, m, i2, x2

-----------------------------------------------------------------------------
(* What semPost, semWait and the rest of a call do to a side of a pipe.     *)

LEMMA SideFacts ==
  ASSUME NEW s \in Semaphore(Program), NEW p, NEW c, NEW st, NEW d \in Int, Side(s, p, c, st, d)
  PROVE  /\ d >= 0 /\ d >= s.value
         /\ s.value > 0 => s.waiters = <<>>
         /\ st = "READY" => s.waiters = <<>>
         /\ st = "READY" /\ c # None => d = s.value + 1
  <1>1. s.value \in Nat /\ d - s.value \in {0, 1}
    BY DEF Side, Units, Semaphore
  <1>2. /\ s.value > 0 => s.waiters = <<>>
        /\ st = "READY" => s.waiters = <<>>
    BY DEF Side
  <1>3. st = "READY" /\ c # None => d - s.value = 1
    BY <1>2 DEF Side, Units, Awake
  <1> QED BY <1>1, <1>2, <1>3

LEMMA PostSide ==
  ASSUME NEW s \in Semaphore(Program), NEW p \in Program, NEW c, NEW d \in Int,
         Side(s, p, c, state[p], d)
  PROVE  /\ Resumed(s) \subseteq {p}
         /\ Side(Post(s), p, c, IF p \in Resumed(s) THEN "READY" ELSE state[p], d + 1)
         /\ s.value > 0 => Post(s).value > 0
  <1>1. s.value \in Nat /\ s = [value |-> s.value, waiters |-> s.waiters]
    BY DEF Semaphore
  <1>2. CASE s.waiters = <<>>
    <2>1. Handover(s) = {}
      BY <1>2 DEF Handover
    <2>2. Resumed(s) = {} /\ Post(s) = [value |-> s.value + 1, waiters |-> <<>>]
      BY <2>1 DEF Resumed, Post
    <2>3. (d + 1) - (s.value + 1) = d - s.value
      BY <1>1
    <2>4. (d + 1) - (s.value + 1) \in Units(Post(s), p, c, state[p])
      BY <1>2, <2>2, <2>3 DEF Side, Units
    <2>5. state[p] # "BLOCKED"
      BY <1>2 DEF Side
    <2> QED BY <1>1, <2>2, <2>4, <2>5 DEF Side
  <1>3. CASE s.waiters = <<p>> /\ state[p] \in Awake
    <2>1. c # None /\ s.value = 0 /\ d = 0
      BY <1>1, <1>3 DEF Side, Units
    <2>2. Handover(s) = {1}
      BY <1>3 DEF Handover, Awake
    <2>3. First(Handover(s)) = 1
      BY <2>2, FirstPlace
    <2>4. Resumed(s) = {p} /\ Post(s) = [value |-> s.value, waiters |-> SubSeq(s.waiters, 2, 1)]
      BY <1>1, <1>3, <2>2, <2>3 DEF Resumed, Post
    <2>5. SubSeq(s.waiters, 2, 1) = <<>>
      BY <1>3
    <2>6. (d + 1) - 0 \in Units(Post(s), p, c, "READY")
      BY <2>1, <2>4, <2>5 DEF Units, Awake
    <2> QED BY <2>1, <2>4, <2>5, <2>6 DEF Side
  <1>4. CASE s.waiters = <<p>> /\ state[p] \notin Awake
    <2>1. c # None /\ s.value = 0 /\ d = 0
      BY <1>1, <1>4 DEF Side, Units
    <2>2. Handover(s) = {}
      BY <1>4 DEF Handover, Awake
    <2>3. Resumed(s) = {} /\ Post(s) = [value |-> s.value + 1, waiters |-> <<>>]
      BY <2>2 DEF Resumed, Post
    <2>4. (d + 1) - (s.value + 1) \in Units(Post(s), p, c, state[p])
      BY <1>4, <2>1, <2>3 DEF Units
    <2> QED BY <1>1, <1>4, <2>1, <2>3, <2>4 DEF Side, Awake
  <1> QED BY <1>2, <1>3, <1>4 DEF Side

LEMMA TakeSide ==
  ASSUME NEW s \in Semaphore(Program), NEW p, NEW c, NEW st, NEW d \in Int,
         Side(s, p, c, st, d), s.value > 0
  PROVE  Side(Taken(s), p, c, st, d - 1)
  <1>1. s.value \in Nat /\ s.waiters = <<>>
    BY SideFacts DEF Semaphore
  <1>2. Taken(s) = [value |-> s.value - 1, waiters |-> <<>>]
    BY <1>1 DEF Taken, Semaphore
  <1>3. (d - 1) - (s.value - 1) = d - s.value
    BY <1>1
  <1> QED BY <1>1, <1>2, <1>3 DEF Side, Units

LEMMA WaitSide ==
  ASSUME NEW s \in Semaphore(Program), NEW p \in Program, NEW c, c # None, NEW d \in Int,
         Side(s, p, None, "READY", d), s.value = 0
  PROVE  Side(Enlisted(s, p), p, c, "BLOCKED", d)
  <1>1. s.waiters = <<>> /\ d = 0
    BY SideFacts DEF Side, Units
  <1>2. Enlisted(s, p) = [value |-> 0, waiters |-> <<p>>]
    BY <1>1 DEF Enlisted, Semaphore
  <1> QED BY <1>1, <1>2 DEF Side, Units

LEMMA ReturnSide ==
  ASSUME NEW s \in Semaphore(Program), NEW p, NEW c, c # None, NEW d \in Int,
         Side(s, p, c, "READY", d)
  PROVE  Side(s, p, None, "READY", d - 1)
  <1>1. s.waiters = <<>> /\ d = s.value + 1 /\ s.value \in Nat
    BY SideFacts DEF Semaphore
  <1> QED BY <1>1 DEF Side, Units

(* What may happen to a process beside a wake-up.                           *)
Shifts(p) ==
  \/ state'[p] = state[p]
  \/ state[p] \in Awake /\ state'[p] = "EXITED"
  \/ state[p] = "EXITED" /\ state'[p] = "TERMINATED"
  \/ state[p] = "TERMINATED" /\ state'[p] = "freed"
  \/ state[p] = "none" /\ state'[p] = "READY"

LEMMA ShiftSide ==
  ASSUME NEW s \in Semaphore(Program), NEW p \in Program, NEW c, NEW d \in Int,
         Side(s, p, c, state[p], d), state[p] = "none" => c = None, Shifts(p)
  PROVE  Side(s, p, c, state'[p], d)
  <1>1. CASE state'[p] = state[p]
    BY <1>1
  <1>2. CASE state[p] = "none" /\ state'[p] = "READY"
    <2>1. c = None /\ s.waiters # <<p>>
      BY <1>2 DEF Side
    <2> QED BY <1>2, <2>1 DEF Side, Units
  <1>3. CASE /\ state[p] \in Awake \cup {"EXITED", "TERMINATED"}
             /\ state'[p] \in {"EXITED", "TERMINATED", "freed"}
    <2>1. Units(s, p, c, state[p]) \subseteq Units(s, p, c, state'[p])
      BY <1>3 DEF Units, Awake
    <2>2. state'[p] \notin Awake
      BY <1>3 DEF Awake
    <2> QED BY <1>3, <2>1, <2>2 DEF Side, Awake
  <1> QED BY <1>1, <1>2, <1>3 DEF Shifts

-----------------------------------------------------------------------------
(* The steps.                                                               *)

LEMMA ChanSeqs ==
  ASSUME Base, NEW j \in Job, Chan(j)
  PROVE  /\ out[j] \in Seq(Byte \cup {Eof}) /\ in[j] \in Seq(Byte \cup {None, Eof})
         /\ Unread(j) = Len(out[j]) - Len(in[j])
         /\ state[Writer(j)] # "freed" => \A k \in 1..Len(out[j]) : out[j][k] # Eof
  <1>1. out[j] \in Seq(Byte \cup {Eof}) /\ in[j] \in Seq(Byte \cup {None, Eof})
    BY Typings
  <1> QED BY <1>1 DEF Chan, Unread

LEMMA ChanFacts ==
  ASSUME Base, NEW j \in Job, Chan(j)
  PROVE  /\ pipe[j] \in Pipe
         /\ pipe[j].readSem \in Semaphore(Program) /\ pipe[j].writeSem \in Semaphore(Program)
         /\ Unread(j) \in Nat /\ Unread(j) <= Capacity
         /\ pipe[j].readSem.value <= Unread(j)
         /\ pipe[j].writeSem.value <= Capacity - Unread(j)
  <1>1. pipe[j] \in Pipe
    BY Typings
  <1>2. pipe[j].readSem \in Semaphore(Program) /\ pipe[j].writeSem \in Semaphore(Program)
    BY <1>1 DEF Pipe
  <1>3. Unread(j) \in Int /\ Capacity - Unread(j) \in Int
    <2>1. Len(out[j]) \in Nat /\ Len(in[j]) \in Nat
      BY ChanSeqs
    <2> QED BY <2>1, CapacityFacts DEF Unread
  <1>4. Unread(j) >= 0 /\ Unread(j) >= pipe[j].readSem.value
    BY <1>2, <1>3, SideFacts DEF Chan
  <1>5. Capacity - Unread(j) >= 0 /\ Capacity - Unread(j) >= pipe[j].writeSem.value
    BY <1>2, <1>3, SideFacts DEF Chan
  <1>6. Unread(j) \in Nat /\ Unread(j) <= Capacity
    BY <1>3, <1>4, <1>5, CapacityFacts
  <1> QED BY <1>1, <1>2, <1>4, <1>5, <1>6

LEMMA Lengths ==
  ASSUME NEW T, NEW o \in Seq(T), NEW U, NEW i \in Seq(U)
  PROVE  /\ Len(o) - Len(i) > 0 => Len(i) < Len(o)
         /\ Len(o) - Len(i) \in Nat => Len(i) <= Len(o)
  <1>1. Len(o) \in Nat /\ Len(i) \in Nat
    OBVIOUS
  <1> QED BY <1>1

(* A pipe that the step leaves alone, but for the number of its holders.    *)
SameBuffer(x, y) == /\ x.readSem = y.readSem /\ x.writeSem = y.writeSem
                    /\ x.buffer = y.buffer
                    /\ x.readIndex = y.readIndex /\ x.writeIndex = y.writeIndex
LEMMA ChanFrame ==
  ASSUME Base, NEW j \in Job, Chan(j), SameBuffer(pipe'[j], pipe[j]),
         out'[j] = out[j], in'[j] = in[j],
         call'[Writer(j)] = call[Writer(j)], call'[Reader(j)] = call[Reader(j)],
         Shifts(Writer(j)), Shifts(Reader(j)),
         state[Writer(j)] \in Awake /\ state'[Writer(j)] = "EXITED" => pipe[j].writeSem.value > 0
  PROVE  Chan(j)'
  <1>1. /\ Writer(j) \in Program /\ Reader(j) \in Program
        /\ pipe[j].readSem \in Semaphore(Program) /\ pipe[j].writeSem \in Semaphore(Program)
        /\ Unread(j) \in Int /\ Capacity - Unread(j) \in Int
    BY Names, ChanFacts, CapacityFacts
  <1>8. Unread(j)' = Unread(j)
    BY DEF Unread
  <1>2. /\ state[Writer(j)] = "none" => call[Writer(j)] = None
        /\ state[Reader(j)] = "none" => call[Reader(j)] = None
    BY <1>1 DEF Base, Calls
  <1>3. Side(pipe[j].readSem, Reader(j), call[Reader(j)], state'[Reader(j)], Unread(j))
    BY <1>1, <1>2, ShiftSide DEF Chan
  <1>4. Side(pipe[j].writeSem, Writer(j), call[Writer(j)], state'[Writer(j)], Capacity - Unread(j))
    BY <1>1, <1>2, ShiftSide DEF Chan
  <1>5. Buffered(pipe'[j], out'[j], in'[j])
    BY DEF Chan, Buffered, SameBuffer
  <1>6. state'[Writer(j)] \in {"EXITED", "TERMINATED"} => pipe[j].writeSem.value > 0
    BY DEF Chan, Shifts
  <1>7. state[Writer(j)] = "freed" => state'[Writer(j)] = "freed"
    BY DEF Shifts, Awake
  <1> QED BY <1>1, <1>3, <1>4, <1>5, <1>6, <1>7, <1>8 DEF Chan, SameBuffer

(* The second half of writeToPipe.                                          *)
LEMMA StoreSide ==
  ASSUME Base, NEW j \in Job, Chan(j), NEW x \in Pipe,
         x.readSem = pipe[j].readSem, x.buffer = pipe[j].buffer,
         x.readIndex = pipe[j].readIndex, x.writeIndex = pipe[j].writeIndex,
         NEW c, Unread(j) < Capacity
  PROVE  /\ Resumed(x.readSem) \subseteq {Reader(j)}
         /\ Side(Stored(x, c).readSem, Reader(j), call[Reader(j)],
                 IF Reader(j) \in Resumed(x.readSem) THEN "READY" ELSE state[Reader(j)],
                 Unread(j) + 1)
         /\ Stored(x, c).writeSem = x.writeSem
         /\ Buffered(Stored(x, c), Append(out[j], c), in[j])
  <1>1. Reader(j) \in Program /\ pipe[j].readSem \in Semaphore(Program) /\ Unread(j) \in Int
    BY Names, ChanFacts
  <1>2. Stored(x, c).readSem = Post(x.readSem) /\ Stored(x, c).writeSem = x.writeSem
    BY DEF Stored, Pipe
  <1>3. Buffered(x, out[j], in[j])
    BY DEF Chan, Buffered
  <1>4. Buffered(Stored(x, c), Append(out[j], c), in[j])
    <2>1. /\ out[j] \in Seq(Byte \cup {Eof}) /\ in[j] \in Seq(Byte \cup {None, Eof})
      BY ChanSeqs
    <2>2. Unread(j) \in Nat
      BY ChanFacts
    <2>3. Len(in[j]) <= Len(out[j]) /\ Len(out[j]) - Len(in[j]) < Capacity
      BY <2>1, <2>2, Lengths DEF Unread
    <2> QED BY <1>3, <2>1, <2>3, BufferStored
  <1>5. Side(x.readSem, Reader(j), call[Reader(j)], state[Reader(j)], Unread(j))
    BY DEF Chan
  <1> QED BY <1>1, <1>2, <1>4, <1>5, PostSide

LEMMA FetchSide ==
  ASSUME Base, NEW j \in Job, Chan(j), NEW x \in Pipe,
         x.writeSem = pipe[j].writeSem, x.buffer = pipe[j].buffer,
         x.readIndex = pipe[j].readIndex, x.writeIndex = pipe[j].writeIndex,
         Unread(j) > 0
  PROVE  /\ Resumed(x.writeSem) \subseteq {Writer(j)}
         /\ Side(Fetched(x).writeSem, Writer(j), call[Writer(j)],
                 IF Writer(j) \in Resumed(x.writeSem) THEN "READY" ELSE state[Writer(j)],
                 Capacity - (Unread(j) - 1))
         /\ x.writeSem.value > 0 => Fetched(x).writeSem.value > 0
         /\ Fetched(x).readSem = x.readSem
         /\ x.buffer[x.readIndex] = out[j][Len(in[j]) + 1]
         /\ \A b : Buffered(Fetched(x), out[j], Append(in[j], b))
  <1>1. /\ Writer(j) \in Program /\ pipe[j].writeSem \in Semaphore(Program)
        /\ Unread(j) \in Int /\ Capacity - Unread(j) \in Int
        /\ Capacity - (Unread(j) - 1) = (Capacity - Unread(j)) + 1
    BY Names, ChanFacts, CapacityFacts
  <1>2. Fetched(x).writeSem = Post(x.writeSem) /\ Fetched(x).readSem = x.readSem
    BY DEF Fetched, Pipe
  <1>3. Buffered(x, out[j], in[j])
    BY DEF Chan, Buffered
  <1>4. /\ out[j] \in Seq(Byte \cup {Eof}) /\ in[j] \in Seq(Byte \cup {None, Eof})
        /\ Len(in[j]) < Len(out[j])
    <2>1. /\ out[j] \in Seq(Byte \cup {Eof}) /\ in[j] \in Seq(Byte \cup {None, Eof})
      BY ChanSeqs
    <2>2. Len(in[j]) < Len(out[j])
      BY <2>1, Lengths DEF Unread
    <2> QED BY <2>1, <2>2
  <1>5. /\ x.buffer[x.readIndex] = out[j][Len(in[j]) + 1]
        /\ \A b : Buffered(Fetched(x), out[j], Append(in[j], b))
    BY <1>3, <1>4, BufferFetched
  <1>6. Side(x.writeSem, Writer(j), call[Writer(j)], state[Writer(j)], Capacity - Unread(j))
    BY DEF Chan
  <1> DEFINE d == Capacity - Unread(j)
  <1>7. Side(x.writeSem, Writer(j), call[Writer(j)], state[Writer(j)], d) /\ d \in Int
        /\ x.writeSem \in Semaphore(Program) /\ Writer(j) \in Program
        /\ Capacity - (Unread(j) - 1) = d + 1
    BY <1>1, <1>6
  <1> HIDE DEF d
  <1>8. /\ Resumed(x.writeSem) \subseteq {Writer(j)}
        /\ Side(Post(x.writeSem), Writer(j), call[Writer(j)],
                IF Writer(j) \in Resumed(x.writeSem) THEN "READY" ELSE state[Writer(j)], d + 1)
        /\ x.writeSem.value > 0 => Post(x.writeSem).value > 0
    BY <1>7, PostSide
  <1> QED BY <1>2, <1>5, <1>7, <1>8

(* Wakes the other program of the same pipe, and nobody else.               *)
LEMMA WakesOne ==
  ASSUME Base, NEW q \in Program, NEW P \in SUBSET {q}, state' = Wake(state, P)
  PROVE  /\ state'[q] = IF q \in P THEN "READY" ELSE state[q]
         /\ \A p \in Process \ {q} : state'[p] = state[p]
  BY Names DEF Wake

LEMMA StoreChan ==
  ASSUME Base, Chans, NEW j \in Job, pipe[j].open, state[Writer(j)] = "READY", NEW x \in Pipe,
         x.readSem = pipe[j].readSem, x.buffer = pipe[j].buffer,
         x.readIndex = pipe[j].readIndex, x.writeIndex = pipe[j].writeIndex,
         Unread(j) < Capacity, NEW c \in Byte, Store(j, x, c), in' = in,
         Side(x.writeSem, Writer(j), call'[Writer(j)], "READY", (Capacity - Unread(j)) - 1),
         \A p \in Program \ {Writer(j)} : call'[p] = call[p]
  PROVE  Chans'
  <1>1. /\ pipe' = [pipe EXCEPT ![j] = Stored(x, c)]
        /\ state' = Wake(state, Resumed(x.readSem))
        /\ out' = [out EXCEPT ![j] = Append(out[j], c)]
    BY DEF Store
  <1>2. /\ Chan(j) /\ Writer(j) \in Program /\ Reader(j) \in Program /\ Writer(j) # Reader(j)
    BY Names DEF Chans
  <1>3. /\ Resumed(x.readSem) \subseteq {Reader(j)}
        /\ Side(Stored(x, c).readSem, Reader(j), call[Reader(j)],
                IF Reader(j) \in Resumed(x.readSem) THEN "READY" ELSE state[Reader(j)],
                Unread(j) + 1)
        /\ Stored(x, c).writeSem = x.writeSem
        /\ Buffered(Stored(x, c), Append(out[j], c), in[j])
    BY <1>2, StoreSide
  <1>4. /\ state'[Reader(j)] = IF Reader(j) \in Resumed(x.readSem) THEN "READY"
                               ELSE state[Reader(j)]
        /\ \A p \in Process \ {Reader(j)} : state'[p] = state[p]
    BY <1>1, <1>2, <1>3, WakesOne
  <1>5. /\ pipe'[j] = Stored(x, c) /\ out'[j] = Append(out[j], c)
        /\ \A i \in Job \ {j} : pipe'[i] = pipe[i] /\ out'[i] = out[i]
    BY <1>1, Typings
  <1>6. Unread(j)' = Unread(j) + 1
    <2>1. Len(out[j]) \in Nat /\ Len(in[j]) \in Nat /\ Len(Append(out[j], c)) = Len(out[j]) + 1
      BY <1>2, ChanSeqs
    <2> QED BY <1>5, <2>1 DEF Unread
  <1>7. Chan(j)'
    <2>1. Side(pipe'[j].readSem, Reader(j), call'[Reader(j)], state'[Reader(j)], Unread(j)')
      BY <1>2, <1>4, <1>5, <1>6, <1>3
    <2>2. state'[Writer(j)] = "READY"
      BY <1>2, <1>4, Names
    <2>3. (Capacity - Unread(j)) - 1 = Capacity - Unread(j)'
      BY <1>2, <1>6, ChanFacts, CapacityFacts
    <2>4. Side(pipe'[j].writeSem, Writer(j), call'[Writer(j)], state'[Writer(j)],
               Capacity - Unread(j)')
      BY <1>2, <1>5, <1>3, <2>2, <2>3
    <2>5. Buffered(pipe'[j], out'[j], in'[j])
      BY <1>5, <1>3
    <2>6. \A k \in 1..Len(out'[j]) : out'[j][k] # Eof
      <3>1. \A k \in 1..Len(out[j]) : out[j][k] # Eof
        BY <1>2, ChanSeqs
      <3>2. out[j] \in Seq(Byte \cup {Eof}) /\ c # Eof
        BY <1>2, ChanSeqs, ValueAssumption
      <3> QED BY <1>5, <3>1, <3>2
    <2> QED BY <2>1, <2>2, <2>4, <2>5, <2>6 DEF Chan
  <1>8. ASSUME NEW i \in Job \ {j}, pipe'[i].open PROVE Chan(i)'
    <2>1. /\ Writer(i) \in Program /\ Reader(i) \in Program /\ Writer(i) # Writer(j)
          /\ Reader(i) # Writer(j) /\ Writer(i) # Reader(j) /\ Reader(i) # Reader(j)
      BY Names
    <2>2. Chan(i)
      BY <1>5, <1>8 DEF Chans
    <2>3. state'[Writer(i)] = state[Writer(i)] /\ state'[Reader(i)] = state[Reader(i)]
      BY <1>4, <2>1, Names
    <2>4. Shifts(Writer(i)) /\ Shifts(Reader(i)) /\ SameBuffer(pipe'[i], pipe[i])
      BY <1>5, <2>3 DEF Shifts, SameBuffer
    <2> QED BY <1>5, <2>1, <2>2, <2>3, <2>4, ChanFrame DEF Awake
  <1> QED BY <1>7, <1>8 DEF Chans

(* The second half of pipeRead: what is fetched is the next byte written.   *)
LEMMA FetchChan ==
  ASSUME Base, Chans, NEW j \in Job, pipe[j].open, state[Reader(j)] = "READY", NEW x \in Pipe,
         x.writeSem = pipe[j].writeSem, x.buffer = pipe[j].buffer,
         x.readIndex = pipe[j].readIndex, x.writeIndex = pipe[j].writeIndex,
         Unread(j) > 0, Fetch(j, x), out' = out,
         Side(x.readSem, Reader(j), call'[Reader(j)], "READY", Unread(j) - 1),
         \A p \in Program \ {Reader(j)} : call'[p] = call[p]
  PROVE  /\ Chans'
         /\ in' = [in EXCEPT ![j] = Append(in[j], out[j][Len(in[j]) + 1])]
  <1> DEFINE b == x.buffer[x.readIndex]
  <1>1. /\ pipe' = [pipe EXCEPT ![j] = Fetched(x)]
        /\ state' = Wake(state, Resumed(x.writeSem))
        /\ in' = [in EXCEPT ![j] = Append(in[j], b)]
    BY DEF Fetch
  <1>2. /\ Chan(j) /\ Writer(j) \in Program /\ Reader(j) \in Program /\ Writer(j) # Reader(j)
    BY Names DEF Chans
  <1>3. /\ state'[Writer(j)] = IF Writer(j) \in Resumed(x.writeSem) THEN "READY"
                               ELSE state[Writer(j)]
        /\ \A p \in Process \ {Writer(j)} : state'[p] = state[p]
    BY <1>1, <1>2, FetchSide, WakesOne
  <1>4. /\ pipe'[j] = Fetched(x) /\ in'[j] = Append(in[j], b)
        /\ \A i \in Job \ {j} : pipe'[i] = pipe[i] /\ in'[i] = in[i]
    BY <1>1, Typings
  <1>5. /\ Resumed(x.writeSem) \subseteq {Writer(j)}
        /\ Side(Fetched(x).writeSem, Writer(j), call[Writer(j)],
                IF Writer(j) \in Resumed(x.writeSem) THEN "READY" ELSE state[Writer(j)],
                Capacity - (Unread(j) - 1))
        /\ x.writeSem.value > 0 => Fetched(x).writeSem.value > 0
        /\ Fetched(x).readSem = x.readSem
        /\ b = out[j][Len(in[j]) + 1]
        /\ Buffered(Fetched(x), out[j], Append(in[j], b))
    <2>1. b = out[j][Len(in[j]) + 1]
      BY <1>2, FetchSide
    <2> HIDE DEF b
    <2> QED BY <1>2, <2>1, FetchSide
  <1> HIDE DEF b
  <1>6. Unread(j)' = Unread(j) - 1
    <2>1. Len(out[j]) \in Nat /\ Len(in[j]) \in Nat /\ Len(Append(in[j], b)) = Len(in[j]) + 1
      BY <1>2, ChanSeqs
    <2> QED BY <1>4, <2>1 DEF Unread
  <1>7. Chan(j)'
    <2>1. state'[Reader(j)] = "READY"
      BY <1>2, <1>3, Names
    <2>2. Side(pipe'[j].readSem, Reader(j), call'[Reader(j)], state'[Reader(j)], Unread(j)')
      BY <1>4, <1>5, <1>6, <2>1
    <2>3. Side(pipe'[j].writeSem, Writer(j), call'[Writer(j)], state'[Writer(j)],
               Capacity - Unread(j)')
      BY <1>2, <1>3, <1>4, <1>5, <1>6
    <2>4. Buffered(pipe'[j], out'[j], in'[j])
      BY <1>4, <1>5
    <2>5. state'[Writer(j)] \in {"EXITED", "TERMINATED"} => pipe'[j].writeSem.value > 0
      <3>1. state'[Writer(j)] \in {"EXITED", "TERMINATED"} => x.writeSem.value > 0
        BY <1>2, <1>3 DEF Chan
      <3> QED BY <1>4, <1>5, <3>1
    <2>6. \A k \in 1..Len(out'[j]) : out'[j][k] = Eof => state'[Writer(j)] = "freed"
      <3>1. state[Writer(j)] = "freed" => state'[Writer(j)] = "freed"
        <4>1. Resumed(x.writeSem) \subseteq {Writer(j)} /\ x.writeSem \in Semaphore(Program)
          BY <1>5 DEF Pipe
        <4>2. Writer(j) \in Resumed(x.writeSem) => state[Writer(j)] \in Awake
          BY <4>1, SemaphoreTypes
        <4> QED BY <1>3, <4>2 DEF Awake
      <3> QED BY <1>2, <3>1 DEF Chan
    <2> QED BY <2>2, <2>3, <2>4, <2>5, <2>6 DEF Chan
  <1>8. ASSUME NEW i \in Job \ {j}, pipe'[i].open PROVE Chan(i)'
    <2>1. /\ Writer(i) \in Program /\ Reader(i) \in Program /\ Writer(i) # Writer(j)
          /\ Reader(i) # Writer(j) /\ Writer(i) # Reader(j) /\ Reader(i) # Reader(j)
      BY Names
    <2>2. Chan(i)
      BY <1>4, <1>8 DEF Chans
    <2>3. state'[Writer(i)] = state[Writer(i)] /\ state'[Reader(i)] = state[Reader(i)]
      BY <1>3, <2>1, Names
    <2>4. Shifts(Writer(i)) /\ Shifts(Reader(i)) /\ SameBuffer(pipe'[i], pipe[i])
      BY <1>4, <2>3 DEF Shifts, SameBuffer
    <2> QED BY <1>4, <2>1, <2>2, <2>3, <2>4, ChanFrame DEF Awake
  <1> QED BY <1>1, <1>5, <1>7, <1>8 DEF Chans

(* A process of the pipe j goes to sleep, and another pipe is as before.    *)
LEMMA BlockFrame ==
  ASSUME Base, Chans, NEW j \in Job, NEW p \in {Writer(j), Reader(j)}, state[p] = "READY",
         NEW y, pipe' = [pipe EXCEPT ![j] = y], Block(p), NEW c, call' = [call EXCEPT ![p] = c],
         UNCHANGED <<out, in>>, NEW i \in Job \ {j}, pipe'[i].open
  PROVE  Chan(i)'
  <1>1. /\ Writer(i) \in Program /\ Reader(i) \in Program /\ Writer(i) # p /\ Reader(i) # p
        /\ p \in Process
    BY Names
  <1>2. /\ state'[Writer(i)] = state[Writer(i)] /\ state'[Reader(i)] = state[Reader(i)]
        /\ call'[Writer(i)] = call[Writer(i)] /\ call'[Reader(i)] = call[Reader(i)]
        /\ pipe'[i] = pipe[i]
    BY <1>1, Typings, Names, BlockFacts
  <1>3. Chan(i)
    BY <1>2 DEF Chans
  <1>4. Shifts(Writer(i)) /\ Shifts(Reader(i)) /\ SameBuffer(pipe'[i], pipe[i])
    BY <1>2 DEF Shifts, SameBuffer
  <1> QED BY <1>2, <1>3, <1>4, ChanFrame DEF Awake

LEMMA PutChan ==
  ASSUME Base, Chans, NEW j \in Job, NEW c \in Byte, Put(j, c)
  PROVE  /\ Chans' /\ in' = in
         /\ out' = out \/ (/\ Chan(j) /\ Unread(j) < Capacity /\ state[Writer(j)] = "READY"
                          /\ out' = [out EXCEPT ![j] = Append(out[j], c)])
  <1>1. /\ Writer(j) \in Program /\ Reader(j) \in Program /\ Writer(j) # Reader(j)
        /\ running = Writer(j) /\ state[Writer(j)] = "READY" /\ call[Writer(j)] = None
        /\ Writer(j) \in Process
    BY Names, RunningFacts DEF Put, InUser, InKernel
  <1>2. pipe[j].open /\ Chan(j) /\ in' = in
    BY <1>1, Holding DEF Holds, Chans, Put
  <1>3. /\ pipe[j] \in Pipe /\ pipe[j].writeSem \in Semaphore(Program) /\ Unread(j) \in Nat
        /\ pipe[j].writeSem.value \in Nat /\ Capacity - Unread(j) \in Int
        /\ pipe[j].writeSem.value <= Capacity - Unread(j)
        /\ Side(pipe[j].writeSem, Writer(j), None, "READY", Capacity - Unread(j))
    <2>1. /\ pipe[j] \in Pipe /\ pipe[j].writeSem \in Semaphore(Program) /\ Unread(j) \in Nat
          /\ pipe[j].writeSem.value <= Capacity - Unread(j)
      BY <1>2, ChanFacts
    <2>2. pipe[j].writeSem.value \in Nat /\ Capacity - Unread(j) \in Int
      BY <2>1, CapacityFacts DEF Semaphore
    <2>3. Side(pipe[j].writeSem, Writer(j), None, "READY", Capacity - Unread(j))
      BY <1>1, <1>2 DEF Chan
    <2> QED BY <2>1, <2>2, <2>3
  <1>4. CASE pipe[j].writeSem.value > 0
    <2> DEFINE x == [pipe[j] EXCEPT !.writeSem = Taken(pipe[j].writeSem)]
    <2>1. Store(j, x, c) /\ call' = call
      BY <1>4 DEF Put
    <2>2. /\ x \in Pipe /\ x.readSem = pipe[j].readSem /\ x.buffer = pipe[j].buffer
          /\ x.readIndex = pipe[j].readIndex /\ x.writeIndex = pipe[j].writeIndex
          /\ x.writeSem = Taken(pipe[j].writeSem)
      BY <1>3, <1>4, PipeSemTypes DEF Pipe
    <2> HIDE DEF x
    <2>3. Side(x.writeSem, Writer(j), call'[Writer(j)], "READY", (Capacity - Unread(j)) - 1)
      BY <1>1, <1>3, <1>4, <2>1, <2>2, TakeSide
    <2>4. Unread(j) < Capacity
      BY <1>3, <1>4, CapacityFacts
    <2>5. out' = [out EXCEPT ![j] = Append(out[j], c)]
      BY <2>1 DEF Store
    <2> QED BY <1>1, <1>2, <2>1, <2>2, <2>3, <2>4, <2>5, StoreChan
  <1>5. CASE pipe[j].writeSem.value = 0
    <2> DEFINE y == [pipe[j] EXCEPT !.writeSem = Enlisted(pipe[j].writeSem, Writer(j))]
    <2>1. /\ pipe' = [pipe EXCEPT ![j] = y] /\ Block(Writer(j))
          /\ call' = [call EXCEPT ![Writer(j)] = c] /\ UNCHANGED <<out, in>>
      BY <1>2, <1>5 DEF Put
    <2>2. /\ y.readSem = pipe[j].readSem /\ y.buffer = pipe[j].buffer
          /\ y.readIndex = pipe[j].readIndex /\ y.writeIndex = pipe[j].writeIndex
          /\ y.writeSem = Enlisted(pipe[j].writeSem, Writer(j))
      BY <1>3 DEF Pipe
    <2> HIDE DEF y
    <2>3. /\ pipe'[j] = y /\ state'[Writer(j)] = "BLOCKED" /\ state'[Reader(j)] = state[Reader(j)]
          /\ call'[Writer(j)] = c /\ call'[Reader(j)] = call[Reader(j)]
      BY <1>1, <2>1, BlockFacts, Typings, Names
    <2>4. Unread(j)' = Unread(j) /\ c # None
      BY <2>1, ValueAssumption DEF Unread
    <2>5. Side(y.writeSem, Writer(j), c, "BLOCKED", Capacity - Unread(j))
      BY <1>1, <1>3, <1>5, <2>2, <2>4, WaitSide
    <2>6. Buffered(y, out[j], in[j])
      BY <1>2, <2>2 DEF Chan, Buffered
    <2>7. \A k \in 1..Len(out[j]) : out[j][k] # Eof
      BY <1>1, <1>2, ChanSeqs
    <2>8. Chan(j)'
      BY <1>2, <2>1, <2>2, <2>3, <2>4, <2>5, <2>6, <2>7 DEF Chan
    <2>9. \A i \in Job \ {j} : pipe'[i].open => Chan(i)'
      BY <1>1, <2>1, BlockFrame
    <2> QED BY <2>1, <2>8, <2>9 DEF Chans
  <1> QED BY <1>4, <1>5 DEF Put

LEMMA PutReturnsChan ==
  ASSUME Base, Chans, NEW j \in Job, PutReturns(j)
  PROVE  /\ Chans' /\ in' = in
         /\ Chan(j) /\ Unread(j) < Capacity /\ state[Writer(j)] = "READY"
         /\ call[Writer(j)] \in Byte /\ out' = [out EXCEPT ![j] = Append(out[j], call[Writer(j)])]
  <1>1. /\ Writer(j) \in Program /\ running = Writer(j) /\ Writer(j) \in Process
        /\ state[Writer(j)] = "READY" /\ call[Writer(j)] \in Byte /\ call[Writer(j)] # None
    BY Names, RunningFacts DEF PutReturns, Base, Calls
  <1>2. pipe[j].open /\ Chan(j)
    BY <1>1, Holding DEF Holds, Chans
  <1>3. /\ in' = in /\ Store(j, pipe[j], call[Writer(j)])
        /\ call' = [call EXCEPT ![Writer(j)] = None]
    BY DEF PutReturns
  <1>4. /\ pipe[j] \in Pipe /\ pipe[j].writeSem \in Semaphore(Program) /\ Unread(j) \in Nat
        /\ pipe[j].writeSem.value \in Nat /\ Capacity - Unread(j) \in Int
        /\ Side(pipe[j].writeSem, Writer(j), call[Writer(j)], "READY", Capacity - Unread(j))
    BY <1>1, <1>2, ChanFacts, CapacityFacts DEF Chan, Semaphore
  <1>5. /\ call'[Writer(j)] = None /\ \A p \in Program \ {Writer(j)} : call'[p] = call[p]
    BY <1>1, <1>3, Typings
  <1>6. Side(pipe[j].writeSem, Writer(j), call'[Writer(j)], "READY", (Capacity - Unread(j)) - 1)
    BY <1>1, <1>4, <1>5, ReturnSide
  <1>7. Unread(j) < Capacity
    <2>1. Capacity - Unread(j) = pipe[j].writeSem.value + 1
      BY <1>1, <1>4, SideFacts
    <2> QED BY <1>4, <2>1, CapacityFacts
  <1>8. out' = [out EXCEPT ![j] = Append(out[j], call[Writer(j)])]
    BY <1>3 DEF Store
  <1> QED BY <1>1, <1>2, <1>3, <1>4, <1>5, <1>6, <1>7, <1>8, StoreChan

LEMMA GetChan ==
  ASSUME Base, Chans, NEW j \in Job, Get(j)
  PROVE  /\ Chans'
         /\ in' = in \/ (/\ pipe[j].open /\ Chan(j) /\ Unread(j) > 0
                         /\ in' = [in EXCEPT ![j] = Append(in[j], out[j][Len(in[j]) + 1])])
  <1>1. /\ Writer(j) \in Program /\ Reader(j) \in Program /\ Writer(j) # Reader(j)
        /\ running = Reader(j) /\ state[Reader(j)] = "READY" /\ call[Reader(j)] = None
        /\ Reader(j) \in Process
    BY Names, RunningFacts DEF Get, InUser, InKernel
  <1>2. pipe[j].open /\ Chan(j) /\ out' = out
    BY <1>1, Holding DEF Holds, Chans, Get
  <1>3. /\ pipe[j] \in Pipe /\ pipe[j].readSem \in Semaphore(Program) /\ Unread(j) \in Nat
        /\ pipe[j].readSem.value \in Nat /\ pipe[j].readSem.value <= Unread(j)
        /\ Side(pipe[j].readSem, Reader(j), None, "READY", Unread(j))
    <2>1. /\ pipe[j] \in Pipe /\ pipe[j].readSem \in Semaphore(Program) /\ Unread(j) \in Nat
          /\ pipe[j].readSem.value <= Unread(j)
      BY <1>2, ChanFacts
    <2>2. pipe[j].readSem.value \in Nat
      BY <2>1 DEF Semaphore
    <2>3. Side(pipe[j].readSem, Reader(j), None, "READY", Unread(j))
      BY <1>1, <1>2 DEF Chan
    <2> QED BY <2>1, <2>2, <2>3
  <1>4. CASE pipe[j].readSem.value > 0
    <2> DEFINE x == [pipe[j] EXCEPT !.readSem = Taken(pipe[j].readSem)]
    <2>1. Fetch(j, x) /\ call' = call
      BY <1>4 DEF Get
    <2>2. /\ x \in Pipe /\ x.writeSem = pipe[j].writeSem /\ x.buffer = pipe[j].buffer
          /\ x.readIndex = pipe[j].readIndex /\ x.writeIndex = pipe[j].writeIndex
          /\ x.readSem = Taken(pipe[j].readSem)
      BY <1>3, <1>4, PipeSemTypes DEF Pipe
    <2> HIDE DEF x
    <2>3. Side(x.readSem, Reader(j), call'[Reader(j)], "READY", Unread(j) - 1)
      BY <1>1, <1>3, <1>4, <2>1, <2>2, TakeSide
    <2>4. Unread(j) > 0
      BY <1>3, <1>4
    <2> QED BY <1>1, <1>2, <2>1, <2>2, <2>3, <2>4, FetchChan
  <1>5. CASE pipe[j].readSem.value = 0
    <2> DEFINE y == [pipe[j] EXCEPT !.readSem = Enlisted(pipe[j].readSem, Reader(j))]
    <2>1. /\ pipe' = [pipe EXCEPT ![j] = y] /\ Block(Reader(j))
          /\ call' = [call EXCEPT ![Reader(j)] = "get"] /\ UNCHANGED <<out, in>>
      BY <1>2, <1>5 DEF Get
    <2>2. /\ y.writeSem = pipe[j].writeSem /\ y.buffer = pipe[j].buffer
          /\ y.readIndex = pipe[j].readIndex /\ y.writeIndex = pipe[j].writeIndex
          /\ y.readSem = Enlisted(pipe[j].readSem, Reader(j))
      BY <1>3 DEF Pipe
    <2> HIDE DEF y
    <2>3. /\ pipe'[j] = y /\ state'[Reader(j)] = "BLOCKED" /\ state'[Writer(j)] = state[Writer(j)]
          /\ call'[Reader(j)] = "get" /\ call'[Writer(j)] = call[Writer(j)]
      BY <1>1, <2>1, BlockFacts, Typings, Names
    <2>4. Unread(j)' = Unread(j) /\ "get" # None
      BY <2>1 DEF Unread, None
    <2>5. Side(y.readSem, Reader(j), "get", "BLOCKED", Unread(j))
      BY <1>1, <1>3, <1>5, <2>2, <2>4, WaitSide
    <2>6. Buffered(y, out[j], in[j])
      BY <1>2, <2>2 DEF Chan, Buffered
    <2>7. Chan(j)'
      BY <1>2, <2>1, <2>2, <2>3, <2>4, <2>5, <2>6 DEF Chan
    <2>8. \A i \in Job \ {j} : pipe'[i].open => Chan(i)'
      BY <1>1, <2>1, BlockFrame
    <2> QED BY <2>1, <2>7, <2>8 DEF Chans
  <1> QED BY <1>4, <1>5 DEF Get

LEMMA GetReturnsChan ==
  ASSUME Base, Chans, NEW j \in Job, GetReturns(j)
  PROVE  /\ Chans' /\ pipe[j].open /\ Chan(j) /\ Unread(j) > 0
         /\ in' = [in EXCEPT ![j] = Append(in[j], out[j][Len(in[j]) + 1])]
  <1>1. /\ Reader(j) \in Program /\ running = Reader(j) /\ Reader(j) \in Process
        /\ state[Reader(j)] = "READY" /\ call[Reader(j)] # None
    BY Names, RunningFacts DEF GetReturns
  <1>2. pipe[j].open /\ Chan(j)
    BY <1>1, Holding DEF Holds, Chans
  <1>3. /\ out' = out /\ Fetch(j, pipe[j])
        /\ call' = [call EXCEPT ![Reader(j)] = None]
    BY DEF GetReturns
  <1>4. /\ pipe[j] \in Pipe /\ pipe[j].readSem \in Semaphore(Program) /\ Unread(j) \in Nat
    BY <1>2, ChanFacts
  <1>5. Side(pipe[j].readSem, Reader(j), call[Reader(j)], "READY", Unread(j))
    BY <1>1, <1>2 DEF Chan
  <1>6. /\ call'[Reader(j)] = None /\ \A p \in Program \ {Reader(j)} : call'[p] = call[p]
    BY <1>1, <1>3, Typings
  <1>7. Side(pipe[j].readSem, Reader(j), call'[Reader(j)], "READY", Unread(j) - 1)
    BY <1>1, <1>4, <1>5, <1>6, ReturnSide
  <1>8. Unread(j) > 0
    <2>1. Unread(j) = pipe[j].readSem.value + 1 /\ pipe[j].readSem.value \in Nat
      BY <1>1, <1>4, <1>5, SideFacts DEF Semaphore
    <2> QED BY <2>1
  <1> QED BY <1>1, <1>2, <1>3, <1>4, <1>6, <1>7, <1>8, FetchChan

(* A step that stores and fetches nothing.                                  *)
LEMMA QuietChan ==
  ASSUME Base, Chans, UNCHANGED <<call, out, in>>, \A p \in Program : Shifts(p),
         \A j \in Job : pipe'[j].open => pipe[j].open /\ SameBuffer(pipe'[j], pipe[j]),
         \A j \in Job : state[Writer(j)] \in Awake /\ state'[Writer(j)] = "EXITED"
                          => pipe[j].writeSem.value > 0
  PROVE  Chans'
  <1> SUFFICES ASSUME NEW j \in Job, pipe'[j].open PROVE Chan(j)'
    BY DEF Chans
  <1>1. Chan(j) /\ SameBuffer(pipe'[j], pipe[j])
    BY DEF Chans
  <1>2. Shifts(Writer(j)) /\ Shifts(Reader(j))
    BY Names
  <1> QED BY <1>1, <1>2, ChanFrame

(* A program is killed, or returns: a writer leaves room for its Eof.       *)
LEMMA DiesChan ==
  ASSUME Base, Chans, "full" \notin Faults, NEW p \in Program, state[p] \in Awake, Fits(p),
         state' = Died(p), UNCHANGED <<pipe, call, out, in>>
  PROVE  Chans'
  <1>1. \A q \in Program : Shifts(q)
    BY DiedFacts DEF Shifts
  <1>2. \A j \in Job : state[Writer(j)] \in Awake /\ state'[Writer(j)] = "EXITED"
                        => pipe[j].writeSem.value > 0
    <2> SUFFICES ASSUME NEW j \in Job, state[Writer(j)] \in Awake, state'[Writer(j)] = "EXITED"
                 PROVE  pipe[j].writeSem.value > 0
      OBVIOUS
    <2>1. p = Writer(j)
      BY DiedFacts, Names DEF Awake
    <2> QED BY <2>1, Names DEF Fits
  <1>3. \A j \in Job : pipe'[j].open => pipe[j].open /\ SameBuffer(pipe'[j], pipe[j])
    BY DEF SameBuffer
  <1> QED BY <1>1, <1>2, <1>3, QuietChan

LEMMA EndsChan ==
  ASSUME Base, Chans, "full" \notin Faults, NEW p \in Program, Exit(p) \/ CtrlC(p)
  PROVE  Chans'
  <1>1. state[p] \in Awake
    BY Names, RunningFacts DEF Exit, CtrlC, InUser, Awake
  <1> QED BY <1>1, DiesChan DEF Exit, CtrlC

LEMMA ScheduleChan ==
  ASSUME Base, Chans, \/ Tick
                      \/ \E p \in Process : Dispatch(p)
                      \/ \E p \in Program : InitReaps(p)
                      \/ UNCHANGED vars
  PROVE  Chans'
  <1>1. UNCHANGED <<pipe, call, out, in>>
    BY DEF Tick, Dispatch, InitReaps, vars
  <1>2. \A q \in Program : Shifts(q) /\ (state'[q] = "EXITED" => state[q] = "EXITED")
    <2>1. CASE \E p \in Program : InitReaps(p)
      BY <2>1, Typings, Names DEF InitReaps, Shifts
    <2>2. CASE state' = state
      BY <2>2 DEF Shifts
    <2> QED BY <2>1, <2>2 DEF Tick, Dispatch, vars
  <1>3. \A j \in Job : pipe'[j].open => pipe[j].open /\ SameBuffer(pipe'[j], pipe[j])
    BY <1>1 DEF SameBuffer
  <1>4. \A j \in Job : ~(state[Writer(j)] \in Awake /\ state'[Writer(j)] = "EXITED")
    BY <1>2, Names DEF Awake
  <1> QED BY <1>1, <1>2, <1>3, <1>4, QuietChan

LEMMA ClosedBuffer ==
  ASSUME NEW x \in Pipe, Closed(x).open
  PROVE  x.open /\ SameBuffer(Closed(x), x)
  <1>1. Closed(x) = [x EXCEPT !.total = x.total - 1]
    BY PipeTypes DEF Closed
  <1> QED BY <1>1 DEF Pipe, SameBuffer

LEMMA ShellKillsWriterChan ==
  ASSUME Base, Chans, "full" \notin Faults, ShellKillsWriter
  PROVE  Chans'
  <1>1. /\ running = Shell /\ shell.at = "kill1" /\ Fits(Writer(shell.job))
        /\ UNCHANGED <<pipe, call, out, in>>
        /\ state' = IF state[Writer(shell.job)] \in Awake THEN Died(Writer(shell.job)) ELSE state
    BY DEF ShellKillsWriter, ShellAt, Awake
  <1>2. PICK j \in Job : j = shell.job
    BY <1>1, ShellFacts
  <1>3. CASE state[Writer(j)] \in Awake
    BY <1>1, <1>2, <1>3, Names, DiesChan
  <1>4. CASE state' = state
    <2>1. \A q \in Program : Shifts(q)
      BY <1>4 DEF Shifts
    <2>2. \A i \in Job : ~(state[Writer(i)] \in Awake /\ state'[Writer(i)] = "EXITED")
      BY <1>4 DEF Awake
    <2>3. \A i \in Job : pipe'[i].open => pipe[i].open /\ SameBuffer(pipe'[i], pipe[i])
      BY <1>1 DEF SameBuffer
    <2> QED BY <1>1, <2>1, <2>2, <2>3, QuietChan
  <1> QED BY <1>1, <1>2, <1>3, <1>4

LEMMA ShellWaitsChan ==
  ASSUME Base, Chans, ShellWaits
  PROVE  Chans'
  <1>1. /\ running = Shell /\ UNCHANGED <<pipe, call, out, in>>
        /\ shell.at \in {"wait1", "waiting1", "wait2", "waiting2"}
    BY DEF ShellWaits, ShellWait, ShellWaited, ShellAt
  <1>2. PICK j \in Job : j = shell.job
    BY <1>1, ShellFacts
  <1>3. /\ Writer(j) \in Program /\ Reader(j) \in Program /\ state[Shell] = "READY"
        /\ ShellKnows(state[Writer(j)], state[Reader(j)], j \in shell.fg)
    BY <1>1, <1>2, ShellFacts, Names
  <1>4. \/ \E p \in {Writer(j), Reader(j)} :
             state[p] = "EXITED" /\ state' = [state EXCEPT ![p] = "TERMINATED"]
        \/ state' = [state EXCEPT ![Shell] = "BLOCKED"]
    <2>1. shell.at = "waiting1" => state[Writer(j)] = "EXITED"
      BY <1>3 DEF ShellKnows
    <2>2. shell.at = "waiting2" => state[Reader(j)] = "EXITED"
      BY <1>3 DEF ShellKnows
    <2> QED BY <1>2, <2>1, <2>2 DEF ShellWaits, ShellWait, ShellWaited, ShellAt, Block
  <1>5. \A q \in Program : Shifts(q) /\ (state'[q] = "EXITED" => state[q] = "EXITED")
    BY <1>3, <1>4, Typings, Names DEF Shifts
  <1>6. \A i \in Job : ~(state[Writer(i)] \in Awake /\ state'[Writer(i)] = "EXITED")
    BY <1>5, Names DEF Awake
  <1>7. \A i \in Job : pipe'[i].open => pipe[i].open /\ SameBuffer(pipe'[i], pipe[i])
    BY <1>1 DEF SameBuffer
  <1> QED BY <1>1, <1>5, <1>6, <1>7, QuietChan

LEMMA ShellCloseChan ==
  ASSUME Base, Chans, ShellClose
  PROVE  Chans'
  <1>1. /\ running = Shell /\ shell.at = "close" /\ UNCHANGED <<state, call, out, in>>
        /\ pipe' = [pipe EXCEPT ![shell.job] = Closed(pipe[shell.job])]
    BY DEF ShellClose, ShellAt
  <1>2. PICK j \in Job : j = shell.job
    BY <1>1, ShellFacts
  <1>3. /\ pipe'[j] = Closed(pipe[j]) /\ \A i \in Job \ {j} : pipe'[i] = pipe[i]
    BY <1>1, <1>2, Typings
  <1>4. \A i \in Job : pipe'[i].open => pipe[i].open /\ SameBuffer(pipe'[i], pipe[i])
    <2>1. pipe'[j].open => pipe[j].open /\ SameBuffer(pipe'[j], pipe[j])
      BY <1>3, Typings, ClosedBuffer
    <2>2. \A i \in Job \ {j} : pipe'[i].open => pipe[i].open /\ SameBuffer(pipe'[i], pipe[i])
      BY <1>3 DEF SameBuffer
    <2> QED BY <2>1, <2>2
  <1>5. \A q \in Program : Shifts(q)
    BY <1>1 DEF Shifts
  <1>6. \A i \in Job : ~(state[Writer(i)] \in Awake /\ state'[Writer(i)] = "EXITED")
    BY <1>1 DEF Awake
  <1> QED BY <1>1, <1>4, <1>5, <1>6, QuietChan

LEMMA ShellStartChan ==
  ASSUME Base, Chans, NEW at, NEW p, NEW next,
         \/ at = "start1" /\ p = Writer(shell.job)
         \/ at = "start2" /\ p = Reader(shell.job),
         ShellStart(at, p, next)
  PROVE  Chans'
  <1>1. /\ running = Shell /\ shell.at = at /\ shell.at \in {"start1", "start2"}
        /\ UNCHANGED <<call, out, in>>
        /\ state' \in {state, [state EXCEPT ![p] = "READY"]}
        /\ pipe' \in {pipe, [pipe EXCEPT ![shell.job].total = pipe[shell.job].total + 1]}
    BY DEF ShellStart, ShellAt
  <1>2. PICK j \in Job : j = shell.job
    BY <1>1, ShellFacts
  <1>3. p \in Program /\ state[p] = "none"
    BY <1>1, <1>2, ShellFacts, Names DEF ShellKnows
  <1>4. \A q \in Program : Shifts(q) /\ (state'[q] = "EXITED" => state[q] = "EXITED")
    BY <1>1, <1>3, Typings, Names DEF Shifts
  <1>5. \A i \in Job : ~(state[Writer(i)] \in Awake /\ state'[Writer(i)] = "EXITED")
    BY <1>4, Names DEF Awake
  <1>6. \A i \in Job : pipe'[i].open => pipe[i].open /\ SameBuffer(pipe'[i], pipe[i])
    <2>1. CASE pipe' = pipe
      BY <2>1 DEF SameBuffer
    <2>2. CASE pipe' = [pipe EXCEPT ![j].total = pipe[j].total + 1]
      <3> DEFINE y == [pipe[j] EXCEPT !.total = pipe[j].total + 1]
      <3>1. y.open = pipe[j].open /\ SameBuffer(y, pipe[j])
        BY Typings DEF Pipe, SameBuffer
      <3>2. pipe' = [pipe EXCEPT ![j] = y]
        BY <2>2
      <3> HIDE DEF y
      <3>3. pipe'[j] = y /\ \A i \in Job \ {j} : pipe'[i] = pipe[i]
        BY <3>2, Typings
      <3> QED BY <3>1, <3>3 DEF SameBuffer
    <2> QED BY <1>1, <1>2, <2>1, <2>2
  <1> QED BY <1>1, <1>4, <1>5, <1>6, QuietChan

(* A pipe that was just created: all its places are counted.                *)
LEMMA OpenedChan ==
  ASSUME Base, Chans, NEW j \in Job, j \notin shell.typed,
         pipe' = [pipe EXCEPT ![j] = [NewPipe EXCEPT !.total = 1]],
         UNCHANGED <<state, call, out, in>>
  PROVE  Chans'
  <1> DEFINE x == [NewPipe EXCEPT !.total = 1]
  <1>1. /\ out[j] = <<>> /\ in[j] = <<>>
        /\ state[Writer(j)] = "none" /\ state[Reader(j)] = "none"
        /\ call[Writer(j)] = None /\ call[Reader(j)] = None
    BY Names DEF Base, Fresh, Calls
  <1>2. /\ x.readSem = [value |-> 0, waiters |-> <<>>]
        /\ x.writeSem = [value |-> Capacity, waiters |-> <<>>]
        /\ x.readIndex = 0 /\ x.writeIndex = 0
    BY DEF NewPipe, NoPipe
  <1> HIDE DEF x
  <1>3. pipe'[j] = x /\ \A i \in Job \ {j} : pipe'[i] = pipe[i]
    BY Typings DEF x
  <1>4. Unread(j)' = 0 /\ Len(out'[j]) = 0 /\ Len(in'[j]) = 0
    BY <1>1 DEF Unread
  <1>5. 0 % Capacity = 0 /\ Capacity - 0 = Capacity /\ Capacity - Capacity = 0
    <2>1. Capacity * 0 = 0 /\ 0 \in 0..(Capacity - 1)
      BY CapacityFacts
    <2>2. 0 % Capacity = 0
      BY <2>1, CapacityFacts, Remainder
    <2> QED BY <2>2, CapacityFacts
  <1>6. /\ Side(x.readSem, Reader(j), None, "none", 0)
        /\ Side(x.writeSem, Writer(j), None, "none", Capacity)
    BY <1>2, <1>5 DEF Side, Units
  <1>7. Buffered(x, out'[j], in'[j])
    BY <1>2, <1>4, <1>5 DEF Buffered
  <1>8. Chan(j)'
    <2>1. Side(pipe'[j].readSem, Reader(j), call'[Reader(j)], state'[Reader(j)], Unread(j)')
      BY <1>1, <1>3, <1>4, <1>6
    <2>2. Side(pipe'[j].writeSem, Writer(j), call'[Writer(j)], state'[Writer(j)],
               Capacity - Unread(j)')
      BY <1>1, <1>3, <1>4, <1>5, <1>6
    <2>3. Buffered(pipe'[j], out'[j], in'[j])
      BY <1>3, <1>7
    <2>4. state'[Writer(j)] \notin {"EXITED", "TERMINATED"}
      BY <1>1
    <2>5. \A k \in 1..Len(out'[j]) : FALSE
      BY <1>4
    <2> QED BY <2>1, <2>2, <2>3, <2>4, <2>5 DEF Chan
  <1>9. ASSUME NEW i \in Job \ {j}, pipe'[i].open PROVE Chan(i)'
    <2>1. Chan(i) /\ SameBuffer(pipe'[i], pipe[i])
      BY <1>3, <1>9 DEF Chans, SameBuffer
    <2>2. Shifts(Writer(i)) /\ Shifts(Reader(i))
      BY DEF Shifts
    <2> QED BY <2>1, <2>2, ChanFrame DEF Awake
  <1> QED BY <1>8, <1>9 DEF Chans

LEMMA ShellOpenChan ==
  ASSUME Base, Chans, ShellOpens \/ (\E j \in Job, fg \in BOOLEAN : ShellOpen(j, fg))
  PROVE  Chans'
  <1>1. UNCHANGED <<call, out, in>>
    BY DEF ShellOpens, ShellOpen
  <1>2. \/ /\ UNCHANGED state
           /\ \E j \in Job : /\ j \notin shell.typed
                             /\ pipe' = [pipe EXCEPT ![j] = [NewPipe EXCEPT !.total = 1]]
        \/ UNCHANGED pipe /\ (UNCHANGED state \/ state' = [state EXCEPT ![Shell] = "BLOCKED"])
    <2>1. CASE ShellOpens
      <3>1. shell.job \in Job /\ shell.job \notin shell.typed
        BY <2>1 DEF ShellOpens, ShellAt, Base, ShellOK
      <3> QED BY <2>1, <3>1 DEF ShellOpens, Opened, NotOpened
    <2>2. CASE \E j \in Job, fg \in BOOLEAN : ShellOpen(j, fg)
      BY <2>2 DEF ShellOpen, Opened, NotOpened, Block
    <2> QED BY <2>1, <2>2
  <1>3. CASE UNCHANGED pipe /\ (UNCHANGED state \/ state' = [state EXCEPT ![Shell] = "BLOCKED"])
    <2>1. \A q \in Program : state'[q] = state[q]
      <3>1. CASE state' = [state EXCEPT ![Shell] = "BLOCKED"]
        BY <3>1, Names, Typings
      <3> QED BY <1>3, <3>1
    <2>2. \A q \in Program : Shifts(q)
      BY <2>1 DEF Shifts
    <2>3. \A i \in Job : ~(state[Writer(i)] \in Awake /\ state'[Writer(i)] = "EXITED")
      BY <2>1, Names DEF Awake
    <2>4. \A i \in Job : pipe'[i].open => pipe[i].open /\ SameBuffer(pipe'[i], pipe[i])
      BY <1>3 DEF SameBuffer
    <2> QED BY <1>1, <2>2, <2>3, <2>4, QuietChan
  <1> QED BY <1>1, <1>2, <1>3, OpenedChan

(* The scheduler frees a process.  A writer that ended left room in its     *)
(* buffer, so the end of file goes where nothing is; a reader stores        *)
(* nothing.                                                                 *)
LEMMA FreeChan ==
  ASSUME Base, Chans, NEW p \in Program, Free(p)
  PROVE  /\ Chans'
         /\ UNCHANGED <<out, in>> \/ \E j \in Job :
              /\ pipe[j].open /\ Chan(j) /\ Unread(j) < Capacity
              /\ state[Writer(j)] # "freed"
              /\ out' = [out EXCEPT ![j] = Append(out[j], Eof)] /\ in' = in
  <1>1. PICK j \in Job : j = JobOf(p)
    BY Names
  <1>2. /\ pipe[j] \in Pipe /\ pipe[j].open /\ Chan(j) /\ state[p] = "TERMINATED"
        /\ Writer(j) \in Program /\ Reader(j) \in Program /\ Writer(j) # Reader(j)
        /\ p \in {Writer(j), Reader(j)} /\ UNCHANGED <<call, in>>
    BY <1>1, FreeTypes, Names DEF Chans, Free
  <1>3. /\ Resumed(allPipes) \subseteq {Shell}
        /\ Shell \notin Program
    <2>1. allPipes \in Semaphore(Process)
      BY Typings
    <2>2. /\ \A i \in DOMAIN allPipes.waiters :
               \/ allPipes.waiters[i] = Shell
               \/ allPipes.waiters[i] \in Program /\ state[allPipes.waiters[i]] \notin Awake
          /\ \A i, k \in DOMAIN allPipes.waiters :
               allPipes.waiters[i] = Shell /\ allPipes.waiters[k] = Shell => i = k
      BY DEF Base, Sleepers, Awake
    <2> QED BY <2>1, <2>2, AllPipesPost, Names
  <1>4. CASE p = Reader(j)
    <2>1. /\ pipe' = [pipe EXCEPT ![j] = Closed(pipe[j])] /\ out' = out
          /\ state' = Wake([state EXCEPT ![p] = "freed"], Resumed(allPipes))
      BY <1>1, <1>2, <1>4 DEF Free
    <2>2. /\ state'[p] = "freed" /\ \A q \in Program \ {p} : state'[q] = state[q]
      BY <1>3, <2>1, Typings, Names DEF Wake
    <2>3. \A q \in Program : Shifts(q)
      BY <1>2, <2>2 DEF Shifts
    <2>4. \A i \in Job : ~(state[Writer(i)] \in Awake /\ state'[Writer(i)] = "EXITED")
      BY <1>4, <2>2, Names DEF Awake
    <2>5. \A i \in Job : pipe'[i].open => pipe[i].open /\ SameBuffer(pipe'[i], pipe[i])
      <3>1. pipe'[j] = Closed(pipe[j]) /\ \A i \in Job \ {j} : pipe'[i] = pipe[i]
        BY <2>1, Typings
      <3>2. pipe'[j].open => pipe[j].open /\ SameBuffer(pipe'[j], pipe[j])
        BY <1>2, <3>1, ClosedBuffer
      <3>3. \A i \in Job \ {j} : pipe'[i].open => pipe[i].open /\ SameBuffer(pipe'[i], pipe[i])
        BY <3>1 DEF SameBuffer
      <3> QED BY <3>2, <3>3
    <2> QED BY <1>2, <2>1, <2>3, <2>4, <2>5, QuietChan
  <1>5. CASE p = Writer(j)
    <2> DEFINE x == [pipe[j] EXCEPT !.writeSem = Taken(pipe[j].writeSem)]
               y == Stored(x, Eof)
    <2>1. pipe[j].writeSem.value > 0
      BY <1>2, <1>5 DEF Chan
    <2>2. /\ pipe' = [pipe EXCEPT ![j] = Closed(y)]
          /\ out' = [out EXCEPT ![j] = Append(out[j], Eof)]
          /\ state' = Wake([state EXCEPT ![p] = "freed"],
                           Resumed(x.readSem) \cup Resumed(allPipes))
      BY <1>1, <1>2, <1>5, <2>1 DEF Free
    <2>3. /\ x \in Pipe /\ x.readSem = pipe[j].readSem /\ x.buffer = pipe[j].buffer
          /\ x.readIndex = pipe[j].readIndex /\ x.writeIndex = pipe[j].writeIndex
          /\ x.writeSem = Taken(pipe[j].writeSem)
      BY <1>2, <2>1, PipeSemTypes DEF Pipe
    <2>4. /\ pipe[j].writeSem \in Semaphore(Program) /\ pipe[j].writeSem.value \in Nat
          /\ Unread(j) \in Nat /\ Capacity - Unread(j) \in Int /\ Unread(j) < Capacity
      <3>1. /\ pipe[j].writeSem \in Semaphore(Program) /\ Unread(j) \in Nat
            /\ pipe[j].writeSem.value <= Capacity - Unread(j)
        BY <1>2, ChanFacts
      <3>2. pipe[j].writeSem.value \in Nat
        BY <3>1 DEF Semaphore
      <3> QED BY <2>1, <3>1, <3>2, CapacityFacts
    <2>5. y \in Pipe
      BY <2>3, PipeTypes
    <2> HIDE DEF x, y
    <2>6. /\ Resumed(x.readSem) \subseteq {Reader(j)}
          /\ Side(y.readSem, Reader(j), call[Reader(j)],
                  IF Reader(j) \in Resumed(x.readSem) THEN "READY" ELSE state[Reader(j)],
                  Unread(j) + 1)
          /\ y.writeSem = x.writeSem
          /\ Buffered(y, Append(out[j], Eof), in[j])
      BY <1>2, <2>3, <2>4, StoreSide DEF y
    <2>7. Side(y.writeSem, Writer(j), call[Writer(j)], "freed", (Capacity - Unread(j)) - 1)
      <3>1. Side(pipe[j].writeSem, Writer(j), call[Writer(j)], "TERMINATED", Capacity - Unread(j))
        BY <1>2, <1>5 DEF Chan
      <3>2. Side(x.writeSem, Writer(j), call[Writer(j)], "TERMINATED", (Capacity - Unread(j)) - 1)
        BY <2>1, <2>3, <2>4, <3>1, TakeSide
      <3> QED BY <2>6, <3>2 DEF Side, Units, Awake
    <2>8. /\ state'[Writer(j)] = "freed"
          /\ state'[Reader(j)] = IF Reader(j) \in Resumed(x.readSem) THEN "READY"
                                 ELSE state[Reader(j)]
          /\ \A q \in Program \ {Writer(j), Reader(j)} : state'[q] = state[q]
      <3>1. \A q \in Process : state'[q] =
              IF q \in Resumed(x.readSem) \cup Resumed(allPipes) THEN "READY"
              ELSE IF q = p THEN "freed" ELSE state[q]
        BY <2>2, Typings DEF Wake
      <3> QED BY <1>2, <1>3, <1>5, <2>6, <3>1, Names
    <2>9. /\ pipe'[j] = Closed(y) /\ out'[j] = Append(out[j], Eof)
          /\ \A i \in Job \ {j} : pipe'[i] = pipe[i] /\ out'[i] = out[i]
      BY <2>2, Typings
    <2>10. Unread(j)' = Unread(j) + 1
      <3>1. Len(out[j]) \in Nat /\ Len(in[j]) \in Nat /\ Len(Append(out[j], Eof)) = Len(out[j]) + 1
        BY <1>2, ChanSeqs
      <3> QED BY <1>2, <2>9, <3>1 DEF Unread
    <2>11. ASSUME pipe'[j].open PROVE Chan(j)'
      <3>1. SameBuffer(pipe'[j], y)
        BY <2>5, <2>9, <2>11, ClosedBuffer
      <3>2. Side(pipe'[j].readSem, Reader(j), call'[Reader(j)], state'[Reader(j)], Unread(j)')
        BY <1>2, <2>6, <2>8, <2>10, <3>1 DEF SameBuffer
      <3>3. (Capacity - Unread(j)) - 1 = Capacity - Unread(j)'
        BY <2>4, <2>10, CapacityFacts
      <3>4. Side(pipe'[j].writeSem, Writer(j), call'[Writer(j)], state'[Writer(j)],
                 Capacity - Unread(j)')
        BY <1>2, <2>7, <2>8, <3>1, <3>3 DEF SameBuffer
      <3>5. Buffered(pipe'[j], out'[j], in'[j])
        BY <1>2, <2>6, <2>9, <3>1 DEF Buffered, SameBuffer
      <3> QED BY <2>8, <3>2, <3>4, <3>5 DEF Chan
    <2>12. ASSUME NEW i \in Job \ {j}, pipe'[i].open PROVE Chan(i)'
      <3>1. /\ Writer(i) \in Program \ {Writer(j), Reader(j)}
            /\ Reader(i) \in Program \ {Writer(j), Reader(j)}
        BY Names
      <3>2. state'[Writer(i)] = state[Writer(i)] /\ state'[Reader(i)] = state[Reader(i)]
        BY <2>8, <3>1
      <3>3. Chan(i)
        BY <2>9, <2>12 DEF Chans
      <3>4. Shifts(Writer(i)) /\ Shifts(Reader(i)) /\ SameBuffer(pipe'[i], pipe[i])
        BY <2>9, <3>2 DEF Shifts, SameBuffer
      <3> QED BY <1>2, <2>9, <3>2, <3>3, <3>4, ChanFrame DEF Awake
    <2>13. Chans'
      BY <2>11, <2>12 DEF Chans
    <2> QED BY <1>2, <1>5, <2>2, <2>4, <2>13
  <1> QED BY <1>2, <1>4, <1>5

LEMMA ChansInit == Init => Chans
  <1> SUFFICES ASSUME Init PROVE Chans
    OBVIOUS
  <1>1. \A j \in Job : ~pipe[j].open
    BY PipeTypes DEF Init
  <1> QED BY <1>1 DEF Chans

-----------------------------------------------------------------------------
(* A step of the pipes is a step of the channels, or changes none.          *)

Channelled ==
  UNCHANGED <<out, in>> \/ \E j \in Job : PipeChannel!Send(j) \/ PipeChannel!Receive(j)

LEMMA SendStep ==
  ASSUME Base, NEW j \in Job, Chan(j), Unread(j) < Capacity, state[Writer(j)] # "freed",
         NEW c \in Byte \cup {Eof}, out' = [out EXCEPT ![j] = Append(out[j], c)], in' = in
  PROVE  Channelled
  <1>1. ~PipeChannel!Ended(j)
    BY ChanSeqs DEF PipeChannel!Ended
  <1>2. Len(out[j]) - Len(in[j]) < Capacity
    BY DEF Unread
  <1>3. PipeChannel!Send(j)
    BY <1>1, <1>2 DEF PipeChannel!Send
  <1> QED BY <1>3 DEF Channelled

LEMMA ReceiveStep ==
  ASSUME Base, NEW j \in Job, Chan(j), Unread(j) > 0, out' = out,
         in' = [in EXCEPT ![j] = Append(in[j], out[j][Len(in[j]) + 1])]
  PROVE  Channelled
  <1>1. out[j] \in Seq(Byte \cup {Eof}) /\ in[j] \in Seq(Byte \cup {None, Eof})
    BY ChanSeqs
  <1>2. Len(in[j]) < Len(out[j])
    BY <1>1, Lengths DEF Unread
  <1>3. PipeChannel!Receive(j)
    BY <1>2 DEF PipeChannel!Receive
  <1> QED BY <1>3 DEF Channelled

LEMMA ChansNext ==
  ASSUME "full" \notin Faults, Base, Chans, [Next]_vars
  PROVE  Chans' /\ Channelled
  <1>1. ASSUME NEW j \in Job, NEW c \in Byte, Put(j, c) PROVE Chans' /\ Channelled
    BY <1>1, PutChan, SendStep DEF Channelled
  <1>2. ASSUME NEW j \in Job, PutReturns(j) PROVE Chans' /\ Channelled
    BY <1>2, PutReturnsChan, SendStep
  <1>3. ASSUME NEW j \in Job, Get(j) PROVE Chans' /\ Channelled
    <2>1. out' = out
      BY <1>3 DEF Get
    <2> QED BY <1>3, <2>1, GetChan, ReceiveStep DEF Channelled
  <1>4. ASSUME NEW j \in Job, GetReturns(j) PROVE Chans' /\ Channelled
    <2>1. out' = out
      BY <1>4 DEF GetReturns
    <2> QED BY <1>4, <2>1, GetReturnsChan, ReceiveStep
  <1>5. ASSUME NEW p \in Program, Exit(p) \/ CtrlC(p) PROVE Chans' /\ Channelled
    <2>1. UNCHANGED <<out, in>>
      BY <1>5 DEF Exit, CtrlC
    <2> QED BY <1>5, <2>1, EndsChan DEF Channelled
  <1>6. ASSUME NEW p \in Program, Free(p) PROVE Chans' /\ Channelled
    BY <1>6, FreeChan, SendStep DEF Channelled
  <1>7. CASE \/ Tick
             \/ \E p \in Process : Dispatch(p)
             \/ \E p \in Program : InitReaps(p)
             \/ UNCHANGED vars
    <2>1. UNCHANGED <<out, in>>
      BY <1>7 DEF Tick, Dispatch, InitReaps, vars
    <2> QED BY <1>7, <2>1, ScheduleChan DEF Channelled
  <1>8. CASE ShellStep \/ (\E j \in Job, fg \in BOOLEAN : ShellOpen(j, fg))
    <2>1. CASE ShellStartWriter \/ ShellStartReader
      <3>1. UNCHANGED <<out, in>>
        BY <2>1 DEF ShellStartWriter, ShellStartReader, ShellStart
      <3>2. Chans'
        BY <2>1, ShellStartChan DEF ShellStartWriter, ShellStartReader
      <3> QED BY <3>1, <3>2 DEF Channelled
    <2>2. CASE ShellKillsWriter \/ ShellWaits \/ ShellClose
      <3>1. UNCHANGED <<out, in>>
        BY <2>2 DEF ShellKillsWriter, ShellWaits, ShellWait, ShellWaited, ShellClose
      <3> QED BY <2>2, <3>1, ShellKillsWriterChan, ShellWaitsChan, ShellCloseChan DEF Channelled
    <2>3. CASE ShellOpens \/ (\E j \in Job, fg \in BOOLEAN : ShellOpen(j, fg))
      <3>1. UNCHANGED <<out, in>>
        BY <2>3 DEF ShellOpens, ShellOpen
      <3> QED BY <2>3, <3>1, ShellOpenChan DEF Channelled
    <2> QED BY <1>8, <2>1, <2>2, <2>3 DEF ShellStep
  <1>9. CASE \E j \in Job : WriterStep(j) \/ ReaderStep(j)
    BY <1>1, <1>2, <1>3, <1>4, <1>5, <1>9, Names DEF WriterStep, ReaderStep
  <1>10. CASE \E p \in Program : CtrlC(p) \/ Reap(p)
    BY <1>5, <1>6, <1>7, <1>10 DEF Reap
  <1> QED BY <1>7, <1>8, <1>9, <1>10 DEF Next

-----------------------------------------------------------------------------
(* The units of readSem and writeSem are exactly the bytes to read and the  *)
(* places to write: counted, or in the hands of a process that semPost has  *)
(* resumed in writeToPipe or pipeRead.  Whoever is killed there, and in     *)
(* whichever order the two are resumed, none is lost or invented, provided  *)
(* that no writer ends while its pipe is full.                              *)
THEOREM UnitsAlwaysConserved ==
  ASSUME "full" \notin Faults
  PROVE  Spec => []UnitsConserved
  <1>1. ASSUME Base, Chans PROVE UnitsConserved
    <2> SUFFICES ASSUME NEW j \in Job, pipe[j].open
                 PROVE  /\ Unread(j) - pipe[j].readSem.value
                             \in InHand(Reader(j), pipe[j].readSem)
                        /\ Capacity - Unread(j) - pipe[j].writeSem.value
                             \in InHand(Writer(j), pipe[j].writeSem)
      BY DEF UnitsConserved, Unread
    <2>1. Chan(j)
      BY <1>1 DEF Chans
    <2>2. ASSUME NEW s, NEW p, NEW d, Side(s, p, call[p], state[p], d)
          PROVE  d - s.value \in InHand(p, s)
      <3>1. s.waiters = <<>> => (Given(p, s) <=> call[p] # None)
        BY DEF Given
      <3>2. s.waiters = <<p>> => ~Given(p, s)
        BY DEF Given
      <3>3. s.waiters = <<p>> => s.waiters # <<>>
        OBVIOUS
      <3> QED BY <2>2, <3>1, <3>2, <3>3 DEF Side, Units, InHand, Awake
    <2> QED BY <2>1, <2>2 DEF Chan
  <1>2. Base /\ Chans /\ [Next]_vars => (Base /\ Chans)'
    BY BaseNext, ChansNext
  <1>3. Base /\ Chans => UnitsConserved
    BY <1>1
  <1> QED BY <1>2, <1>3, BaseInit, ChansInit, PTL DEF Spec

(* What a reader gets is what the writer wrote, in order, none lost and     *)
(* none twice, never more than PIPE_BUFFER_SIZE bytes behind it, and after  *)
(* the end of file nothing: writeToPipe, pipeRead and freeProcess implement *)
(* the channel of Channel.                                                  *)
THEOREM PipesImplementChannels ==
  ASSUME "full" \notin Faults
  PROVE  Spec => PipesAreChannels
  <1>1. Init => PipeChannel!Init
    BY DEF Init, PipeChannel!Init
  <1>2. Base /\ Chans /\ [Next]_vars => (Base /\ Chans)'
    BY BaseNext, ChansNext
  <1>3. Base /\ Chans /\ [Next]_vars => [PipeChannel!Next]_<<out, in>>
    BY ChansNext DEF Channelled, PipeChannel!Next
  <1> QED BY <1>1, <1>2, <1>3, BaseInit, ChansInit, PTL DEF Spec, PipesAreChannels, PipeChannel!Spec


-----------------------------------------------------------------------------
(* What a channel keeps: the bytes read are the first of those written.     *)
Ordered ==
  \A j \in Job :
    /\ out[j] \in Seq(Byte \cup {Eof}) /\ in[j] \in Seq(Byte \cup {None, Eof})
    /\ Len(in[j]) <= Len(out[j])
    /\ \A k \in 1..Len(in[j]) : in[j][k] = out[j][k]

LEMMA AppendKeepsPrefix ==
  ASSUME NEW S, NEW T, NEW o \in Seq(S), NEW i \in Seq(T), Len(i) <= Len(o),
         \A k \in 1..Len(i) : i[k] = o[k]
  PROVE  /\ \A c \in S : /\ Len(i) <= Len(Append(o, c))
                         /\ \A k \in 1..Len(i) : i[k] = Append(o, c)[k]
         /\ Len(i) < Len(o) =>
              LET n == Append(i, o[Len(i) + 1])
              IN  Len(n) <= Len(o) /\ \A k \in 1..Len(n) : n[k] = o[k]
  OBVIOUS

LEMMA OrderedNext ==
  ASSUME Ordered, Base', Channelled
  PROVE  Ordered'
  <1>1. \A j \in Job : out'[j] \in Seq(Byte \cup {Eof}) /\ in'[j] \in Seq(Byte \cup {None, Eof})
    BY DEF Base, TypeOK
  <1>2. CASE UNCHANGED <<out, in>>
    BY <1>2 DEF Ordered
  <1>3. ASSUME NEW j \in Job, PipeChannel!Send(j) PROVE Ordered'
    <2>1. PICK c \in Byte \cup {Eof} : out' = [out EXCEPT ![j] = Append(@, c)]
      BY <1>3 DEF PipeChannel!Send
    <2>2. in' = in
      BY <1>3 DEF PipeChannel!Send
    <2> QED BY <1>1, <2>1, <2>2, AppendKeepsPrefix DEF Ordered
  <1>4. ASSUME NEW j \in Job, PipeChannel!Receive(j) PROVE Ordered'
    <2>1. /\ Len(in[j]) < Len(out[j]) /\ out' = out
          /\ in' = [in EXCEPT ![j] = Append(@, out[j][Len(in[j]) + 1])]
      BY <1>4 DEF PipeChannel!Receive
    <2> QED BY <1>1, <2>1, AppendKeepsPrefix DEF Ordered
  <1> QED BY <1>2, <1>3, <1>4 DEF Channelled

(* The reader gets the bytes in the order in which they were written, and   *)
(* the right ones, although the buffer wraps and either side may be killed. *)
(* With a writer that ends on a full pipe it fails (PipesFull.cfg).         *)
THEOREM ReadsInOrder ==
  ASSUME "full" \notin Faults
  PROVE  Spec => []ReadInOrder
  <1>1. Init => Ordered
    BY DEF Init, Ordered
  <1>2. Base /\ Chans /\ Ordered /\ [Next]_vars => (Base /\ Chans /\ Ordered)'
    BY BaseNext, ChansNext, OrderedNext
  <1>3. Ordered => ReadInOrder
    <2> SUFFICES ASSUME Ordered, NEW j \in Job
                 PROVE  Len(in[j]) <= Len(out[j]) /\ in[j] = SubSeq(out[j], 1, Len(in[j]))
      BY DEF ReadInOrder
    <2>1. ASSUME NEW S, NEW T, NEW o \in Seq(S), NEW i \in Seq(T), Len(i) <= Len(o),
                 \A k \in 1..Len(i) : i[k] = o[k]
          PROVE  i = SubSeq(o, 1, Len(i))
      BY <2>1
    <2> QED BY <2>1 DEF Ordered
  <1> QED BY <1>1, <1>2, <1>3, BaseInit, ChansInit, PTL DEF Spec

=============================================================================
