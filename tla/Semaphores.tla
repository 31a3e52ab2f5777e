----------------------------- MODULE Semaphores -----------------------------
(***************************************************************************)
(* What the semaphores of the kernel promise: each is a count and the      *)
(* processes asleep on it, who are woken one by one in the order they      *)
(* came; those that have been killed are passed over.                      *)
(***************************************************************************)
EXTENDS Integers, Sequences

CONSTANTS Client, Id

VARIABLES table,     \* the semaphores: a function on their identifiers
          dead       \* the processes that have been killed

vars == <<table, dead>>

Init == table = <<>> /\ dead = {}

(* The tables that one operation on t can leave behind. *)
Created(t) ==
  {[j \in DOMAIN t \cup {i} |-> IF j = i THEN [value |-> v, waiters |-> <<>>] ELSE t[j]]
     : i \in Id \ DOMAIN t, v \in 0..1}

Destroyed(t) == {[j \in DOMAIN t \ {i} |-> t[j]] : i \in DOMAIN t}

Waited(t) ==
  {IF t[i].value > 0 THEN [t EXCEPT ![i].value = @ - 1]
   ELSE [t EXCEPT ![i].waiters = Append(@, c)] : i \in DOMAIN t, c \in Client \ dead}

Posted(t) ==
  LET first(w) == CHOOSE k \in 1..(Len(w) + 1) :
                    /\ k <= Len(w) => w[k] \notin dead
                    /\ \A l \in 1..(k - 1) : w[l] \in dead
      post(s) == IF first(s.waiters) > Len(s.waiters)
                 THEN [value |-> s.value + 1, waiters |-> <<>>]
                 ELSE [s EXCEPT !.waiters = SubSeq(@, first(@) + 1, Len(@))]
  IN {[t EXCEPT ![i] = post(@)] : i \in DOMAIN t}

Operation ==
  /\ table' \in LET t == table IN Created(t) \cup Destroyed(t) \cup Waited(t) \cup Posted(t)
  /\ UNCHANGED dead

Kill(c) == dead' = dead \cup {c} /\ UNCHANGED table

Next == Operation \/ \E c \in Client : Kill(c)

Spec == Init /\ [][Next]_vars
=============================================================================
