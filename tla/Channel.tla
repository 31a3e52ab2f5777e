------------------------------ MODULE Channel ------------------------------
(***************************************************************************)
(* What pipes promise: each is a reliable first-in first-out channel of    *)
(* bytes with room for Capacity of them, ended by one Eof.                 *)
(***************************************************************************)
EXTENDS Naturals, Sequences

CONSTANTS Id,        \* the channels
          Byte, Eof, Capacity

VARIABLES out,       \* the bytes written to each channel, in order
          in         \* the bytes read from it, in order

Ended(j) == \E i \in 1..Len(out[j]) : out[j][i] = Eof

Init == /\ out = [j \in Id |-> <<>>]
        /\ in = [j \in Id |-> <<>>]

Send(j) == /\ ~Ended(j)
           /\ Len(out[j]) - Len(in[j]) < Capacity
           /\ \E b \in Byte \cup {Eof} : out' = [out EXCEPT ![j] = Append(@, b)]
           /\ UNCHANGED in

Receive(j) == /\ Len(in[j]) < Len(out[j])
              /\ in' = [in EXCEPT ![j] = Append(@, out[j][Len(in[j]) + 1])]
              /\ UNCHANGED out

Next == \E j \in Id : Send(j) \/ Receive(j)

Spec == Init /\ [][Next]_<<out, in>>

=============================================================================
