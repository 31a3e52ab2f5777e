----------------------------- MODULE MCSemTable -----------------------------
(* Small instances of SemTable for TLC: three openers of one name, one of    *)
(* whom spells it in its own way, and an owner with two guests.              *)
EXTENDS SemTable, TLC

CONSTANTS
  MaxFailures,          \* bound: what failures have left behind at a time
  o1, o2, o3, h, g1, g2

MCSpelling == (o1 :> "sync" @@ o2 :> "Sync" @@ o3 :> "sync")
MCLower == ("sync" :> "sync" @@ "Sync" :> "sync" @@ "" :> "")
MCAmount == [c \in Client |-> IF c = o2 THEN -1 ELSE IF c \in Opener THEN 1 ELSE 0]

(* What mallocs that failed have left behind: names that were missed,        *)
(* sleepers in no queue, locks left taken, semaphores without a queue or     *)
(* outside the table.                                                        *)
Failures ==
  LET broken(i) == sems[i].lock \/ ~sems[i].hasQueue \/ ~InTable(i)
  IN Cardinality(missed) + Cardinality({c \in Client : Stranded(c)})
       + Cardinality({i \in DOMAIN sems : broken(i)})
FewFailures == Failures <= MaxFailures

ClientSymmetry == Permutations(Guest) \cup Permutations({o1, o3} \cap Opener)
=============================================================================
