--------------------------- MODULE TerminalProofs ---------------------------
(***************************************************************************)
(* Proofs about Terminal, for every screen, keyboard, line length and size *)
(* of stdin.                                                               *)
(***************************************************************************)
EXTENDS Terminal, FiniteSetTheorems, WellFoundedInduction, TLAPS

-----------------------------------------------------------------------------
(* A set of numbers that is not empty has a least one. *)
LEMMA Least ==
  ASSUME NEW S \in SUBSET Nat, S # {}
  PROVE  \E k \in S : \A l \in S : k <= l
  <1>1. PICK i \in S : \A j \in S : ~(<<j, i>> \in OpToRel(<, Nat))
    BY NatLessThanWellFounded, WFMin
  <1>2. \A j \in S : ~(j < i)
    BY <1>1 DEF OpToRel
  <1> QED BY <1>2

-----------------------------------------------------------------------------
(* The folds of the model go through a sequence from the left: kind tells   *)
(* what they do with each member.  f is the function of MapThenFoldSet.     *)
Does(kind, s, c) ==
  CASE kind = "write" -> WriteChar(s, c, TRUE)
    [] kind = "print" -> PrintChar(s, c)
    [] kind = "blank" -> NewLine(s)
    [] kind = "show" -> s \o Shown(c)

FoldStep(kind, s, chars, f, u) ==
  IF u = {} THEN s ELSE Does(kind, f[u \ {Max(u)}], chars[Max(u)])
Folds(kind, s, chars, f, U) == f = [u \in U |-> FoldStep(kind, s, chars, f, u)]

LEMMA MaxIs ==
  ASSUME NEW n \in Nat, NEW u \in SUBSET (1..n), u # {}
  PROVE  Max(u) \in u /\ \A i \in u : i <= Max(u)
  <1> DEFINE Gap == {n - i : i \in u}
  <1>0. Gap \in SUBSET Nat /\ Gap # {}
    <2>1. \A i \in u : i \in 1..n
      OBVIOUS
    <2>2. \A i \in u : n - i \in Nat
      BY <2>1
    <2>3. PICK i \in u : TRUE
      OBVIOUS
    <2>4. n - i \in Gap
      BY <2>3
    <2> QED BY <2>2, <2>4
  <1>1. PICK g \in Gap : \A h \in Gap : g <= h
    BY <1>0, Least
  <1>2. PICK i \in u : g = n - i
    BY <1>1
  <1>3. \A j \in u : i >= j
    <2> TAKE j \in u
    <2>1. n - j \in Gap
      OBVIOUS
    <2>2. n - i <= n - j
      BY <1>1, <1>2, <2>1
    <2>3. i \in 1..n /\ j \in 1..n
      OBVIOUS
    <2> QED BY <2>2, <2>3
  <1>4. \E x \in u : \A y \in u : x >= y
    BY <1>3
  <1>5. Max(u) \in u /\ \A y \in u : Max(u) >= y
    BY <1>4, Zenon DEF Max
  <1>6. Max(u) \in 1..n /\ \A y \in u : y \in 1..n
    BY <1>5
  <1> QED BY <1>5, <1>6

UpTo(n, e) == {u \in SUBSET (1..n) : Cardinality(u) <= e}

LEMMA Smaller ==
  ASSUME NEW n \in Nat, NEW u \in SUBSET (1..n), u # {}
  PROVE  /\ u \ {Max(u)} \in SUBSET (1..n)
         /\ Cardinality(u) \in Nat \ {0} /\ Cardinality(u \ {Max(u)}) = Cardinality(u) - 1
  <1>1. IsFiniteSet(u) /\ Max(u) \in u
    <2>1. Max(u) \in u
      BY MaxIs
    <2>2. IsFiniteSet(1..n)
      BY FS_Interval
    <2> QED BY <2>1, <2>2, FS_Subset
  <1>2. Cardinality(u) \in Nat /\ Cardinality(u) # 0
    BY <1>1, FS_CardinalityType, FS_EmptySet
  <1> QED BY <1>1, <1>2, FS_RemoveElement

LEMMA FoldsExist ==
  ASSUME NEW kind, NEW s, NEW chars, NEW n \in Nat
  PROVE  \E f : Folds(kind, s, chars, f, SUBSET (1..n))
  <1> DEFINE Bad == {e \in Nat : ~\E f : Folds(kind, s, chars, f, UpTo(n, e))}
  <1>1. Bad = {}
    <2> SUFFICES ASSUME Bad # {} PROVE FALSE
      OBVIOUS
    <2>1. PICK e \in Bad : \A l \in Bad : e <= l
      BY Least
    <2>3. e # 0
      <3> DEFINE f == [u \in UpTo(n, 0) |-> s]
      <3>1. \A u \in UpTo(n, 0) : u = {}
        <4> TAKE u \in UpTo(n, 0)
        <4>1. u # {} => Cardinality(u) \in Nat \ {0} /\ Cardinality(u) <= 0
          BY Smaller DEF UpTo
        <4> QED BY <4>1
      <3>2. \A u \in UpTo(n, 0) : FoldStep(kind, s, chars, f, u) = s
        BY <3>1 DEF FoldStep
      <3>3. Folds(kind, s, chars, f, UpTo(n, 0))
        BY <3>2 DEF Folds
      <3> QED BY <3>3
    <2>4. PICK f : Folds(kind, s, chars, f, UpTo(n, e - 1))
      <3>1. e - 1 \in Nat /\ e - 1 \notin Bad
        BY <2>1, <2>3
      <3> QED BY <3>1
    <2> DEFINE g == [u \in UpTo(n, e) |-> IF u \in UpTo(n, e - 1) THEN f[u]
                                          ELSE FoldStep(kind, s, chars, f, u)]
    <2>5. ASSUME NEW u \in UpTo(n, e)
          PROVE  g[u] = FoldStep(kind, s, chars, g, u)
      <3>1. u # {} => u \ {Max(u)} \in UpTo(n, e - 1) /\ u \ {Max(u)} \in UpTo(n, e)
        <4> SUFFICES ASSUME u # {}
                     PROVE  u \ {Max(u)} \in UpTo(n, e - 1) /\ u \ {Max(u)} \in UpTo(n, e)
          OBVIOUS
        <4>1. Cardinality(u) \in Nat /\ Cardinality(u \ {Max(u)}) = Cardinality(u) - 1
              /\ u \ {Max(u)} \in SUBSET (1..n) /\ Cardinality(u) <= e /\ e \in Nat
          BY <2>1, Smaller DEF UpTo
        <4> QED BY <4>1 DEF UpTo
      <3>2. u # {} => g[u \ {Max(u)}] = f[u \ {Max(u)}]
        BY <3>1
      <3>3. FoldStep(kind, s, chars, g, u) = FoldStep(kind, s, chars, f, u)
        BY <3>2 DEF FoldStep
      <3>4. u \in UpTo(n, e - 1) => f[u] = FoldStep(kind, s, chars, f, u)
        BY <2>4 DEF Folds
      <3> QED BY <3>3, <3>4
    <2>6. Folds(kind, s, chars, g, UpTo(n, e))
      BY <2>5 DEF Folds
    <2> QED BY <2>1, <2>6
  <1>2. IsFiniteSet(1..n) /\ Cardinality(1..n) = n
    BY FS_Interval
  <1>3. UpTo(n, n) = SUBSET (1..n)
    BY <1>2, FS_Subset DEF UpTo
  <1>4. n \notin Bad
    BY <1>1
  <1> QED BY <1>3, <1>4

(* What a fold goes through, place by place.                                *)
Goes(kind, s, chars, n, h) ==
  /\ h[0] = s
  /\ \A i \in 1..n : h[i] = Does(kind, h[i - 1], chars[i])

LEMMA Course ==
  ASSUME NEW kind, NEW s, NEW chars, NEW n \in Nat, NEW f, Folds(kind, s, chars, f, SUBSET (1..n))
  PROVE  \E h : Goes(kind, s, chars, n, h) /\ h[n] = f[1..n]
  <1> DEFINE h == [i \in 0..n |-> f[1..i]]
  <1>1. h[0] = s
    <2>1. 1..0 = {} /\ {} \in SUBSET (1..n)
      OBVIOUS
    <2>2. f[{}] = s
      BY <2>1 DEF Folds, FoldStep
    <2> QED BY <2>1, <2>2
  <1>2. ASSUME NEW i \in 1..n
        PROVE  h[i] = Does(kind, h[i - 1], chars[i])
    <2>1. 1..i \in SUBSET (1..n) /\ 1..i # {}
      OBVIOUS
    <2>2. Max(1..i) \in 1..i /\ \A j \in 1..i : j <= Max(1..i)
      <3>1. PICK u : u = 1..i
        OBVIOUS
      <3> QED BY <2>1, <3>1, MaxIs
    <2>3. Max(1..i) = i /\ (1..i) \ {i} = 1..(i - 1)
      BY <2>2
    <2>4. f[1..i] = FoldStep(kind, s, chars, f, 1..i)
      BY <2>1 DEF Folds
    <2>5. f[1..i] = Does(kind, f[1..(i - 1)], chars[i])
      BY <2>1, <2>3, <2>4 DEF FoldStep
    <2> QED BY <2>5
  <1>3. Goes(kind, s, chars, n, h)
    BY <1>1, <1>2 DEF Goes
  <1> QED BY <1>3

LEMMA PrintAllCourse ==
  ASSUME NEW s, NEW chars, NEW n \in Nat, DOMAIN chars = 1..n
  PROVE  \E h : Goes("print", s, chars, n, h) /\ PrintAll(s, chars) = h[n]
  <1>1. PICK g : g = CHOOSE f : f = [u \in SUBSET DOMAIN chars |-> IF u = {} THEN s
                                     ELSE PrintChar(f[u \ {Max(u)}], chars[Max(u)])]
    OBVIOUS
  <1>2. \A f, u : FoldStep("print", s, chars, f, u)
                   = IF u = {} THEN s ELSE PrintChar(f[u \ {Max(u)}], chars[Max(u)])
    BY DEF FoldStep, Does
  <1>3. \E f : f = [u \in SUBSET DOMAIN chars |-> IF u = {} THEN s
                    ELSE PrintChar(f[u \ {Max(u)}], chars[Max(u)])]
    <2>1. PICK f : Folds("print", s, chars, f, SUBSET (1..n))
      BY FoldsExist
    <2>2. f = [u \in SUBSET DOMAIN chars |-> IF u = {} THEN s
               ELSE PrintChar(f[u \ {Max(u)}], chars[Max(u)])]
      BY <2>1, <1>2 DEF Folds
    <2> QED BY <2>2, Zenon
  <1>4. g = [u \in SUBSET DOMAIN chars |-> IF u = {} THEN s
             ELSE PrintChar(g[u \ {Max(u)}], chars[Max(u)])]
    BY <1>1, <1>3, Zenon
  <1>5. PrintAll(s, chars) = g[DOMAIN chars]
    BY <1>1, Zenon DEF PrintAll, FoldLeft, MapThenFoldSet
  <1>6. Folds("print", s, chars, g, SUBSET (1..n))
    BY <1>2, <1>4 DEF Folds
  <1>7. PICK h : Goes("print", s, chars, n, h) /\ h[n] = g[1..n]
    BY <1>6, Course
  <1> QED BY <1>5, <1>7

LEMMA WriteAllCourse ==
  ASSUME NEW s, NEW chars, NEW n \in Nat, DOMAIN chars = 1..n
  PROVE  \E h : Goes("write", s, chars, n, h) /\ WriteAll(s, chars) = h[n]
  <1>1. PICK g : g = CHOOSE f : f = [u \in SUBSET DOMAIN chars |-> IF u = {} THEN s
                                     ELSE WriteChar(f[u \ {Max(u)}], chars[Max(u)], TRUE)]
    OBVIOUS
  <1>2. \A f, u : FoldStep("write", s, chars, f, u)
                   = IF u = {} THEN s ELSE WriteChar(f[u \ {Max(u)}], chars[Max(u)], TRUE)
    BY DEF FoldStep, Does
  <1>3. \E f : f = [u \in SUBSET DOMAIN chars |-> IF u = {} THEN s
                    ELSE WriteChar(f[u \ {Max(u)}], chars[Max(u)], TRUE)]
    <2>1. PICK f : Folds("write", s, chars, f, SUBSET (1..n))
      BY FoldsExist
    <2>2. f = [u \in SUBSET DOMAIN chars |-> IF u = {} THEN s
               ELSE WriteChar(f[u \ {Max(u)}], chars[Max(u)], TRUE)]
      BY <2>1, <1>2 DEF Folds
    <2> QED BY <2>2, Zenon
  <1>4. g = [u \in SUBSET DOMAIN chars |-> IF u = {} THEN s
             ELSE WriteChar(g[u \ {Max(u)}], chars[Max(u)], TRUE)]
    BY <1>1, <1>3, Zenon
  <1>5. WriteAll(s, chars) = g[DOMAIN chars]
    BY <1>1, Zenon DEF WriteAll, FoldLeft, MapThenFoldSet
  <1>6. Folds("write", s, chars, g, SUBSET (1..n))
    BY <1>2, <1>4 DEF Folds
  <1>7. PICK h : Goes("write", s, chars, n, h) /\ h[n] = g[1..n]
    BY <1>6, Course
  <1> QED BY <1>5, <1>7

(* The characters that a line shows. *)
LEMMA TextCourse ==
  ASSUME NEW chars, NEW n \in Nat, DOMAIN chars = 1..n
  PROVE  \E h : Goes("show", <<>>, chars, n, h) /\ Text(chars) = h[n]
  <1>0. PICK s : s = <<>>
    OBVIOUS
  <1>1. PICK g : g = CHOOSE f : f = [u \in SUBSET DOMAIN chars |-> IF u = {} THEN s
                                     ELSE (f[u \ {Max(u)}]) \o Shown(chars[Max(u)])]
    OBVIOUS
  <1>2. \A f, u : FoldStep("show", s, chars, f, u)
                   = IF u = {} THEN s ELSE (f[u \ {Max(u)}]) \o Shown(chars[Max(u)])
    BY DEF FoldStep, Does
  <1>3. \E f : f = [u \in SUBSET DOMAIN chars |-> IF u = {} THEN s
                    ELSE (f[u \ {Max(u)}]) \o Shown(chars[Max(u)])]
    <2>1. PICK f : Folds("show", s, chars, f, SUBSET (1..n))
      BY FoldsExist
    <2>2. f = [u \in SUBSET DOMAIN chars |-> IF u = {} THEN s
               ELSE (f[u \ {Max(u)}]) \o Shown(chars[Max(u)])]
      BY <2>1, <1>2 DEF Folds
    <2> QED BY <2>2, Zenon
  <1>4. g = [u \in SUBSET DOMAIN chars |-> IF u = {} THEN s
             ELSE (g[u \ {Max(u)}]) \o Shown(chars[Max(u)])]
    BY <1>1, <1>3, Zenon
  <1>5. Text(chars) = g[DOMAIN chars]
    BY <1>0, <1>1, Zenon DEF Text, FoldLeft, MapThenFoldSet
  <1>6. Folds("show", s, chars, g, SUBSET (1..n))
    BY <1>2, <1>4 DEF Folds
  <1>7. PICK h : Goes("show", s, chars, n, h) /\ h[n] = g[1..n]
    BY <1>6, Course
  <1> QED BY <1>0, <1>5, <1>7

Blanks(s, chars) == FoldLeft(LAMBDA t, i : NewLine(t), s, chars)

LEMMA BlanksCourse ==
  ASSUME NEW s, NEW chars, NEW n \in Nat, DOMAIN chars = 1..n
  PROVE  \E h : Goes("blank", s, chars, n, h) /\ Blanks(s, chars) = h[n]
  <1>1. PICK g : g = CHOOSE f : f = [u \in SUBSET DOMAIN chars |-> IF u = {} THEN s
                                     ELSE NewLine(f[u \ {Max(u)}])]
    OBVIOUS
  <1>2. \A f, u : FoldStep("blank", s, chars, f, u)
                   = IF u = {} THEN s ELSE NewLine(f[u \ {Max(u)}])
    BY DEF FoldStep, Does
  <1>3. \E f : f = [u \in SUBSET DOMAIN chars |-> IF u = {} THEN s
                    ELSE NewLine(f[u \ {Max(u)}])]
    <2>1. PICK f : Folds("blank", s, chars, f, SUBSET (1..n))
      BY FoldsExist
    <2>2. f = [u \in SUBSET DOMAIN chars |-> IF u = {} THEN s
               ELSE NewLine(f[u \ {Max(u)}])]
      BY <2>1, <1>2 DEF Folds
    <2> QED BY <2>2, Zenon
  <1>4. g = [u \in SUBSET DOMAIN chars |-> IF u = {} THEN s
             ELSE NewLine(g[u \ {Max(u)}])]
    BY <1>1, <1>3, Zenon
  <1>5. Blanks(s, chars) = g[DOMAIN chars]
    BY <1>1, Zenon DEF Blanks, FoldLeft, MapThenFoldSet
  <1>6. Folds("blank", s, chars, g, SUBSET (1..n))
    BY <1>2, <1>4 DEF Folds
  <1>7. PICK h : Goes("blank", s, chars, n, h) /\ h[n] = g[1..n]
    BY <1>6, Course
  <1> QED BY <1>5, <1>7

(* A fold stays within a set that no step of it leaves.                     *)
LEMMA StaysWithin ==
  ASSUME NEW kind, NEW s, NEW chars, NEW n \in Nat, NEW h, Goes(kind, s, chars, n, h),
         NEW A, s \in A, \A i \in 1..n : \A t \in A : Does(kind, t, chars[i]) \in A
  PROVE  h[n] \in A
  <1> DEFINE Bad == {i \in 0..n : h[i] \notin A}
  <1>1. Bad = {}
    <2> SUFFICES ASSUME Bad # {} PROVE FALSE
      OBVIOUS
    <2>0. Bad \in SUBSET Nat
      OBVIOUS
    <2>1. PICK i \in Bad : \A l \in Bad : i <= l
      BY <2>0, Least
    <2>2. i # 0
      BY DEF Goes
    <2>3. i \in 1..n /\ i - 1 \in 0..n /\ i - 1 \notin Bad
      BY <2>1, <2>2
    <2>4. h[i] = Does(kind, h[i - 1], chars[i]) /\ h[i - 1] \in A
      BY <2>3 DEF Goes
    <2> QED BY <2>3, <2>4
  <1> QED BY <1>1

-----------------------------------------------------------------------------
(* Screens of the glyphs G: nothing is behind the last row.  On a tidy one  *)
(* the cursor is nowhere but at the next position, on a bare one nowhere.   *)
Cells == (0..SCREEN_HEIGHT) \X Column
Screens(G) == {s \in [cell : [Cells -> G], x : Column, y : 0..SCREEN_HEIGHT] :
                 /\ s.y = SCREEN_HEIGHT => s.x = 0
                 /\ \A j \in Column : s.cell[<<SCREEN_HEIGHT, j>>] = Blank}
Tidy(G) == {s \in Screens(G) : \A p \in Cells : s.cell[p] = CursorChar => p = <<s.y, s.x>>}
Bare(G) == Screens(G \ {CursorChar})

Scrolled(s) == IF s.y = SCREEN_HEIGHT THEN ScrollUp(s) ELSE s
Drawn(s, c) == [s EXCEPT !.cell[<<s.y, s.x>>] = c]

LEMMA WriteIs ==
  ASSUME NEW s, NEW c
  PROVE  /\ WriteChar(s, c, TRUE) = GoNextPosition(Drawn(Scrolled(s), c))
         /\ WriteChar(s, c, FALSE) = Drawn(Scrolled(s), c)
  BY DEF WriteChar, Drawn, Scrolled

LEMMA Bares ==
  ASSUME NEW G
  PROVE  Bare(G) \subseteq Tidy(G) /\ Tidy(G) \subseteq Screens(G)
  <1>1. ASSUME NEW s \in Bare(G)
        PROVE  s \in Tidy(G)
    <2>1. s.cell \in [Cells -> G] /\ \A p \in Cells : s.cell[p] # CursorChar
      BY DEF Bare, Screens
    <2>2. s \in [cell : [Cells -> G], x : Column, y : 0..SCREEN_HEIGHT]
      BY <2>1 DEF Bare, Screens
    <2> QED BY <2>1, <2>2 DEF Bare, Screens, Tidy
  <1> QED BY <1>1 DEF Tidy

LEMMA ScrollIs ==
  ASSUME NEW G, Blank \in G, NEW s \in Screens(G), s.y = SCREEN_HEIGHT
  PROVE  /\ ScrollUp(s) \in [cell : [Cells -> G], x : Column, y : 0..SCREEN_HEIGHT]
         /\ ScrollUp(s).x = 0 /\ ScrollUp(s).y = SCREEN_HEIGHT - 1
         /\ \A i \in 0..SCREEN_HEIGHT, j \in Column :
              ScrollUp(s).cell[<<i, j>>] = IF i < SCREEN_HEIGHT - 1 THEN s.cell[<<i + 1, j>>] ELSE Blank
  <1>1. s \in [cell : [Cells -> G], x : Column, y : 0..SCREEN_HEIGHT] /\ DOMAIN s.cell = Cells
        /\ s.x = 0 /\ SCREEN_HEIGHT \in Nat \ {0}
    BY ScreenAssumption DEF Screens
  <1> DEFINE new == [p \in Cells |-> IF p[1] < SCREEN_HEIGHT - 1 THEN s.cell[<<p[1] + 1, p[2]>>]
                                     ELSE IF p[1] = SCREEN_HEIGHT - 1 THEN Blank
                                     ELSE s.cell[p]]
  <1>2. ScrollUp(s) = [s EXCEPT !.cell = new, !.y = s.y - 1]
    BY <1>1 DEF ScrollUp
  <1>3. \A i \in 0..SCREEN_HEIGHT, j \in Column :
          /\ <<i, j>> \in Cells
          /\ new[<<i, j>>] = IF i < SCREEN_HEIGHT - 1 THEN s.cell[<<i + 1, j>>]
                             ELSE IF i = SCREEN_HEIGHT - 1 THEN Blank ELSE s.cell[<<i, j>>]
    BY DEF Cells
  <1>4. \A j \in Column : s.cell[<<SCREEN_HEIGHT, j>>] = Blank
    BY DEF Screens
  <1>5. \A i \in 0..SCREEN_HEIGHT, j \in Column :
          new[<<i, j>>] = IF i < SCREEN_HEIGHT - 1 THEN s.cell[<<i + 1, j>>] ELSE Blank
    <2> TAKE i \in 0..SCREEN_HEIGHT, j \in Column
    <2>1. i < SCREEN_HEIGHT - 1 \/ i = SCREEN_HEIGHT - 1 \/ i = SCREEN_HEIGHT
      BY <1>1
    <2>2. i = SCREEN_HEIGHT => ~(i < SCREEN_HEIGHT - 1) /\ i # SCREEN_HEIGHT - 1
      BY <1>1
    <2> QED BY <1>3, <1>4, <2>1, <2>2
  <1>6. \A p \in Cells : new[p] \in G
    <2> TAKE p \in Cells
    <2>1. PICK i \in 0..SCREEN_HEIGHT, j \in Column : p = <<i, j>>
      BY DEF Cells
    <2>2. i < SCREEN_HEIGHT - 1 => i + 1 \in 0..SCREEN_HEIGHT
      BY <1>1
    <2>3. i < SCREEN_HEIGHT - 1 => <<i + 1, j>> \in Cells
      BY <2>2 DEF Cells
    <2> QED BY <1>1, <1>5, <2>1, <2>3
  <1>7. new \in [Cells -> G]
    BY <1>6
  <1> HIDE DEF new
  <1>8. ScrollUp(s).cell = new /\ ScrollUp(s).x = s.x /\ ScrollUp(s).y = s.y - 1
    BY <1>1, <1>2
  <1>9. ScrollUp(s) \in [cell : [Cells -> G], x : Column, y : 0..SCREEN_HEIGHT]
    <2>1. s.y - 1 \in 0..SCREEN_HEIGHT
      BY <1>1
    <2> QED BY <1>1, <1>2, <1>7, <2>1
  <1> QED BY <1>1, <1>5, <1>8, <1>9

LEMMA ScrolledKeeps ==
  ASSUME NEW G, Blank \in G, NEW s \in Screens(G)
  PROVE  /\ Scrolled(s) \in Screens(G) /\ Scrolled(s).y \in Row
         /\ Scrolled(s).x = s.x
         /\ s.y # SCREEN_HEIGHT => Scrolled(s).y = s.y
         /\ s \in Tidy(G) => Scrolled(s) \in Tidy(G)
  <1>1. CASE s.y # SCREEN_HEIGHT
    BY <1>1, ScreenAssumption DEF Scrolled, Screens, Row
  <1>2. CASE s.y = SCREEN_HEIGHT
    <2>1. PICK t : t = ScrollUp(s)
      OBVIOUS
    <2>2. /\ t \in [cell : [Cells -> G], x : Column, y : 0..SCREEN_HEIGHT]
          /\ t.x = 0 /\ t.y = SCREEN_HEIGHT - 1
          /\ \A i \in 0..SCREEN_HEIGHT, j \in Column :
               t.cell[<<i, j>>] = IF i < SCREEN_HEIGHT - 1 THEN s.cell[<<i + 1, j>>] ELSE Blank
      BY <1>2, <2>1, ScrollIs
    <2>3. Scrolled(s) = t /\ s.x = 0 /\ SCREEN_HEIGHT \in Nat \ {0}
      BY <1>2, <2>1, ScreenAssumption DEF Scrolled, Screens
    <2>4. t \in Screens(G) /\ t.y \in Row
      <3>1. SCREEN_HEIGHT \in 0..SCREEN_HEIGHT /\ ~(SCREEN_HEIGHT < SCREEN_HEIGHT - 1)
            /\ SCREEN_HEIGHT - 1 # SCREEN_HEIGHT /\ SCREEN_HEIGHT - 1 \in Row
        BY <2>3 DEF Row
      <3>2. \A j \in Column : t.cell[<<SCREEN_HEIGHT, j>>] = Blank
        BY <2>2, <3>1
      <3> QED BY <2>2, <3>1, <3>2 DEF Screens
    <2>5. ASSUME s \in Tidy(G)
          PROVE  t \in Tidy(G)
      <3>1. ASSUME NEW i \in 0..SCREEN_HEIGHT, NEW j \in Column
            PROVE  s.cell[<<i, j>>] # CursorChar
        <4>1. s.cell[<<SCREEN_HEIGHT, 0>>] = Blank
          BY ScreenAssumption DEF Screens, Column
        <4>2. s.cell[<<i, j>>] = CursorChar => <<i, j>> = <<SCREEN_HEIGHT, 0>>
          BY <1>2, <2>3, <2>5 DEF Tidy, Cells
        <4> QED BY <4>1, <4>2 DEF Blank, CursorChar
      <3>2. ASSUME NEW p \in Cells
            PROVE  t.cell[p] # CursorChar
        <4>1. PICK i \in 0..SCREEN_HEIGHT, j \in Column : p = <<i, j>>
          BY DEF Cells
        <4>2. i < SCREEN_HEIGHT - 1 => i + 1 \in 0..SCREEN_HEIGHT
          BY <2>3
        <4>3. t.cell[p] = IF i < SCREEN_HEIGHT - 1 THEN s.cell[<<i + 1, j>>] ELSE Blank
          BY <2>2, <4>1
        <4> QED BY <3>1, <4>2, <4>3 DEF Blank, CursorChar
      <3> QED BY <2>4, <3>2 DEF Tidy
    <2> QED BY <1>2, <2>2, <2>3, <2>4, <2>5
  <1> QED BY <1>1, <1>2

LEMMA DrawnIs ==
  ASSUME NEW G, NEW s \in Screens(G), s.y \in Row, NEW c \in G
  PROVE  /\ Drawn(s, c) \in Screens(G)
         /\ Drawn(s, c).x = s.x /\ Drawn(s, c).y = s.y
         /\ \A p \in Cells : Drawn(s, c).cell[p] = IF p = <<s.y, s.x>> THEN c ELSE s.cell[p]
  <1>1. s \in [cell : [Cells -> G], x : Column, y : 0..SCREEN_HEIGHT] /\ s.x \in Column
    BY DEF Screens
  <1>2. \A j \in Column : <<SCREEN_HEIGHT, j>> \in Cells /\ <<SCREEN_HEIGHT, j>> # <<s.y, s.x>>
    BY ScreenAssumption DEF Cells, Row
  <1> DEFINE new == [s.cell EXCEPT ![<<s.y, s.x>>] = c]
  <1>3. new \in [Cells -> G]
        /\ \A p \in Cells : new[p] = IF p = <<s.y, s.x>> THEN c ELSE s.cell[p]
    BY <1>1
  <1>4. Drawn(s, c) = [s EXCEPT !.cell = new]
    BY <1>1 DEF Drawn
  <1> HIDE DEF new
  <1>5. /\ Drawn(s, c) \in [cell : [Cells -> G], x : Column, y : 0..SCREEN_HEIGHT]
        /\ Drawn(s, c).cell = new /\ Drawn(s, c).x = s.x /\ Drawn(s, c).y = s.y
    BY <1>1, <1>3, <1>4
  <1>6. \A j \in Column : new[<<SCREEN_HEIGHT, j>>] = Blank
    BY <1>2, <1>3 DEF Screens
  <1> QED BY <1>3, <1>5, <1>6 DEF Screens

LEMMA NextIs ==
  ASSUME NEW G, NEW s \in Screens(G), s.y \in Row
  PROVE  /\ GoNextPosition(s) \in Screens(G)
         /\ GoNextPosition(s).cell = s.cell
         /\ GoNextPosition(s).x = IF s.x = SCREEN_WIDTH - 1 THEN 0 ELSE s.x + 1
         /\ GoNextPosition(s).y = IF s.x = SCREEN_WIDTH - 1 THEN s.y + 1 ELSE s.y
  <1>1. s \in [cell : [Cells -> G], x : Column, y : 0..SCREEN_HEIGHT]
        /\ SCREEN_HEIGHT \in Nat \ {0} /\ SCREEN_WIDTH \in Nat \ {0, 1}
        /\ \A j \in Column : s.cell[<<SCREEN_HEIGHT, j>>] = Blank
    BY ScreenAssumption DEF Screens
  <1>2. CASE s.x = SCREEN_WIDTH - 1
    <2>1. 0 \in Column /\ s.y + 1 \in 0..SCREEN_HEIGHT
      BY <1>1 DEF Column, Row
    <2>2. GoNextPosition(s) = [s EXCEPT !.x = 0, !.y = s.y + 1]
      BY <1>2, <1>1 DEF GoNextPosition
    <2> QED BY <1>1, <1>2, <2>1, <2>2 DEF Screens
  <1>3. CASE s.x # SCREEN_WIDTH - 1
    <2>1. s.x + 1 \in Column /\ s.y # SCREEN_HEIGHT
      BY <1>1, <1>3 DEF Column, Row
    <2>2. GoNextPosition(s) = [s EXCEPT !.x = s.x + 1]
      BY <1>3, <1>1 DEF GoNextPosition
    <2> QED BY <1>1, <1>3, <2>1, <2>2 DEF Screens
  <1> QED BY <1>2, <1>3

LEMMA WriteKeeps ==
  ASSUME NEW G, Blank \in G, NEW c \in G, NEW next \in BOOLEAN, NEW s \in Screens(G)
  PROVE  WriteChar(s, c, next) \in Screens(G)
  <1>1. PICK t : t = Scrolled(s)
    OBVIOUS
  <1>2. t \in Screens(G) /\ t.y \in Row
    BY <1>1, ScrolledKeeps
  <1>3. PICK u : u = Drawn(t, c)
    OBVIOUS
  <1>4. u \in Screens(G) /\ u.y \in Row
    BY <1>2, <1>3, DrawnIs
  <1>5. GoNextPosition(u) \in Screens(G)
    BY <1>4, NextIs
  <1> QED BY <1>1, <1>3, <1>4, <1>5, WriteIs

LEMMA DrawTidy ==
  ASSUME NEW G, Blank \in G, NEW c \in G, NEW s \in Tidy(G)
  PROVE  /\ DrawCursor(s, c) \in Tidy(G)
         /\ c # CursorChar => DrawCursor(s, c) \in Bare(G)
  <1>0. s \in Screens(G)
    BY DEF Tidy
  <1>1. PICK t : t = Scrolled(s)
    OBVIOUS
  <1>2. t \in Screens(G) /\ t.y \in Row /\ t \in Tidy(G)
    BY <1>0, <1>1, ScrolledKeeps
  <1>3. PICK u : u = Drawn(t, c)
    OBVIOUS
  <1>4. /\ u \in Screens(G) /\ u.x = t.x /\ u.y = t.y
        /\ \A p \in Cells : u.cell[p] = IF p = <<t.y, t.x>> THEN c ELSE t.cell[p]
    BY <1>2, <1>3, DrawnIs
  <1>5. \A p \in Cells : u.cell[p] = CursorChar => p = <<t.y, t.x>> /\ c = CursorChar
    BY <1>2, <1>4 DEF Tidy
  <1>6. u \in Tidy(G)
    BY <1>4, <1>5 DEF Tidy
  <1>7. ASSUME c # CursorChar
        PROVE  u \in Bare(G)
    <2>1. u.cell \in [Cells -> G] /\ \A p \in Cells : u.cell[p] # CursorChar
      BY <1>4, <1>5, <1>7 DEF Screens
    <2>2. u.cell \in [Cells -> G \ {CursorChar}]
      BY <2>1
    <2> QED BY <1>4, <2>2 DEF Screens, Bare
  <1>8. DrawCursor(s, c) = u
    BY <1>1, <1>3, WriteIs DEF DrawCursor
  <1> QED BY <1>6, <1>7, <1>8

LEMMA WriteWipes ==
  ASSUME NEW G, Blank \in G, NEW c \in G, c # CursorChar, NEW next \in BOOLEAN, NEW s \in Tidy(G)
  PROVE  WriteChar(s, c, next) \in Bare(G)
  <1>1. PICK u : u = Drawn(Scrolled(s), c)
    OBVIOUS
  <1>2. u \in Bare(G)
    BY <1>1, DrawTidy, WriteIs DEF DrawCursor
  <1>3. u.y \in Row
    <2>1. PICK t : t = Scrolled(s)
      OBVIOUS
    <2>2. t \in Screens(G) /\ t.y \in Row
      BY <2>1, ScrolledKeeps DEF Tidy
    <2> QED BY <1>1, <2>1, <2>2, DrawnIs
  <1>4. GoNextPosition(u) \in Bare(G)
    BY <1>2, <1>3, NextIs DEF Bare
  <1> QED BY <1>1, <1>2, <1>4, WriteIs

(* The place before the next position, where deleteChar goes.               *)
Back(s) == IF s.x > 0 THEN [s EXCEPT !.x = s.x - 1]
           ELSE [s EXCEPT !.x = SCREEN_WIDTH - 1, !.y = s.y - 1]

LEMMA DeleteIs ==
  ASSUME NEW G, NEW s \in Screens(G)
  PROVE  DeleteChar(s) = IF s.x > 0 \/ s.y > 0 THEN WriteChar(Back(s), Blank, FALSE) ELSE s
  <1>1. s \in [cell : [Cells -> G], x : Column, y : 0..SCREEN_HEIGHT]
    BY DEF Screens
  <1> QED BY <1>1 DEF DeleteChar, Back

LEMMA BackIs ==
  ASSUME NEW G, NEW s \in Screens(G), s.x > 0 \/ s.y > 0
  PROVE  /\ Back(s) \in Screens(G) /\ Back(s).cell = s.cell /\ Back(s).y \in Row
         /\ Back(s).x = IF s.x > 0 THEN s.x - 1 ELSE SCREEN_WIDTH - 1
         /\ Back(s).y = IF s.x > 0 THEN s.y ELSE s.y - 1
  <1>1. s \in [cell : [Cells -> G], x : Column, y : 0..SCREEN_HEIGHT]
        /\ SCREEN_HEIGHT \in Nat \ {0} /\ SCREEN_WIDTH \in Nat \ {0, 1}
        /\ (s.y = SCREEN_HEIGHT => s.x = 0)
        /\ \A j \in Column : s.cell[<<SCREEN_HEIGHT, j>>] = Blank
    BY ScreenAssumption DEF Screens
  <1>2. CASE s.x > 0
    <2>1. s.x - 1 \in Column /\ s.y # SCREEN_HEIGHT /\ s.y \in Row
      BY <1>1, <1>2 DEF Column, Row
    <2>2. Back(s) = [s EXCEPT !.x = s.x - 1]
      BY <1>2 DEF Back
    <2> QED BY <1>1, <1>2, <2>1, <2>2 DEF Screens
  <1>3. CASE ~(s.x > 0)
    <2>1. SCREEN_WIDTH - 1 \in Column /\ s.y - 1 \in 0..SCREEN_HEIGHT /\ s.y - 1 # SCREEN_HEIGHT
          /\ s.y - 1 \in Row
      BY <1>1, <1>3 DEF Column, Row
    <2>2. Back(s) = [s EXCEPT !.x = SCREEN_WIDTH - 1, !.y = s.y - 1]
      BY <1>3 DEF Back
    <2> QED BY <1>1, <1>3, <2>1, <2>2 DEF Screens
  <1> QED BY <1>2, <1>3

LEMMA DeleteKeeps ==
  ASSUME NEW G, Blank \in G, NEW s \in Screens(G)
  PROVE  DeleteChar(s) \in Screens(G)
  <1>1. CASE s.x > 0 \/ s.y > 0
    <2>1. PICK t : t = Back(s)
      OBVIOUS
    <2>2. t \in Screens(G)
      BY <1>1, <2>1, BackIs
    <2> QED BY <1>1, <2>1, <2>2, WriteKeeps, DeleteIs
  <1>2. CASE ~(s.x > 0 \/ s.y > 0)
    BY <1>2, DeleteIs
  <1> QED BY <1>1, <1>2

LEMMA WriteAllKeeps ==
  ASSUME NEW G, Blank \in G, NEW s \in Screens(G), NEW chars, NEW n \in Nat, DOMAIN chars = 1..n,
         \A i \in 1..n : chars[i] \in G
  PROVE  /\ WriteAll(s, chars) \in Screens(G)
         /\ s \in Tidy(G) /\ n > 0 /\ (\A i \in 1..n : chars[i] # CursorChar)
              => WriteAll(s, chars) \in Bare(G)
  <1>1. PICK h : Goes("write", s, chars, n, h) /\ WriteAll(s, chars) = h[n]
    BY WriteAllCourse
  <1>2. \A t, c : Does("write", t, c) = WriteChar(t, c, TRUE)
    BY DEF Does
  <1>3. \A i \in 1..n : \A t \in Screens(G) : Does("write", t, chars[i]) \in Screens(G)
    BY <1>2, WriteKeeps
  <1>4. h[n] \in Screens(G)
    BY <1>1, <1>3, StaysWithin
  <1>5. ASSUME s \in Tidy(G), n > 0, \A i \in 1..n : chars[i] # CursorChar
        PROVE  h[n] \in Bare(G)
    <2> DEFINE Bad == {i \in 1..n : h[i] \notin Bare(G)}
    <2>1. Bad = {}
      <3> SUFFICES ASSUME Bad # {} PROVE FALSE
        OBVIOUS
      <3>0. Bad \in SUBSET Nat
        OBVIOUS
      <3>1. PICK i \in Bad : \A l \in Bad : i <= l
        BY <3>0, Least
      <3>2. i \in 1..n /\ h[i] = WriteChar(h[i - 1], chars[i], TRUE)
        BY <1>1, <1>2 DEF Goes
      <3>3. h[i - 1] \in Tidy(G)
        <4>1. CASE i = 1
          BY <1>1, <1>5, <4>1 DEF Goes
        <4>2. CASE i # 1
          <5>1. i - 1 \in 1..n /\ i - 1 \notin Bad
            BY <3>1, <3>2, <4>2
          <5> QED BY <5>1, Bares
        <4> QED BY <4>1, <4>2
      <3>4. PICK t : t = h[i - 1]
        OBVIOUS
      <3>5. WriteChar(t, chars[i], TRUE) \in Bare(G)
        BY <1>5, <3>2, <3>3, <3>4, WriteWipes
      <3> QED BY <3>1, <3>2, <3>4, <3>5
    <2>2. n \in 1..n
      BY <1>5
    <2> QED BY <2>1, <2>2
  <1> QED BY <1>1, <1>4, <1>5

LEMMA NewLineKeeps ==
  ASSUME NEW G, Blank \in G, NEW s \in Screens(G)
  PROVE  /\ NewLine(s) \in Screens(G)
         /\ s \in Tidy(G) => NewLine(s) \in Bare(G)
  <1>1. SCREEN_WIDTH - s.x \in Nat /\ SCREEN_WIDTH - s.x > 0
    BY ScreenAssumption DEF Screens, Column
  <1>2. PICK n \in Nat : n = SCREEN_WIDTH - s.x
    BY <1>1
  <1>3. PICK chars : chars = [i \in 1..n |-> Blank]
    OBVIOUS
  <1>4. NewLine(s) = WriteAll(s, chars) /\ DOMAIN chars = 1..n /\ \A i \in 1..n : chars[i] = Blank
    BY <1>2, <1>3 DEF NewLine
  <1>5. Blank # CursorChar
    BY DEF Blank, CursorChar
  <1>6. \A i \in 1..n : chars[i] \in G /\ chars[i] # CursorChar
    BY <1>4, <1>5
  <1> QED BY <1>1, <1>2, <1>4, <1>6, WriteAllKeeps

LEMMA PrintIs ==
  ASSUME NEW s, NEW c
  PROVE  /\ c = Backspace => PrintChar(s, c) = DeleteChar(s)
         /\ c = NewLineChar => PrintChar(s, c) = NewLine(Scrolled(s)) /\ c \notin {Backspace, CursorChar}
         /\ c = Tab => PrintChar(s, c) = WriteAll(Scrolled(s), <<Blank, Blank>>)
         /\ c \notin {Backspace, NewLineChar, Tab} => PrintChar(s, c) = WriteChar(Scrolled(s), c, TRUE)
  BY DEF PrintChar, Scrolled, Backspace, NewLineChar, Tab, CursorChar

LEMMA PrintCharKeeps ==
  ASSUME NEW G, Blank \in G, NEW s \in Screens(G), NEW c \in G
  PROVE  /\ PrintChar(s, c) \in Screens(G)
         /\ s \in Tidy(G) /\ c \notin {Backspace, CursorChar} => PrintChar(s, c) \in Bare(G)
  <1>1. PICK t : t = Scrolled(s)
    OBVIOUS
  <1>2. t \in Screens(G) /\ (s \in Tidy(G) => t \in Tidy(G))
    BY <1>1, ScrolledKeeps
  <1>3. /\ c = Backspace => PrintChar(s, c) = DeleteChar(s)
        /\ c = NewLineChar => PrintChar(s, c) = NewLine(t) /\ c \notin {Backspace, CursorChar}
        /\ c = Tab => PrintChar(s, c) = WriteAll(t, <<Blank, Blank>>)
        /\ c \notin {Backspace, NewLineChar, Tab} => PrintChar(s, c) = WriteChar(t, c, TRUE)
    BY <1>1, PrintIs
  <1>4. CASE c = Backspace
    BY <1>3, <1>4, DeleteKeeps
  <1>5. CASE c = NewLineChar
    BY <1>2, <1>3, <1>5, NewLineKeeps
  <1>6. CASE c = Tab
    <2>1. PICK chars : chars = <<Blank, Blank>>
      OBVIOUS
    <2>2. DOMAIN chars = 1..2 /\ \A i \in 1..2 : chars[i] = Blank
      BY <2>1
    <2>3. PrintChar(s, c) = WriteAll(t, chars)
      BY <1>3, <1>6, <2>1
    <2>4. Blank # CursorChar
      BY DEF Blank, CursorChar
    <2>5. \A i \in 1..2 : chars[i] \in G /\ chars[i] # CursorChar
      BY <2>2, <2>4
    <2>6. PICK n \in Nat : n = 2
      OBVIOUS
    <2>7. DOMAIN chars = 1..n /\ n > 0 /\ \A i \in 1..n : chars[i] \in G /\ chars[i] # CursorChar
      BY <2>2, <2>5, <2>6
    <2> QED BY <1>2, <2>3, <2>7, WriteAllKeeps
  <1>7. CASE c \notin {Backspace, NewLineChar, Tab}
    BY <1>2, <1>3, <1>7, WriteKeeps, WriteWipes
  <1> QED BY <1>4, <1>5, <1>6, <1>7

LEMMA PrintAllKeeps ==
  ASSUME NEW G, Blank \in G, NEW s \in Screens(G), NEW chars, NEW n \in Nat, DOMAIN chars = 1..n,
         \A i \in 1..n : chars[i] \in G
  PROVE  /\ PrintAll(s, chars) \in Screens(G)
         /\ s \in Tidy(G) /\ (\A i \in 1..n : chars[i] \notin {Backspace, CursorChar})
              => PrintAll(s, chars) \in Tidy(G)
  <1>1. PICK h : Goes("print", s, chars, n, h) /\ PrintAll(s, chars) = h[n]
    BY PrintAllCourse
  <1>2. \A t, c : Does("print", t, c) = PrintChar(t, c)
    BY DEF Does
  <1>3. \A i \in 1..n : \A t \in Screens(G) : Does("print", t, chars[i]) \in Screens(G)
    BY <1>2, PrintCharKeeps
  <1>4. h[n] \in Screens(G)
    BY <1>1, <1>3, StaysWithin
  <1>5. ASSUME s \in Tidy(G), \A i \in 1..n : chars[i] \notin {Backspace, CursorChar}
        PROVE  h[n] \in Tidy(G)
    <2>1. \A i \in 1..n : \A t \in Tidy(G) : Does("print", t, chars[i]) \in Tidy(G)
      BY <1>2, <1>5, PrintCharKeeps, Bares
    <2> QED BY <1>1, <1>5, <2>1, StaysWithin
  <1> QED BY <1>1, <1>4, <1>5

LEMMA ClearKeeps ==
  ASSUME NEW G, Blank \in G, NEW s \in Screens(G)
  PROVE  ClearScreen(s) \in Screens(G)
  <1>1. PICK n \in Nat : n = SCREEN_HEIGHT + 1
    BY ScreenAssumption
  <1>2. PICK chars : chars = [i \in 1..n |-> i]
    OBVIOUS
  <1>3. PICK t : t = [s EXCEPT !.x = 0, !.y = 0]
    OBVIOUS
  <1>4. PICK h : Goes("blank", t, chars, n, h) /\ Blanks(t, chars) = h[n]
    <2>1. DOMAIN chars = 1..n
      BY <1>2
    <2> QED BY <2>1, BlanksCourse
  <1>5. ClearScreen(s) = [h[n] EXCEPT !.x = 0, !.y = 0]
    BY <1>1, <1>2, <1>3, <1>4, Zenon DEF ClearScreen, Blanks
  <1>6. \A u \in Screens(G) : [u EXCEPT !.x = 0, !.y = 0] \in Screens(G)
    <2> TAKE u \in Screens(G)
    <2>1. 0 \in Column /\ 0 \in 0..SCREEN_HEIGHT
      BY ScreenAssumption DEF Column
    <2>2. u \in [cell : [Cells -> G], x : Column, y : 0..SCREEN_HEIGHT]
          /\ \A j \in Column : u.cell[<<SCREEN_HEIGHT, j>>] = Blank
      BY DEF Screens
    <2>3. PICK v : v = [u EXCEPT !.x = 0, !.y = 0]
      OBVIOUS
    <2>4. v \in [cell : [Cells -> G], x : Column, y : 0..SCREEN_HEIGHT] /\ v.cell = u.cell /\ v.x = 0
      BY <2>1, <2>2, <2>3
    <2>5. v \in Screens(G)
      BY <2>2, <2>4 DEF Screens
    <2> QED BY <2>3, <2>5
  <1>7. \A u, c : Does("blank", u, c) = NewLine(u)
    BY DEF Does
  <1>8. \A i \in 1..n : \A u \in Screens(G) : Does("blank", u, chars[i]) \in Screens(G)
    BY <1>7, NewLineKeeps
  <1>9. h[n] \in Screens(G)
    <2>1. t \in Screens(G)
      BY <1>3, <1>6
    <2> QED BY <1>4, <1>8, <2>1, StaysWithin
  <1> QED BY <1>5, <1>6, <1>9

-----------------------------------------------------------------------------
(* Semaphores.  Nobody waits twice, except idle.                            *)
Distinct(s) == \A i, j \in DOMAIN s.waiters :
                 s.waiters[i] = s.waiters[j] /\ s.waiters[i] # "idle" => i = j

LEMMA MinIs ==
  ASSUME NEW u \in SUBSET Nat, u # {}
  PROVE  Min(u) \in u /\ \A i \in u : Min(u) <= i
  <1>1. PICK i \in u : \A j \in u : i <= j
    BY Least
  <1>2. \E x \in u : \A y \in u : x <= y
    BY <1>1
  <1>3. Min(u) \in u /\ \A y \in u : Min(u) <= y
    BY <1>2, Zenon DEF Min
  <1> QED BY <1>3

LEMMA PostIs ==
  ASSUME NEW s \in Semaphore
  PROVE  \E m \in 0..Len(s.waiters) :
           /\ Post(s) \in Semaphore
           /\ Post(s).waiters = SubSeq(s.waiters, m + 1, Len(s.waiters))
           /\ \/ /\ Resumed(s) = {} /\ Post(s).value = s.value + 1
                 /\ \A i \in 1..m : s.waiters[i] \in Process => state[s.waiters[i]] = "EXITED"
              \/ /\ m > 0 /\ Resumed(s) = {s.waiters[m]} /\ Post(s).value = s.value
                 /\ s.waiters[m] \in Process /\ state[s.waiters[m]] # "EXITED"
                 /\ \A i \in 1..(m - 1) : s.waiters[i] \in Process => state[s.waiters[i]] = "EXITED"
  <1>1. s.value \in Nat /\ s.waiters \in Seq(Process \cup {"idle"})
        /\ s \in [value : Nat, waiters : Seq(Process \cup {"idle"})]
    BY DEF Semaphore
  <1>2. PICK w \in Seq(Process \cup {"idle"}) : w = s.waiters
    BY <1>1
  <1>3. Handover(s) = {i \in 1..Len(w) : w[i] \in Process /\ state[w[i]] # "EXITED"}
        /\ Len(w) \in Nat
    BY <1>2 DEF Handover
  <1>4. CASE Handover(s) = {}
    <2>1. Post(s) = [value |-> s.value + 1, waiters |-> <<>>] /\ Resumed(s) = {}
      BY <1>4 DEF Post, Resumed
    <2>2. SubSeq(w, Len(w) + 1, Len(w)) = <<>>
      BY <1>2
    <2>3. Post(s) \in Semaphore
      BY <1>1, <2>1 DEF Semaphore
    <2>4. \A i \in 1..Len(w) : w[i] \in Process => state[w[i]] = "EXITED"
      BY <1>3, <1>4
    <2>5. Len(w) \in 0..Len(s.waiters)
      BY <1>2, <1>3
    <2> QED BY <1>2, <2>1, <2>2, <2>3, <2>4, <2>5
  <1>5. CASE Handover(s) # {}
    <2>1. Handover(s) \in SUBSET Nat
      BY <1>3
    <2>2. PICK m : m = Min(Handover(s))
      OBVIOUS
    <2>3. m \in Handover(s) /\ \A i \in Handover(s) : m <= i
      BY <1>5, <2>1, <2>2, MinIs
    <2>4. m \in 1..Len(w) /\ w[m] \in Process /\ state[w[m]] # "EXITED"
      BY <1>3, <2>3
    <2>5. Resumed(s) = {w[m]} /\ Post(s) = [s EXCEPT !.waiters = SubSeq(w, m + 1, Len(w))]
      BY <1>2, <1>5, <2>2, <1>1 DEF Post, Resumed
    <2>6. SubSeq(w, m + 1, Len(w)) \in Seq(Process \cup {"idle"})
      BY <1>2, <2>4
    <2>7. Post(s) \in Semaphore /\ Post(s).waiters = SubSeq(w, m + 1, Len(w))
          /\ Post(s).value = s.value
      BY <1>1, <2>5, <2>6 DEF Semaphore
    <2>8. \A i \in 1..(m - 1) : w[i] \in Process => state[w[i]] = "EXITED"
      <3> TAKE i \in 1..(m - 1)
      <3>1. i \in 1..Len(w) /\ ~(m <= i)
        BY <1>3, <2>4
      <3> QED BY <1>3, <2>3, <3>1
    <2>9. m \in 0..Len(s.waiters) /\ m > 0
      BY <1>2, <1>3, <2>4
    <2> QED BY <1>2, <2>4, <2>5, <2>7, <2>8, <2>9
  <1> QED BY <1>4, <1>5

(* A post hands on at most one unit, to one who lives and waits no longer;  *)
(* the others who wait no longer are dead.                                  *)
LEMMA PostReleases ==
  ASSUME NEW s \in Semaphore, Distinct(s)
  PROVE  /\ Post(s) \in Semaphore /\ Distinct(Post(s))
         /\ \A p \in Process \cup {"idle"} : Waits(p, Post(s)) => Waits(p, s)
         /\ \A p \in Process : Waits(p, s) /\ ~Waits(p, Post(s)) => state[p] = "EXITED" \/ p \in Resumed(s)
         /\ \A p \in Resumed(s) : p \in Process /\ state[p] # "EXITED" /\ Waits(p, s) /\ ~Waits(p, Post(s))
         /\ \/ Resumed(s) = {} /\ Post(s).value = s.value + 1
            \/ (\E q \in Process : Resumed(s) = {q}) /\ Post(s).value = s.value
  <1>1. PICK m \in 0..Len(s.waiters) :
           /\ Post(s) \in Semaphore
           /\ Post(s).waiters = SubSeq(s.waiters, m + 1, Len(s.waiters))
           /\ \/ /\ Resumed(s) = {} /\ Post(s).value = s.value + 1
                 /\ \A i \in 1..m : s.waiters[i] \in Process => state[s.waiters[i]] = "EXITED"
              \/ /\ m > 0 /\ Resumed(s) = {s.waiters[m]} /\ Post(s).value = s.value
                 /\ s.waiters[m] \in Process /\ state[s.waiters[m]] # "EXITED"
                 /\ \A i \in 1..(m - 1) : s.waiters[i] \in Process => state[s.waiters[i]] = "EXITED"
    BY PostIs
  <1>2. PICK w, v : w = s.waiters /\ v = Post(s).waiters
    OBVIOUS
  <1>3. w \in Seq(Process \cup {"idle"}) /\ v = SubSeq(w, m + 1, Len(w)) /\ m \in 0..Len(w)
        /\ Len(w) \in Nat
    BY <1>1, <1>2 DEF Semaphore
  <1>4. /\ Len(v) = Len(w) - m /\ DOMAIN v = 1..(Len(w) - m) /\ DOMAIN w = 1..Len(w)
        /\ \A i \in 1..(Len(w) - m) : v[i] = w[i + m] /\ i + m \in 1..Len(w)
    BY <1>3
  <1>5. Distinct(Post(s))
    <2> SUFFICES ASSUME NEW i \in 1..(Len(w) - m), NEW j \in 1..(Len(w) - m), v[i] = v[j], v[i] # "idle"
                 PROVE  i = j
      BY <1>2, <1>4 DEF Distinct
    <2>1. i + m = j + m
      BY <1>2, <1>4 DEF Distinct
    <2> QED BY <1>3, <2>1
  <1>6. \A p : Waits(p, Post(s)) <=> \E i \in (m + 1)..Len(w) : w[i] = p
    <2> TAKE p
    <2>1. ASSUME NEW i \in (m + 1)..Len(w)
          PROVE  i - m \in 1..(Len(w) - m) /\ v[i - m] = w[i]
      <3>1. i - m \in 1..(Len(w) - m) /\ (i - m) + m = i
        BY <1>3
      <3> QED BY <1>4, <3>1
    <2>2. \A i \in 1..(Len(w) - m) : i + m \in (m + 1)..Len(w)
      BY <1>3
    <2>3. Waits(p, Post(s)) <=> \E i \in 1..(Len(w) - m) : w[i + m] = p
      BY <1>2, <1>4 DEF Waits
    <2>4. ASSUME NEW i \in (m + 1)..Len(w), w[i] = p
          PROVE  \E k \in 1..(Len(w) - m) : w[k + m] = p
      BY <1>4, <2>1, <2>4
    <2> QED BY <2>2, <2>3, <2>4
  <1>7. \A p : Waits(p, s) <=> \E i \in 1..Len(w) : w[i] = p
    BY <1>2, <1>4 DEF Waits
  <1>8. \A i \in (m + 1)..Len(w) : i \in 1..Len(w)
    BY <1>3
  <1>9. \A p : Waits(p, s) /\ ~Waits(p, Post(s)) => \E i \in 1..m : w[i] = p
    <2> SUFFICES ASSUME NEW i \in 1..Len(w), ~(i \in (m + 1)..Len(w))
                 PROVE  i \in 1..m
      BY <1>6, <1>7
    <2> QED BY <1>3
  <1>10. CASE Resumed(s) = {} /\ Post(s).value = s.value + 1
              /\ \A i \in 1..m : w[i] \in Process => state[w[i]] = "EXITED"
    BY <1>1, <1>5, <1>6, <1>7, <1>8, <1>9, <1>10
  <1>11. CASE /\ m > 0 /\ Resumed(s) = {w[m]} /\ Post(s).value = s.value
              /\ w[m] \in Process /\ state[w[m]] # "EXITED"
              /\ \A i \in 1..(m - 1) : w[i] \in Process => state[w[i]] = "EXITED"
    <2>1. m \in 1..Len(w) /\ \A i \in 1..m : i = m \/ i \in 1..(m - 1)
      BY <1>3, <1>11
    <2>2. w[m] # "idle"
      BY <1>11, NamesAssumption DEF Process, Reader, Shell, InitProc
    <2>3. \A i \in (m + 1)..Len(w) : w[i] # w[m]
      <3> TAKE i \in (m + 1)..Len(w)
      <3>1. i \in 1..Len(w) /\ i # m
        BY <1>3
      <3> QED BY <1>2, <1>4, <2>1, <2>2, <3>1 DEF Distinct
    <2>4. Waits(w[m], s) /\ ~Waits(w[m], Post(s))
      BY <1>6, <1>7, <2>1, <2>3
    <2>5. \A p \in Process : Waits(p, s) /\ ~Waits(p, Post(s)) => state[p] = "EXITED" \/ p \in Resumed(s)
      BY <1>9, <1>11, <2>1
    <2> QED BY <1>1, <1>5, <1>6, <1>7, <1>8, <1>11, <2>4, <2>5
  <1> QED BY <1>1, <1>2, <1>10, <1>11

LEMMA EnlistedIs ==
  ASSUME NEW s \in Semaphore, Distinct(s), NEW q \in Process \cup {"idle"}, q = "idle" \/ ~Waits(q, s)
  PROVE  /\ Enlisted(s, q) \in Semaphore /\ Distinct(Enlisted(s, q)) /\ Enlisted(s, q).value = s.value
         /\ \A p : Waits(p, Enlisted(s, q)) <=> Waits(p, s) \/ p = q
  <1>1. s.value \in Nat /\ s \in [value : Nat, waiters : Seq(Process \cup {"idle"})]
    BY DEF Semaphore
  <1>2. PICK w \in Seq(Process \cup {"idle"}) : w = s.waiters
    BY <1>1
  <1>3. PICK v : v = Append(w, q)
    OBVIOUS
  <1>4. /\ v \in Seq(Process \cup {"idle"}) /\ Len(w) \in Nat /\ DOMAIN w = 1..Len(w)
        /\ DOMAIN v = 1..(Len(w) + 1) /\ v[Len(w) + 1] = q /\ \A i \in 1..Len(w) : v[i] = w[i]
    BY <1>2, <1>3
  <1>5. Enlisted(s, q) = [s EXCEPT !.waiters = v]
    BY <1>1, <1>2, <1>3 DEF Enlisted
  <1>6. Enlisted(s, q) \in Semaphore /\ Enlisted(s, q).waiters = v /\ Enlisted(s, q).value = s.value
    BY <1>1, <1>4, <1>5 DEF Semaphore
  <1>7. \A i \in 1..(Len(w) + 1) : i = Len(w) + 1 \/ i \in 1..Len(w)
    BY <1>4
  <1>8. \A i \in 1..Len(w) : i \in 1..(Len(w) + 1) /\ Len(w) + 1 \in 1..(Len(w) + 1)
    BY <1>4
  <1>9. Distinct(Enlisted(s, q))
    <2> SUFFICES ASSUME NEW i \in 1..(Len(w) + 1), NEW j \in 1..(Len(w) + 1), v[i] = v[j], v[i] # "idle"
                 PROVE  i = j
      BY <1>4, <1>6 DEF Distinct
    <2>1. q # "idle" => \A k \in 1..Len(w) : w[k] # q
      BY <1>2, <1>4 DEF Waits
    <2>2. CASE i \in 1..Len(w) /\ j \in 1..Len(w)
      BY <1>2, <1>4, <2>2 DEF Distinct
    <2>3. CASE i = Len(w) + 1 \/ j = Len(w) + 1
      BY <1>4, <1>7, <2>1, <2>3
    <2> QED BY <1>7, <2>2, <2>3
  <1>10. Len(w) + 1 \in 1..(Len(w) + 1)
    BY <1>4
  <1>11. \A p : Waits(p, Enlisted(s, q)) <=> Waits(p, s) \/ p = q
    BY <1>2, <1>4, <1>6, <1>7, <1>8, <1>10 DEF Waits
  <1> QED BY <1>6, <1>9, <1>11

LEMMA TakenIs ==
  ASSUME NEW s \in Semaphore, s.value > 0
  PROVE  /\ Taken(s) \in Semaphore /\ Taken(s).value = s.value - 1 /\ Taken(s).waiters = s.waiters
  <1>1. s \in [value : Nat, waiters : Seq(Process \cup {"idle"})] /\ s.value - 1 \in Nat
    BY DEF Semaphore
  <1>2. Taken(s) = [s EXCEPT !.value = s.value - 1]
    BY <1>1 DEF Taken
  <1> QED BY <1>1, <1>2 DEF Semaphore

-----------------------------------------------------------------------------
(* The invariant.                                                           *)

Stdins == [chars : Seq(Char), readSem : Semaphore, writeSem : Semaphore]

(* TypeOK, without the screen; what a reader has got is a character.        *)
Types ==
  /\ {cursorActive, shift, ctrl, clean} \subseteq BOOLEAN
  /\ stdin \in Stdins
  /\ state \in [Process -> {"none", "READY", "BLOCKED", "EXITED"}]
  /\ pending \in [Process -> Char \cup {None}]
  /\ input \in [Reader -> [at : {"idle", "reading", "got"}, char : Char \cup {None}]]
  /\ \A r \in Reader : input[r].at = "got" => input[r].char \in Char
  /\ shell \in [at : {"boot", "prompt", "line", "run", "waitpid", "wait"},
                line : Seq(Char), tabs : SUBSET (0..(BUFFER_LENGTH - 1))]
  /\ Len(shell.line) <= BUFFER_LENGTH
  /\ foreground \subseteq Job
  /\ typed \in 0..MaxTyped /\ idleKeys \in 0..typed /\ printed \in 0..MaxPrinted

(* Who waits for stdin has been stopped in the call or in the handler that  *)
(* waits, and is not there twice.                                           *)
Waiters ==
  /\ Distinct(stdin.readSem) /\ Distinct(stdin.writeSem)
  /\ \A p \in Process \cup {"idle"} : Waits(p, stdin.readSem) =>
       /\ p \in Reader /\ input[p].at = "reading"
       /\ pending[p] = None /\ state[p] \in {"BLOCKED", "EXITED"}
  /\ \A p \in Process : Waits(p, stdin.writeSem) =>
       pending[p] # None /\ state[p] \in {"BLOCKED", "EXITED"}

(* The shell reads a line or waits for the one job in the foreground; only  *)
(* the two of them read.                                                    *)
Lives(p) == state[p] # "EXITED"
Fronts ==
  /\ Lives(Shell)
  /\ \A j \in foreground : Lives(j) =>
       /\ shell.at \in {"waitpid", "wait"}
       /\ shell.at = "wait" =>
            state[Shell] = "BLOCKED" /\ pending[Shell] = None /\ input[Shell].at = "idle"
       /\ \A i \in foreground : Lives(i) => i = j
  /\ input[Shell].at # "idle" => shell.at = "line"
  /\ \A j \in Job : input[j].at # "idle" => j \in foreground

Units == Types /\ Waiters /\ Fronts /\ StdinUnits

(* Whoever has got a character finds no cursor on the screen, and neither   *)
(* does the shell when it starts.                                           *)
Glyph == Char \cup {Prompt[i] : i \in DOMAIN Prompt} \cup {Blank, Star, NewLineChar, CursorChar}
Holds(r) == input[r].at = "got" /\ Lives(r)
Cursor ==
  /\ screen \in Tidy(Glyph)
  /\ \A r \in Reader : Holds(r) => ~cursorActive /\ screen \in Bare(Glyph)
  /\ shell.at = "boot" => foreground = {} /\ ~cursorActive /\ screen \in Bare(Glyph)
-----------------------------------------------------------------------------
(* Counting.                                                                *)
Counted(st, P, n) == Cardinality({p \in P : st[p] # "EXITED"}) <= n /\ n <= Cardinality(P)
Readings == {r \in Reader : Reading(r)}
Dues == {p \in Process : Due(p)}
ReadUnits == Len(stdin.chars) - stdin.readSem.value
WriteUnits == Capacity + idleKeys - Len(stdin.chars) - stdin.writeSem.value

LEMMA UnitsAre ==
  StdinUnits <=> Counted(state, Readings, ReadUnits) /\ Counted(state, Dues, WriteUnits)
  BY DEF StdinUnits, Between, Living, Counted, Readings, Dues, ReadUnits, WriteUnits

LEMMA ProcessFinite ==
  /\ IsFiniteSet(Process) /\ Reader \subseteq Process /\ Job \subseteq Reader /\ Shell \in Reader
  /\ "idle" \notin Process /\ Shell \notin Job
  <1>1. IsFiniteSet({Shell}) /\ IsFiniteSet({InitProc}) /\ IsFiniteSet(Job)
    BY NamesAssumption, FS_Singleton
  <1>2. IsFiniteSet(Reader)
    BY <1>1, FS_Union DEF Reader
  <1>3. IsFiniteSet(Process)
    BY <1>1, <1>2, FS_Union DEF Process
  <1> QED BY <1>3, NamesAssumption DEF Process, Reader, Shell, InitProc

(* What a step may make of a set of whom n units are due.                   *)
SameDue(st, P, st2, Q) == /\ P \subseteq Q
                          /\ \A p \in Q : st2[p] # "EXITED" => p \in P /\ st[p] # "EXITED"
OneMore(st, P, st2, Q, q) == /\ P \subseteq Q /\ q \in Q /\ q \notin P
                             /\ \A p \in Q \ {q} : st2[p] # "EXITED" => p \in P /\ st[p] # "EXITED"
OneLess(st, P, st2, Q, q) == /\ q \in P /\ st[q] # "EXITED" /\ P \ {q} \subseteq Q
                             /\ \A p \in Q : st2[p] # "EXITED" => p \in P \ {q} /\ st[p] # "EXITED"

LEMMA CountSteps ==
  ASSUME NEW st, NEW P \in SUBSET Process, NEW st2, NEW Q \in SUBSET Process, NEW n \in Int,
         Counted(st, P, n)
  PROVE  /\ SameDue(st, P, st2, Q) => Counted(st2, Q, n)
         /\ \A q : OneMore(st, P, st2, Q, q) => Counted(st2, Q, n + 1)
         /\ \A q : OneLess(st, P, st2, Q, q) => Counted(st2, Q, n - 1)
  <1>1. PICK L, M : L = {p \in P : st[p] # "EXITED"} /\ M = {p \in Q : st2[p] # "EXITED"}
    OBVIOUS
  <1>2. \A X \in SUBSET Process : IsFiniteSet(X) /\ Cardinality(X) \in Nat
    BY ProcessFinite, FS_Subset, FS_CardinalityType
  <1>3. L \in SUBSET Process /\ M \in SUBSET Process /\ IsFiniteSet(L) /\ IsFiniteSet(M)
        /\ IsFiniteSet(P) /\ IsFiniteSet(Q)
    BY <1>1, <1>2
  <1>4. /\ Cardinality(L) \in Nat /\ Cardinality(M) \in Nat /\ Cardinality(P) \in Nat
        /\ Cardinality(Q) \in Nat
    BY <1>2, <1>3
  <1>5. Cardinality(L) <= n /\ n <= Cardinality(P)
    BY <1>1 DEF Counted
  <1>6. ASSUME SameDue(st, P, st2, Q)
        PROVE  Counted(st2, Q, n)
    <2>1. M \subseteq L /\ P \subseteq Q
      BY <1>1, <1>6 DEF SameDue
    <2>2. Cardinality(M) <= Cardinality(L) /\ Cardinality(P) <= Cardinality(Q)
      BY <1>3, <2>1, FS_Subset
    <2>3. Cardinality(M) <= n /\ n <= Cardinality(Q)
      BY <1>4, <1>5, <2>2
    <2> QED BY <1>1, <2>3 DEF Counted
  <1>7. ASSUME NEW q, OneMore(st, P, st2, Q, q)
        PROVE  Counted(st2, Q, n + 1)
    <2>1. M \subseteq L \cup {q} /\ P \cup {q} \subseteq Q /\ q \notin P /\ q \notin L
      BY <1>1, <1>7 DEF OneMore
    <2>2. /\ IsFiniteSet(L \cup {q}) /\ Cardinality(L \cup {q}) = Cardinality(L) + 1
          /\ IsFiniteSet(P \cup {q}) /\ Cardinality(P \cup {q}) = Cardinality(P) + 1
      BY <1>3, <2>1, FS_AddElement
    <2>3. Cardinality(M) <= Cardinality(L \cup {q}) /\ Cardinality(P \cup {q}) <= Cardinality(Q)
      BY <1>3, <2>1, <2>2, FS_Subset
    <2>4. Cardinality(M) <= n + 1 /\ n + 1 <= Cardinality(Q)
      BY <1>4, <1>5, <2>2, <2>3
    <2> QED BY <1>1, <2>4 DEF Counted
  <1>8. ASSUME NEW q, OneLess(st, P, st2, Q, q)
        PROVE  Counted(st2, Q, n - 1)
    <2>1. M \subseteq L \ {q} /\ P \ {q} \subseteq Q /\ q \in P /\ q \in L
      BY <1>1, <1>8 DEF OneLess
    <2>2. /\ IsFiniteSet(L \ {q}) /\ Cardinality(L \ {q}) = Cardinality(L) - 1
          /\ IsFiniteSet(P \ {q}) /\ Cardinality(P \ {q}) = Cardinality(P) - 1
      BY <1>3, <2>1, FS_RemoveElement
    <2>3. Cardinality(M) <= Cardinality(L \ {q}) /\ Cardinality(P \ {q}) <= Cardinality(Q)
      BY <1>3, <2>1, <2>2, FS_Subset
    <2>4. Cardinality(M) <= n - 1 /\ n - 1 <= Cardinality(Q)
      BY <1>4, <1>5, <2>2, <2>3
    <2> QED BY <1>1, <2>4 DEF Counted
  <1> QED BY <1>6, <1>7, <1>8

(* A unit is due to one who runs on: there is one. *)
LEMMA CountPositive ==
  ASSUME NEW st, NEW P \in SUBSET Process, NEW n \in Int, Counted(st, P, n),
         NEW p \in P, st[p] # "EXITED"
  PROVE  n > 0
  <1>1. PICK L : L = {q \in P : st[q] # "EXITED"}
    OBVIOUS
  <1>2. IsFiniteSet(L) /\ p \in L
    BY <1>1, ProcessFinite, FS_Subset
  <1>3. Cardinality(L) \in Nat /\ Cardinality(L) # 0
    BY <1>2, FS_CardinalityType, FS_EmptySet
  <1>4. Cardinality(L) <= n
    BY <1>1 DEF Counted
  <1> QED BY <1>3, <1>4

LEMMA CountNatural ==
  ASSUME NEW st, NEW P \in SUBSET Process, NEW n \in Int, Counted(st, P, n)
  PROVE  n >= 0
  <1>1. PICK L : L = {q \in P : st[q] # "EXITED"}
    OBVIOUS
  <1>2. IsFiniteSet(L)
    BY <1>1, ProcessFinite, FS_Subset
  <1>3. Cardinality(L) \in Nat
    BY <1>2, FS_CardinalityType
  <1>4. Cardinality(L) <= n
    BY <1>1 DEF Counted
  <1> QED BY <1>3, <1>4

-----------------------------------------------------------------------------
(* The pipe.                                                                *)
LEMMA StoredIs ==
  ASSUME NEW x \in Stdins, NEW c \in Char
  PROVE  /\ Stored(x, c) \in Stdins /\ Len(Stored(x, c).chars) = Len(x.chars) + 1
         /\ Stored(x, c).readSem = Post(x.readSem) /\ Stored(x, c).writeSem = x.writeSem
  <1>1. x.chars \in Seq(Char) /\ x.readSem \in Semaphore /\ x.writeSem \in Semaphore
    BY DEF Stdins
  <1>2. PICK n \in Nat : n = Len(x.chars) + 1
    BY <1>1
  <1>3. PICK f : f = [i \in 1..n |-> IF (n - i) % Capacity = 0 THEN c ELSE x.chars[i]]
    OBVIOUS
  <1>4. f \in Seq(Char) /\ Len(f) = n
    <2>1. ASSUME NEW i \in 1..n
          PROVE  f[i] \in Char
      <3>1. CASE i = n
        <4>1. (n - i) % Capacity = 0
          BY <3>1, TerminalAssumption
        <4> QED BY <1>3, <4>1
      <3>2. CASE i # n
        <4>1. i \in 1..Len(x.chars)
          BY <1>1, <1>2, <3>2
        <4> QED BY <1>1, <1>3, <4>1
      <3> QED BY <3>1, <3>2
    <2>2. DOMAIN f = 1..n
      BY <1>3
    <2>3. f \in [1..n -> Char]
      BY <1>3, <2>1
    <2> QED BY <2>2, <2>3
  <1>5. Post(x.readSem) \in Semaphore
    BY <1>1, PostIs
  <1>6. Stored(x, c) = [x EXCEPT !.chars = f, !.readSem = Post(x.readSem)]
    BY <1>2, <1>3 DEF Stored, Stdins
  <1> QED BY <1>1, <1>2, <1>4, <1>5, <1>6 DEF Stdins

LEMMA FetchedIs ==
  ASSUME NEW x \in Stdins, x.chars # <<>>
  PROVE  /\ Fetched(x) \in Stdins /\ Len(Fetched(x).chars) = Len(x.chars) - 1
         /\ Head(x.chars) \in Char
         /\ Fetched(x).writeSem = Post(x.writeSem) /\ Fetched(x).readSem = x.readSem
  <1>1. x.chars \in Seq(Char) /\ x.readSem \in Semaphore /\ x.writeSem \in Semaphore
    BY DEF Stdins
  <1>2. PICK f : f = Tail(x.chars)
    OBVIOUS
  <1>3. f \in Seq(Char) /\ Len(f) = Len(x.chars) - 1 /\ Head(x.chars) \in Char
    BY <1>1, <1>2
  <1>5. Post(x.writeSem) \in Semaphore
    BY <1>1, PostIs
  <1>6. Fetched(x) = [x EXCEPT !.chars = f, !.writeSem = Post(x.writeSem)]
    BY <1>2 DEF Fetched, Stdins
  <1> QED BY <1>1, <1>3, <1>5, <1>6 DEF Stdins

-----------------------------------------------------------------------------
(* What the steps do to the units.                                          *)
LEMMA WakeIs ==
  ASSUME Types, NEW s \in Semaphore, Distinct(s), state' = Wake(state, Resumed(s))
  PROVE  /\ state' \in [Process -> {"none", "READY", "BLOCKED", "EXITED"}]
         /\ \A p \in Process : Lives(p)' <=> Lives(p)
         /\ \A p \in Process : p \notin Resumed(s) => state'[p] = state[p]
         /\ \A p \in Process : p \in Resumed(s) => state'[p] = "READY"
  <1>1. \A p \in Resumed(s) : p \in Process /\ state[p] # "EXITED"
    BY PostReleases
  <1>2. state \in [Process -> {"none", "READY", "BLOCKED", "EXITED"}]
    BY DEF Types
  <1> QED BY <1>1, <1>2 DEF Wake, Lives

(* writeToPipe, once there is a unit for it: the reader that it resumes is  *)
(* one more to whom a character is due.                                     *)
StoreStep(x, c) ==
  /\ x \in Stdins /\ c \in Char /\ x.chars = stdin.chars /\ x.readSem = stdin.readSem
  /\ stdin' = Stored(x, c) /\ state' = Wake(state, Resumed(stdin.readSem)) /\ input' = input

LEMMA Stores ==
  ASSUME Types, Waiters, StdinUnits, NEW x, NEW c, StoreStep(x, c)
  PROVE  /\ stdin' \in Stdins /\ stdin'.writeSem = x.writeSem
         /\ Len(stdin'.chars) = Len(stdin.chars) + 1
         /\ state' \in [Process -> {"none", "READY", "BLOCKED", "EXITED"}]
         /\ \A p \in Process : Lives(p)' <=> Lives(p)
         /\ \A p \in Process : state'[p] # state[p] => Waits(p, stdin.readSem)
         /\ Distinct(stdin.readSem)'
         /\ \A p \in Process \cup {"idle"} :
              Waits(p, stdin'.readSem) => Waits(p, stdin.readSem) /\ (p \in Process => state'[p] = state[p])
         /\ Counted(state, Readings, ReadUnits)'
  <1>1. x \in Stdins /\ c \in Char /\ x.chars = stdin.chars /\ x.readSem = stdin.readSem
        /\ stdin' = Stored(x, c) /\ state' = Wake(state, Resumed(stdin.readSem)) /\ input' = input
    BY DEF StoreStep
  <1>2. stdin' \in Stdins /\ Len(stdin'.chars) = Len(stdin.chars) + 1
        /\ stdin'.readSem = Post(stdin.readSem) /\ stdin'.writeSem = x.writeSem
    BY <1>1, StoredIs
  <1>3. stdin.readSem \in Semaphore /\ Distinct(stdin.readSem) /\ stdin.chars \in Seq(Char)
        /\ stdin.readSem.value \in Nat
    BY DEF Types, Stdins, Waiters, Semaphore
  <1>4. PICK s : s = stdin.readSem
    OBVIOUS
  <1>5. /\ Post(s) \in Semaphore /\ Distinct(Post(s))
        /\ \A p \in Process \cup {"idle"} : Waits(p, Post(s)) => Waits(p, s)
        /\ \A p \in Process : Waits(p, s) /\ ~Waits(p, Post(s)) => state[p] = "EXITED" \/ p \in Resumed(s)
        /\ \A p \in Resumed(s) : p \in Process /\ state[p] # "EXITED" /\ Waits(p, s) /\ ~Waits(p, Post(s))
        /\ \/ Resumed(s) = {} /\ Post(s).value = s.value + 1
           \/ (\E q \in Process : Resumed(s) = {q}) /\ Post(s).value = s.value
    BY <1>3, <1>4, PostReleases
  <1>6. /\ state' \in [Process -> {"none", "READY", "BLOCKED", "EXITED"}]
        /\ \A p \in Process : Lives(p)' <=> Lives(p)
        /\ \A p \in Process : p \notin Resumed(s) => state'[p] = state[p]
    BY <1>1, <1>3, <1>4, WakeIs
  <1>7. PICK r2 : r2 = stdin'.readSem
    OBVIOUS
  <1>8. r2 = Post(s)
    BY <1>2, <1>4, <1>7
  <1>9. Distinct(stdin.readSem)'
    BY <1>2, <1>4, <1>5 DEF Distinct
  <1>10. \A p \in Process \cup {"idle"} :
           Waits(p, stdin'.readSem) => Waits(p, stdin.readSem) /\ (p \in Process => state'[p] = state[p])
    BY <1>2, <1>4, <1>5, <1>6
  <1>11. PICK P, Q, n, m : P = Readings /\ Q = Readings' /\ n = ReadUnits /\ m = ReadUnits'
    OBVIOUS
  <1>12. Counted(state, P, n) /\ P \in SUBSET Process /\ Q \in SUBSET Process /\ n \in Int
    BY <1>3, <1>11, UnitsAre, ProcessFinite DEF Readings, ReadUnits
  <1>13. \A p : p \in P <=> p \in Reader /\ input[p].at = "reading" /\ ~Waits(p, s)
    BY <1>4, <1>11 DEF Readings, Reading
  <1>14. \A p : p \in Q <=> p \in Reader /\ input[p].at = "reading" /\ ~Waits(p, Post(s))
    BY <1>1, <1>2, <1>4, <1>11 DEF Readings, Reading, Waits
  <1>15. \A p \in Process : Waits(p, s) => p \in Reader /\ input[p].at = "reading"
    BY <1>4 DEF Waiters
  <1>16. \A p \in Reader : p \in Process
    BY ProcessFinite
  <1>17. CASE Resumed(s) = {} /\ Post(s).value = s.value + 1
    <2>1. m = n
      BY <1>2, <1>3, <1>4, <1>11, <1>17 DEF ReadUnits
    <2>2. SameDue(state, P, state', Q)
      BY <1>5, <1>6, <1>13, <1>14, <1>16, <1>17 DEF SameDue, Lives
    <2>3. Counted(state', Q, n)
      BY <1>12, <2>2, CountSteps
    <2> QED BY <1>2, <1>6, <1>9, <1>10, <1>5, <1>4, <1>11, <2>1, <2>3 DEF Counted
  <1>18. CASE (\E q \in Process : Resumed(s) = {q}) /\ Post(s).value = s.value
    <2>1. PICK q \in Process : Resumed(s) = {q}
      BY <1>18
    <2>2. m = n + 1
      BY <1>2, <1>3, <1>4, <1>11, <1>18 DEF ReadUnits
    <2>3. OneMore(state, P, state', Q, q)
      BY <1>5, <1>6, <1>13, <1>14, <1>15, <1>16, <2>1 DEF OneMore, Lives
    <2>4. Counted(state', Q, n + 1)
      BY <1>12, <2>3, CountSteps
    <2> QED BY <1>2, <1>6, <1>9, <1>10, <1>5, <1>4, <1>11, <2>2, <2>4 DEF Counted
  <1> QED BY <1>5, <1>17, <1>18

(* pipeRead, once there is a unit for it: the writer that it resumes is one  *)
(* more to whom a place is due.                                             *)
FetchStep(x) ==
  /\ x \in Stdins /\ x.chars # <<>> /\ x.chars = stdin.chars /\ x.writeSem = stdin.writeSem
  /\ stdin' = Fetched(x) /\ state' = Wake(state, Resumed(stdin.writeSem))
  /\ pending' = pending /\ idleKeys' = idleKeys

LEMMA Fetches ==
  ASSUME Types, Waiters, StdinUnits, NEW x, FetchStep(x)
  PROVE  /\ stdin' \in Stdins /\ stdin'.readSem = x.readSem
         /\ Len(stdin'.chars) = Len(stdin.chars) - 1 /\ Head(stdin.chars) \in Char
         /\ state' \in [Process -> {"none", "READY", "BLOCKED", "EXITED"}]
         /\ \A p \in Process : Lives(p)' <=> Lives(p)
         /\ \A p \in Process : state'[p] # state[p] => Waits(p, stdin.writeSem)
         /\ Distinct(stdin.writeSem)'
         /\ \A p \in Process : Waits(p, stdin'.writeSem) => Waits(p, stdin.writeSem) /\ state'[p] = state[p]
         /\ Counted(state, Dues, WriteUnits)'
  <1>1. x \in Stdins /\ x.chars # <<>> /\ x.chars = stdin.chars /\ x.writeSem = stdin.writeSem
        /\ stdin' = Fetched(x) /\ state' = Wake(state, Resumed(stdin.writeSem))
        /\ pending' = pending /\ idleKeys' = idleKeys
    BY DEF FetchStep
  <1>2. stdin' \in Stdins /\ Len(stdin'.chars) = Len(stdin.chars) - 1
        /\ Head(stdin.chars) \in Char /\ stdin'.writeSem = Post(stdin.writeSem) /\ stdin'.readSem = x.readSem
    BY <1>1, FetchedIs
  <1>3. stdin.writeSem \in Semaphore /\ Distinct(stdin.writeSem) /\ stdin.chars \in Seq(Char)
        /\ stdin.writeSem.value \in Nat /\ idleKeys \in Int /\ Capacity \in Int
    BY TerminalAssumption DEF Types, Stdins, Waiters, Semaphore
  <1>4. PICK s : s = stdin.writeSem
    OBVIOUS
  <1>5. /\ Post(s) \in Semaphore /\ Distinct(Post(s))
        /\ \A p \in Process \cup {"idle"} : Waits(p, Post(s)) => Waits(p, s)
        /\ \A p \in Process : Waits(p, s) /\ ~Waits(p, Post(s)) => state[p] = "EXITED" \/ p \in Resumed(s)
        /\ \A p \in Resumed(s) : p \in Process /\ state[p] # "EXITED" /\ Waits(p, s) /\ ~Waits(p, Post(s))
        /\ \/ Resumed(s) = {} /\ Post(s).value = s.value + 1
           \/ (\E q \in Process : Resumed(s) = {q}) /\ Post(s).value = s.value
    BY <1>3, <1>4, PostReleases
  <1>6. /\ state' \in [Process -> {"none", "READY", "BLOCKED", "EXITED"}]
        /\ \A p \in Process : Lives(p)' <=> Lives(p)
        /\ \A p \in Process : p \notin Resumed(s) => state'[p] = state[p]
    BY <1>1, <1>3, <1>4, WakeIs
  <1>7. PICK r2 : r2 = stdin'.writeSem
    OBVIOUS
  <1>8. r2 = Post(s)
    BY <1>2, <1>4, <1>7
  <1>9. Distinct(stdin.writeSem)'
    BY <1>2, <1>4, <1>5 DEF Distinct
  <1>10. \A p \in Process : Waits(p, stdin'.writeSem) => Waits(p, stdin.writeSem) /\ state'[p] = state[p]
    BY <1>2, <1>4, <1>5, <1>6
  <1>11. PICK P, Q, n, m : P = Dues /\ Q = Dues' /\ n = WriteUnits /\ m = WriteUnits'
    OBVIOUS
  <1>12. Counted(state, P, n) /\ P \in SUBSET Process /\ Q \in SUBSET Process /\ n \in Int
    BY <1>3, <1>11, UnitsAre, ProcessFinite, TerminalAssumption DEF Dues, WriteUnits
  <1>13. \A p : p \in P <=> p \in Process /\ pending[p] # None /\ ~Waits(p, s)
    BY <1>4, <1>11 DEF Dues, Due
  <1>14. \A p : p \in Q <=> p \in Process /\ pending[p] # None /\ ~Waits(p, Post(s))
    BY <1>1, <1>2, <1>4, <1>11 DEF Dues, Due, Waits
  <1>15. \A p \in Process : Waits(p, s) => pending[p] # None
    BY <1>4 DEF Waiters
  <1>16. \A p \in Reader : p \in Process
    BY ProcessFinite
  <1>17. PICK l \in Nat : l = Len(stdin.chars)
    BY <1>3
  <1>18. m = Capacity + idleKeys - (l - 1) - Post(s).value
    BY <1>1, <1>2, <1>4, <1>11, <1>17 DEF WriteUnits
  <1>19. n = Capacity + idleKeys - l - s.value
    BY <1>4, <1>11, <1>17 DEF WriteUnits
  <1>20. CASE Resumed(s) = {} /\ Post(s).value = s.value + 1
    <2>1. m = n
      BY <1>3, <1>4, <1>20, <1>18, <1>19
    <2>2. SameDue(state, P, state', Q)
      BY <1>5, <1>6, <1>13, <1>14, <1>16, <1>20 DEF SameDue, Lives
    <2>3. Counted(state', Q, n)
      BY <1>12, <2>2, CountSteps
    <2> QED BY <1>2, <1>6, <1>9, <1>10, <1>5, <1>4, <1>11, <2>1, <2>3 DEF Counted
  <1>21. CASE (\E q \in Process : Resumed(s) = {q}) /\ Post(s).value = s.value
    <2>1. PICK q \in Process : Resumed(s) = {q}
      BY <1>21
    <2>2. m = n + 1
      BY <1>3, <1>4, <1>21, <1>18, <1>19
    <2>3. OneMore(state, P, state', Q, q)
      BY <1>5, <1>6, <1>13, <1>14, <1>15, <1>16, <2>1 DEF OneMore, Lives
    <2>4. Counted(state', Q, n + 1)
      BY <1>12, <2>3, CountSteps
    <2> QED BY <1>2, <1>6, <1>9, <1>10, <1>5, <1>4, <1>11, <2>2, <2>4 DEF Counted
  <1> QED BY <1>5, <1>20, <1>21

-----------------------------------------------------------------------------
(* The keys that are written.                                               *)

(* The shell and the jobs are where they were, as far as Fronts tells.      *)
LEMMA FrontsKept ==
  ASSUME Fronts, shell' = shell, foreground' = foreground, foreground \subseteq Job,
         \A p \in Process : Lives(p)' => Lives(p), Lives(Shell)',
         \A j \in Job : input'[j].at # "idle" => input[j].at # "idle" \/ j \in foreground,
         input'[Shell].at # "idle" => input[Shell].at # "idle" \/ shell.at = "line",
         state[Shell] = "BLOCKED" /\ pending[Shell] = None /\ input[Shell].at = "idle"
           => state'[Shell] = "BLOCKED" /\ pending'[Shell] = None /\ input'[Shell].at = "idle"
  PROVE  Fronts'
  <1>1. \A j \in foreground : j \in Process
    BY ProcessFinite
  <1> QED BY <1>1 DEF Fronts, Lives

LEMMA KeyUnits ==
  ASSUME Units, NEW c \in Char, WriteStdin(c),
         UNCHANGED <<screen, cursorActive, shift, ctrl, input, shell, foreground, printed, clean>>
  PROVE  Units'
  <1>1. Types /\ Waiters /\ Fronts /\ StdinUnits
    BY DEF Units
  <1>2. /\ stdin \in Stdins /\ stdin.chars \in Seq(Char) /\ Len(stdin.chars) \in Nat
        /\ stdin.readSem \in Semaphore /\ stdin.writeSem \in Semaphore
        /\ stdin.readSem.value \in Nat /\ stdin.writeSem.value \in Nat
        /\ idleKeys \in Int /\ typed \in Int /\ Capacity \in Int /\ MaxTyped \in Int
    BY <1>1, TerminalAssumption DEF Types, Stdins, Semaphore
  <1>3. /\ UNCHANGED <<screen, cursorActive, shift, ctrl, input, shell, foreground, printed, clean>>
        /\ c # None /\ typed < MaxTyped /\ typed' = typed + 1
    BY NamesAssumption DEF WriteStdin
  <1>4. typed' \in 0..MaxTyped /\ (idleKeys' \in {idleKeys, idleKeys + 1} => idleKeys' \in 0..typed')
    BY <1>1, <1>2, <1>3 DEF Types
  <1>5. Counted(state, Readings, ReadUnits) /\ Counted(state, Dues, WriteUnits)
        /\ Readings \in SUBSET Process /\ Dues \in SUBSET Process /\ WriteUnits \in Int /\ ReadUnits \in Int
    BY <1>1, <1>2, UnitsAre, ProcessFinite DEF Readings, Dues, WriteUnits, ReadUnits
  <1>6. Shell \in Process /\ Shell \in Reader /\ "idle" \notin Process /\ Reader \subseteq Process
    BY ProcessFinite
  <1>7. \A p \in Process : Waits(p, stdin.writeSem) => ~Waits(p, stdin.readSem)
    BY <1>1 DEF Waiters
  <1>8. state[Shell] = "BLOCKED" /\ pending[Shell] = None /\ input[Shell].at = "idle"
          => ~Waits(Shell, stdin.readSem) /\ ~Waits(Shell, stdin.writeSem)
    BY <1>1, <1>6 DEF Waiters
  <1>9. ASSUME NEW x, StoreStep(x, c), pending' = pending, idleKeys' \in {idleKeys, idleKeys + 1},
               Distinct(x.writeSem), \A p \in Process : Waits(p, x.writeSem) <=> Waits(p, stdin.writeSem),
               x.writeSem.value = stdin.writeSem.value - 1 + (idleKeys' - idleKeys)
        PROVE  Units'
    <2>1. /\ stdin' \in Stdins /\ stdin'.writeSem = x.writeSem
          /\ Len(stdin'.chars) = Len(stdin.chars) + 1
          /\ state' \in [Process -> {"none", "READY", "BLOCKED", "EXITED"}]
          /\ \A p \in Process : Lives(p)' <=> Lives(p)
          /\ \A p \in Process : state'[p] # state[p] => Waits(p, stdin.readSem)
          /\ Distinct(stdin.readSem)'
          /\ \A p \in Process \cup {"idle"} :
               Waits(p, stdin'.readSem) => Waits(p, stdin.readSem) /\ (p \in Process => state'[p] = state[p])
          /\ Counted(state, Readings, ReadUnits)'
      BY <1>1, <1>9, Stores
    <2>2. Types'
      BY <1>1, <1>3, <1>4, <1>9, <2>1 DEF Types
    <2>3. \A p \in Process : Waits(p, stdin'.writeSem) <=> Waits(p, stdin.writeSem)
      BY <1>9, <2>1
    <2>4. Waiters'
      <3>1. Distinct(stdin.writeSem)'
        BY <1>9, <2>1 DEF Distinct
      <3>2. \A p \in Process \cup {"idle"} : Waits(p, stdin'.readSem) =>
               /\ p \in Reader /\ input'[p].at = "reading"
               /\ pending'[p] = None /\ state'[p] \in {"BLOCKED", "EXITED"}
        BY <1>1, <1>3, <1>6, <1>9, <2>1 DEF Waiters
      <3>3. \A p \in Process : Waits(p, stdin'.writeSem) =>
               pending'[p] # None /\ state'[p] \in {"BLOCKED", "EXITED"}
        BY <1>1, <1>7, <1>9, <2>1, <2>3 DEF Waiters
      <3> QED BY <2>1, <3>1, <3>2, <3>3 DEF Waiters, Waits
    <2>5. Fronts'
      <3>1. foreground \subseteq Job
        BY <1>1 DEF Types
      <3>2. Lives(Shell)'
        BY <1>1, <1>6, <2>1 DEF Fronts
      <3>3. state[Shell] = "BLOCKED" /\ pending[Shell] = None /\ input[Shell].at = "idle"
              => state'[Shell] = "BLOCKED" /\ pending'[Shell] = None
        BY <1>6, <1>8, <1>9, <2>1
      <3> QED BY <1>1, <1>3, <2>1, <3>1, <3>2, <3>3, FrontsKept
    <2>6. Counted(state, Dues, WriteUnits)'
      <3>1. PICK P, Q, n, m : P = Dues /\ Q = Dues' /\ n = WriteUnits /\ m = WriteUnits'
        OBVIOUS
      <3>2. P = Q
        BY <1>9, <2>3, <3>1 DEF Dues, Due, Waits
      <3>3. SameDue(state, P, state', Q)
        BY <1>5, <2>1, <3>1, <3>2 DEF SameDue, Lives
      <3>4. stdin'.writeSem.value = stdin.writeSem.value - 1 + (idleKeys' - idleKeys)
        BY <1>9, <2>1
      <3>5. idleKeys' \in Int
        BY <1>2, <1>9
      <3>6. m = Capacity + idleKeys' - Len(stdin'.chars) - stdin'.writeSem.value
        BY <3>1 DEF WriteUnits
      <3>7. n = Capacity + idleKeys - Len(stdin.chars) - stdin.writeSem.value
        BY <3>1 DEF WriteUnits
      <3>8. m = n
        <4>1. PICK l \in Nat, v \in Int : l = Len(stdin.chars) /\ v = stdin.writeSem.value
          BY <1>2
        <4>2. m = Capacity + idleKeys' - (l + 1) - (v - 1 + (idleKeys' - idleKeys))
          BY <2>1, <3>4, <3>6, <4>1
        <4>3. n = Capacity + idleKeys - l - v
          BY <3>7, <4>1
        <4>4. PICK cap \in Int, i \in Int, k \in Int : cap = Capacity /\ i = idleKeys /\ k = idleKeys'
          BY <1>2, <3>5
        <4>5. m = cap + k - (l + 1) - (v - 1 + (k - i)) /\ n = cap + i - l - v
          BY <4>2, <4>3, <4>4
        <4> QED BY <4>5
      <3>9. Counted(state', Q, n)
        BY <1>5, <3>1, <3>2, <3>3, CountSteps
      <3> QED BY <3>1, <3>8, <3>9 DEF Counted
    <2>7. StdinUnits'
      BY <2>1, <2>6, UnitsAre DEF StdinUnits, Between, Living, Counted, Readings, Dues, ReadUnits, WriteUnits
    <2> QED BY <2>2, <2>4, <2>5, <2>7 DEF Units
  <1>10. CASE /\ stdin.writeSem.value > 0
              /\ stdin' = Stored([stdin EXCEPT !.writeSem = Taken(@)], c)
              /\ state' = Wake(state, Resumed(stdin.readSem))
              /\ UNCHANGED <<pending, idleKeys>>
    <2>1. PICK x : x = [stdin EXCEPT !.writeSem = Taken(stdin.writeSem)]
      OBVIOUS
    <2>2. /\ Taken(stdin.writeSem) \in Semaphore /\ Taken(stdin.writeSem).value = stdin.writeSem.value - 1
          /\ Taken(stdin.writeSem).waiters = stdin.writeSem.waiters
      BY <1>2, <1>10, TakenIs
    <2>3. /\ x \in Stdins /\ x.chars = stdin.chars /\ x.readSem = stdin.readSem
          /\ x.writeSem = Taken(stdin.writeSem) /\ stdin' = Stored(x, c)
      BY <1>2, <1>10, <2>1, <2>2 DEF Stdins
    <2>4. StoreStep(x, c)
      BY <1>3, <1>10, <2>3 DEF StoreStep
    <2>5. Distinct(x.writeSem) /\ \A p \in Process : Waits(p, x.writeSem) <=> Waits(p, stdin.writeSem)
      BY <1>1, <2>2, <2>3 DEF Waiters, Distinct, Waits
    <2>6. x.writeSem.value = stdin.writeSem.value - 1 + (idleKeys' - idleKeys)
      BY <1>2, <1>10, <2>2, <2>3
    <2>7. pending' = pending /\ idleKeys' \in {idleKeys, idleKeys + 1}
      BY <1>10
    <2> QED BY <1>9, <2>4, <2>5, <2>6, <2>7
  <1>11. CASE /\ stdin.writeSem.value = 0
              /\ stdin' = Stored([stdin EXCEPT !.writeSem = Enlisted(@, "idle")], c)
              /\ state' = Wake(state, Resumed(stdin.readSem))
              /\ idleKeys' = idleKeys + 1
              /\ UNCHANGED pending
    <2>1. PICK x : x = [stdin EXCEPT !.writeSem = Enlisted(stdin.writeSem, "idle")]
      OBVIOUS
    <2>2. /\ Enlisted(stdin.writeSem, "idle") \in Semaphore /\ Distinct(Enlisted(stdin.writeSem, "idle"))
          /\ Enlisted(stdin.writeSem, "idle").value = stdin.writeSem.value
          /\ \A p : Waits(p, Enlisted(stdin.writeSem, "idle")) <=> Waits(p, stdin.writeSem) \/ p = "idle"
      BY <1>1, <1>2, EnlistedIs DEF Waiters
    <2>3. /\ x \in Stdins /\ x.chars = stdin.chars /\ x.readSem = stdin.readSem
          /\ x.writeSem = Enlisted(stdin.writeSem, "idle") /\ stdin' = Stored(x, c)
      BY <1>2, <1>11, <2>1, <2>2 DEF Stdins
    <2>4. StoreStep(x, c)
      BY <1>3, <1>11, <2>3 DEF StoreStep
    <2>5. Distinct(x.writeSem) /\ \A p \in Process : Waits(p, x.writeSem) <=> Waits(p, stdin.writeSem)
      BY <1>6, <2>2, <2>3
    <2>6. x.writeSem.value = stdin.writeSem.value - 1 + (idleKeys' - idleKeys)
      BY <1>2, <1>11, <2>2, <2>3
    <2>7. pending' = pending /\ idleKeys' \in {idleKeys, idleKeys + 1}
      BY <1>11
    <2> QED BY <1>9, <2>4, <2>5, <2>6, <2>7
  <1>12. ASSUME NEW p \in Process, Runs(p),
                stdin' = [stdin EXCEPT !.writeSem = Enlisted(@, p)],
                state' = [state EXCEPT ![p] = "BLOCKED"],
                pending' = [pending EXCEPT ![p] = c],
                idleKeys' = idleKeys
         PROVE  Units'
    <2>1. state[p] = "READY" /\ pending[p] = None /\ ~Waits(p, stdin.readSem) /\ ~Waits(p, stdin.writeSem)
      BY <1>1, <1>12 DEF Runs, Ready, Waiters
    <2>2. /\ Enlisted(stdin.writeSem, p) \in Semaphore /\ Distinct(Enlisted(stdin.writeSem, p))
          /\ Enlisted(stdin.writeSem, p).value = stdin.writeSem.value
          /\ \A q : Waits(q, Enlisted(stdin.writeSem, p)) <=> Waits(q, stdin.writeSem) \/ q = p
      BY <1>1, <1>2, <2>1, EnlistedIs DEF Waiters
    <2>3. /\ stdin' \in Stdins /\ stdin'.chars = stdin.chars /\ stdin'.readSem = stdin.readSem
          /\ stdin'.writeSem = Enlisted(stdin.writeSem, p)
      BY <1>2, <1>12, <2>2 DEF Stdins
    <2>4. /\ state' \in [Process -> {"none", "READY", "BLOCKED", "EXITED"}]
          /\ pending' \in [Process -> Char \cup {None}]
          /\ \A q \in Process : (q # p => state'[q] = state[q] /\ pending'[q] = pending[q])
          /\ state'[p] = "BLOCKED" /\ pending'[p] = c
      BY <1>1, <1>12 DEF Types
    <2>5. \A q \in Process : Lives(q)' <=> Lives(q)
      BY <2>1, <2>4 DEF Lives
    <2>6. Types'
      BY <1>1, <1>3, <1>4, <1>12, <2>3, <2>4 DEF Types
    <2>7. Waiters'
      <3>1. Distinct(stdin.readSem)' /\ Distinct(stdin.writeSem)'
        BY <1>1, <2>2, <2>3 DEF Distinct, Waiters
      <3>2. \A q \in Process \cup {"idle"} : Waits(q, stdin'.readSem) =>
               /\ q \in Reader /\ input'[q].at = "reading"
               /\ pending'[q] = None /\ state'[q] \in {"BLOCKED", "EXITED"}
        BY <1>1, <1>3, <1>6, <2>1, <2>3, <2>4 DEF Waiters
      <3>3. \A q \in Process : Waits(q, stdin'.writeSem) =>
               pending'[q] # None /\ state'[q] \in {"BLOCKED", "EXITED"}
        BY <1>1, <1>3, <2>2, <2>3, <2>4 DEF Waiters
      <3> QED BY <3>1, <3>2, <3>3 DEF Waiters, Waits
    <2>8. Fronts'
      <3>1. foreground \subseteq Job
        BY <1>1 DEF Types
      <3>2. Lives(Shell)'
        BY <1>1, <1>6, <2>5 DEF Fronts
      <3>3. state[Shell] = "BLOCKED" /\ pending[Shell] = None /\ input[Shell].at = "idle"
              => state'[Shell] = "BLOCKED" /\ pending'[Shell] = None
        BY <1>6, <2>1, <2>4
      <3> QED BY <1>1, <1>3, <2>5, <3>1, <3>2, <3>3, FrontsKept
    <2>9. Counted(state, Readings, ReadUnits)'
      <3>1. PICK P, Q : P = Readings /\ Q = Readings'
        OBVIOUS
      <3>2. P = Q
        BY <1>3, <2>3, <3>1 DEF Readings, Reading, Waits
      <3>3. SameDue(state, P, state', Q)
        BY <1>5, <2>5, <3>1, <3>2 DEF SameDue, Lives
      <3>4. Counted(state', Q, ReadUnits)
        BY <1>5, <3>1, <3>2, <3>3, CountSteps
      <3>5. ReadUnits' = ReadUnits
        BY <2>3 DEF ReadUnits
      <3> QED BY <3>1, <3>4, <3>5 DEF Counted
    <2>10. Counted(state, Dues, WriteUnits)'
      <3>1. PICK P, Q : P = Dues /\ Q = Dues'
        OBVIOUS
      <3>2. \A q : q \in P <=> q \in Process /\ pending[q] # None /\ ~Waits(q, stdin.writeSem)
        BY <3>1 DEF Dues, Due
      <3>3. \A q : q \in Q <=> q \in Process /\ pending'[q] # None /\ ~Waits(q, stdin'.writeSem)
        BY <3>1 DEF Dues, Due, Waits
      <3>4. P = Q
        BY <2>1, <2>2, <2>3, <2>4, <3>2, <3>3
      <3>5. SameDue(state, P, state', Q)
        BY <1>5, <2>5, <3>1, <3>4 DEF SameDue, Lives
      <3>6. Counted(state', Q, WriteUnits)
        BY <1>5, <3>1, <3>4, <3>5, CountSteps
      <3>7. WriteUnits' = WriteUnits
        BY <1>12, <2>2, <2>3 DEF WriteUnits
      <3> QED BY <3>1, <3>6, <3>7 DEF Counted
    <2>11. StdinUnits'
      BY <2>9, <2>10 DEF StdinUnits, Between, Living, Counted, Readings, Dues, ReadUnits, WriteUnits
    <2> QED BY <2>6, <2>7, <2>8, <2>11 DEF Units
  <1> QED BY <1>10, <1>11, <1>12 DEF WriteStdin

(* What the proofs of the steps begin with. *)
LEMMA UnitTypes ==
  ASSUME Units
  PROVE  /\ Types /\ Waiters /\ Fronts /\ StdinUnits
         /\ stdin \in Stdins /\ stdin.chars \in Seq(Char) /\ Len(stdin.chars) \in Nat
         /\ stdin.readSem \in Semaphore /\ stdin.writeSem \in Semaphore
         /\ stdin.readSem.value \in Nat /\ stdin.writeSem.value \in Nat
         /\ idleKeys \in Int /\ Capacity \in Int /\ foreground \subseteq Job
         /\ Counted(state, Readings, ReadUnits) /\ Counted(state, Dues, WriteUnits)
         /\ Readings \in SUBSET Process /\ Dues \in SUBSET Process /\ WriteUnits \in Int /\ ReadUnits \in Int
         /\ \A p \in Process : Waits(p, stdin.writeSem) => ~Waits(p, stdin.readSem)
         /\ state[Shell] = "BLOCKED" /\ pending[Shell] = None /\ input[Shell].at = "idle"
              => ~Waits(Shell, stdin.readSem) /\ ~Waits(Shell, stdin.writeSem)
  <1>1. Types /\ Waiters /\ Fronts /\ StdinUnits
    BY DEF Units
  <1>2. /\ stdin \in Stdins /\ stdin.chars \in Seq(Char) /\ Len(stdin.chars) \in Nat
        /\ stdin.readSem \in Semaphore /\ stdin.writeSem \in Semaphore
        /\ stdin.readSem.value \in Nat /\ stdin.writeSem.value \in Nat
        /\ idleKeys \in Int /\ Capacity \in Int /\ foreground \subseteq Job
    BY <1>1, TerminalAssumption DEF Types, Stdins, Semaphore
  <1>3. Counted(state, Readings, ReadUnits) /\ Counted(state, Dues, WriteUnits)
        /\ Readings \in SUBSET Process /\ Dues \in SUBSET Process /\ WriteUnits \in Int /\ ReadUnits \in Int
    BY <1>1, <1>2, UnitsAre, ProcessFinite DEF Readings, Dues, WriteUnits, ReadUnits
  <1>4. Shell \in Process
    BY ProcessFinite
  <1>5. \A p \in Process : Waits(p, stdin.writeSem) => ~Waits(p, stdin.readSem)
    BY <1>1 DEF Waiters
  <1>6. state[Shell] = "BLOCKED" /\ pending[Shell] = None /\ input[Shell].at = "idle"
          => ~Waits(Shell, stdin.readSem) /\ ~Waits(Shell, stdin.writeSem)
    BY <1>1, <1>4 DEF Waiters
  <1> QED BY <1>1, <1>2, <1>3, <1>5, <1>6

LEMMA StdinUnitsNext ==
  Counted(state, Readings, ReadUnits)' /\ Counted(state, Dues, WriteUnits)' => StdinUnits'
  BY DEF StdinUnits, Between, Living, Counted, Readings, Dues, ReadUnits, WriteUnits

LEMMA PendingUnits ==
  ASSUME Units, NEW p \in Process, StoresPending(p)
  PROVE  Units'
  <1>1. /\ Types /\ Waiters /\ Fronts /\ StdinUnits
        /\ stdin \in Stdins /\ stdin.chars \in Seq(Char) /\ Len(stdin.chars) \in Nat
        /\ stdin.writeSem.value \in Nat /\ idleKeys \in Int /\ Capacity \in Int /\ foreground \subseteq Job
        /\ Counted(state, Dues, WriteUnits)
        /\ Dues \in SUBSET Process /\ WriteUnits \in Int
        /\ \A q \in Process : Waits(q, stdin.writeSem) => ~Waits(q, stdin.readSem)
        /\ state[Shell] = "BLOCKED" /\ pending[Shell] = None /\ input[Shell].at = "idle"
             => ~Waits(Shell, stdin.readSem) /\ ~Waits(Shell, stdin.writeSem)
    BY UnitTypes
  <1>2. /\ state[p] = "READY" /\ pending[p] # None /\ stdin' = Stored(stdin, pending[p])
        /\ state' = Wake(state, Resumed(stdin.readSem))
        /\ pending' = [pending EXCEPT ![p] = None]
        /\ UNCHANGED <<screen, cursorActive, shift, ctrl, input, shell, foreground, typed, printed, idleKeys, clean>>
    BY DEF StoresPending, Ready, counters
  <1>3. PICK c : c = pending[p]
    OBVIOUS
  <1>4. c \in Char /\ pending' \in [Process -> Char \cup {None}] /\ pending'[p] = None
        /\ \A q \in Process : q # p => pending'[q] = pending[q]
    BY <1>1, <1>2, <1>3 DEF Types
  <1>5. StoreStep(stdin, c)
    BY <1>1, <1>2, <1>3, <1>4 DEF StoreStep
  <1>6. Shell \in Process /\ Shell \in Reader /\ "idle" \notin Process /\ Reader \subseteq Process
    BY ProcessFinite
  <1>7. /\ stdin' \in Stdins /\ stdin'.writeSem = stdin.writeSem
        /\ Len(stdin'.chars) = Len(stdin.chars) + 1
        /\ state' \in [Process -> {"none", "READY", "BLOCKED", "EXITED"}]
        /\ \A q \in Process : Lives(q)' <=> Lives(q)
        /\ \A q \in Process : state'[q] # state[q] => Waits(q, stdin.readSem)
        /\ Distinct(stdin.readSem)'
        /\ \A q \in Process \cup {"idle"} :
             Waits(q, stdin'.readSem) => Waits(q, stdin.readSem) /\ (q \in Process => state'[q] = state[q])
        /\ Counted(state, Readings, ReadUnits)'
    BY <1>1, <1>5, Stores
  <1>8. ~Waits(p, stdin.writeSem)
    BY <1>1, <1>2 DEF Waiters
  <1>9. Types'
    BY <1>1, <1>2, <1>4, <1>7 DEF Types
  <1>10. Waiters'
    <2>1. Distinct(stdin.writeSem)'
      BY <1>1, <1>7 DEF Distinct, Waiters
    <2>2. \A q \in Process \cup {"idle"} : Waits(q, stdin'.readSem) =>
             /\ q \in Reader /\ input'[q].at = "reading"
             /\ pending'[q] = None /\ state'[q] \in {"BLOCKED", "EXITED"}
      BY <1>1, <1>2, <1>4, <1>6, <1>7 DEF Waiters
    <2>3. \A q \in Process : Waits(q, stdin'.writeSem) =>
             pending'[q] # None /\ state'[q] \in {"BLOCKED", "EXITED"}
      BY <1>1, <1>4, <1>7, <1>8 DEF Waiters
    <2> QED BY <1>7, <2>1, <2>2, <2>3 DEF Waiters, Waits
  <1>11. Fronts'
    <2>1. Lives(Shell)'
      BY <1>1, <1>6, <1>7 DEF Fronts
    <2>2. state[Shell] = "BLOCKED" /\ pending[Shell] = None /\ input[Shell].at = "idle"
            => state'[Shell] = "BLOCKED" /\ pending'[Shell] = None /\ input'[Shell].at = "idle"
      BY <1>1, <1>2, <1>4, <1>6, <1>7
    <2> QED BY <1>1, <1>2, <1>7, <2>1, <2>2, FrontsKept
  <1>12. Counted(state, Dues, WriteUnits)'
    <2>1. PICK P, Q : P = Dues /\ Q = Dues'
      OBVIOUS
    <2>2. \A q : q \in P <=> q \in Process /\ pending[q] # None /\ ~Waits(q, stdin.writeSem)
      BY <2>1 DEF Dues, Due
    <2>3. \A q : q \in Q <=> q \in Process /\ pending'[q] # None /\ ~Waits(q, stdin.writeSem)
      BY <1>7, <2>1 DEF Dues, Due, Waits
    <2>4. OneLess(state, P, state', Q, p)
      BY <1>2, <1>4, <1>7, <1>8, <2>2, <2>3 DEF OneLess, Lives
    <2>5. P \in SUBSET Process /\ Q \in SUBSET Process
      BY <2>2, <2>3
    <2>6. Counted(state', Q, WriteUnits - 1)
      BY <1>1, <2>1, <2>4, <2>5, CountSteps
    <2>7. WriteUnits' = WriteUnits - 1
      <3>1. PICK l \in Nat, v \in Nat : l = Len(stdin.chars) /\ v = stdin.writeSem.value
        BY <1>1
      <3>2. WriteUnits' = Capacity + idleKeys - (l + 1) - v /\ WriteUnits = Capacity + idleKeys - l - v
        BY <1>2, <1>7, <3>1 DEF WriteUnits
      <3>3. PICK cap \in Int, i \in Int : cap = Capacity /\ i = idleKeys
        BY <1>1
      <3>4. WriteUnits' = cap + i - (l + 1) - v /\ WriteUnits = cap + i - l - v
        BY <3>2, <3>3
      <3> QED BY <3>4
    <2> QED BY <2>1, <2>6, <2>7 DEF Counted
  <1>13. StdinUnits'
    BY <1>7, <1>12, StdinUnitsNext
  <1> QED BY <1>9, <1>10, <1>11, <1>13 DEF Units

(* A process that dies takes a unit with it, at most.                       *)
LEMMA DeathUnits ==
  ASSUME Units, NEW j \in Job, Lives(j), state' = Died(j),
         UNCHANGED <<shift, ctrl, stdin, pending, input, shell, foreground, typed, printed, idleKeys>>,
         {cursorActive', clean'} \subseteq BOOLEAN
  PROVE  Units'
  <1>1. /\ Types /\ Waiters /\ Fronts /\ StdinUnits /\ foreground \subseteq Job
        /\ Counted(state, Readings, ReadUnits) /\ Counted(state, Dues, WriteUnits)
        /\ Readings \in SUBSET Process /\ Dues \in SUBSET Process /\ WriteUnits \in Int /\ ReadUnits \in Int
    BY UnitTypes
  <1>2. Shell \in Process /\ Shell \in Reader /\ j \in Process /\ j # Shell /\ "idle" \notin Process
    BY ProcessFinite
  <1>3. /\ state' \in [Process -> {"none", "READY", "BLOCKED", "EXITED"}]
        /\ state'[j] = "EXITED"
        /\ \A p \in Process : p # j /\ (p # Shell \/ shell.at # "wait" \/ j \notin foreground) => state'[p] = state[p]
        /\ shell.at = "wait" /\ j \in foreground => state'[Shell] = "READY"
    <2>1. state \in [Process -> {"none", "READY", "BLOCKED", "EXITED"}]
      BY <1>1 DEF Types
    <2> QED BY <1>2, <2>1 DEF Died, Wake
  <1>4. Types'
    BY <1>1, <1>3 DEF Types
  <1>5. shell.at = "wait" /\ j \in foreground
          => ~Waits(Shell, stdin.readSem) /\ ~Waits(Shell, stdin.writeSem)
    BY <1>1, UnitTypes DEF Fronts
  <1>6. \A p \in Process : Waits(p, stdin.readSem) \/ Waits(p, stdin.writeSem)
          => state'[p] = state[p] \/ state'[p] = "EXITED"
    BY <1>3, <1>5
  <1>7. Waiters'
    <2>1. \A p \in Process \cup {"idle"} : Waits(p, stdin.readSem) =>
             p \in Process /\ state'[p] \in {"BLOCKED", "EXITED"}
      BY <1>1, <1>6, ProcessFinite DEF Waiters
    <2>2. \A p \in Process : Waits(p, stdin.writeSem) => state'[p] \in {"BLOCKED", "EXITED"}
      BY <1>1, <1>6 DEF Waiters
    <2> QED BY <1>1, <2>1, <2>2 DEF Waiters, Waits, Distinct
  <1>8. \A p \in Process : Lives(p)' => Lives(p)
    BY <1>1, <1>2, <1>3 DEF Lives, Fronts
  <1>9. Lives(Shell)'
    BY <1>1, <1>2, <1>3 DEF Lives, Fronts
  <1>10. Fronts'
    <2>1. CASE shell.at = "wait" /\ j \in foreground
      <3>1. \A i \in foreground : Lives(i) => i = j
        BY <1>1, <2>1 DEF Fronts
      <3>2. \A i \in foreground : ~Lives(i)'
        BY <1>1, <1>3, <1>8, <3>1, ProcessFinite DEF Lives
      <3> QED BY <1>1, <1>9, <3>2 DEF Fronts
    <2>2. CASE ~(shell.at = "wait" /\ j \in foreground)
      <3>1. state'[Shell] = state[Shell]
        BY <1>2, <1>3, <2>2
      <3>2. \A i \in Job : input'[i].at # "idle" => input[i].at # "idle" \/ i \in foreground
        OBVIOUS
      <3>3. state[Shell] = "BLOCKED" /\ pending[Shell] = None /\ input[Shell].at = "idle"
              => state'[Shell] = "BLOCKED" /\ pending'[Shell] = None /\ input'[Shell].at = "idle"
        BY <3>1
      <3> QED BY <1>1, <1>8, <1>9, <3>2, <3>3, FrontsKept
    <2> QED BY <2>1, <2>2
  <1>11. Counted(state, Readings, ReadUnits)'
    <2>1. PICK P, Q : P = Readings /\ Q = Readings'
      OBVIOUS
    <2>2. P = Q
      BY <2>1 DEF Readings, Reading, Waits
    <2>3. SameDue(state, P, state', Q)
      BY <1>1, <1>8, <2>1, <2>2 DEF SameDue, Lives
    <2>4. Counted(state', Q, ReadUnits)
      BY <1>1, <2>1, <2>2, <2>3, CountSteps
    <2>5. ReadUnits' = ReadUnits
      BY DEF ReadUnits
    <2> QED BY <2>1, <2>4, <2>5 DEF Counted
  <1>12. Counted(state, Dues, WriteUnits)'
    <2>1. PICK P, Q : P = Dues /\ Q = Dues'
      OBVIOUS
    <2>2. P = Q
      BY <2>1 DEF Dues, Due, Waits
    <2>3. SameDue(state, P, state', Q)
      BY <1>1, <1>8, <2>1, <2>2 DEF SameDue, Lives
    <2>4. Counted(state', Q, WriteUnits)
      BY <1>1, <2>1, <2>2, <2>3, CountSteps
    <2>5. WriteUnits' = WriteUnits
      BY DEF WriteUnits
    <2> QED BY <2>1, <2>4, <2>5 DEF Counted
  <1> QED BY <1>4, <1>7, <1>10, <1>11, <1>12, StdinUnitsNext DEF Units

(* Steps that leave the pipe alone.                                         *)
LEMMA CalmUnits ==
  ASSUME Units, UNCHANGED <<stdin, pending, idleKeys>>, Types', Fronts',
         \A p \in Process : Lives(p)' <=> Lives(p),
         \A p \in Process : state[p] \in {"BLOCKED", "EXITED"} => state'[p] = state[p],
         \A r \in Reader : input'[r].at = "reading" <=> input[r].at = "reading"
  PROVE  Units'
  <1>1. /\ Types /\ Waiters /\ Fronts /\ StdinUnits
        /\ Counted(state, Readings, ReadUnits) /\ Counted(state, Dues, WriteUnits)
        /\ Readings \in SUBSET Process /\ Dues \in SUBSET Process /\ WriteUnits \in Int /\ ReadUnits \in Int
    BY UnitTypes
  <1>2. Waiters'
    <2>1. \A p \in Process \cup {"idle"} : Waits(p, stdin.readSem) =>
             /\ p \in Reader /\ input'[p].at = "reading" /\ pending[p] = None
             /\ state'[p] \in {"BLOCKED", "EXITED"}
      BY <1>1, ProcessFinite DEF Waiters
    <2>2. \A p \in Process : Waits(p, stdin.writeSem) => state'[p] \in {"BLOCKED", "EXITED"}
      BY <1>1 DEF Waiters
    <2> QED BY <1>1, <2>1, <2>2 DEF Waiters, Waits, Distinct
  <1>3. Counted(state, Readings, ReadUnits)'
    <2>1. PICK P, Q : P = Readings /\ Q = Readings'
      OBVIOUS
    <2>2. P = Q
      BY <2>1 DEF Readings, Reading, Waits
    <2>3. SameDue(state, P, state', Q)
      BY <1>1, <2>1, <2>2 DEF SameDue, Lives
    <2>4. Counted(state', Q, ReadUnits)
      BY <1>1, <2>1, <2>2, <2>3, CountSteps
    <2>5. ReadUnits' = ReadUnits
      BY DEF ReadUnits
    <2> QED BY <2>1, <2>4, <2>5 DEF Counted
  <1>4. Counted(state, Dues, WriteUnits)'
    <2>1. PICK P, Q : P = Dues /\ Q = Dues'
      OBVIOUS
    <2>2. P = Q
      BY <2>1 DEF Dues, Due, Waits
    <2>3. SameDue(state, P, state', Q)
      BY <1>1, <2>1, <2>2 DEF SameDue, Lives
    <2>4. Counted(state', Q, WriteUnits)
      BY <1>1, <2>1, <2>2, <2>3, CountSteps
    <2>5. WriteUnits' = WriteUnits
      BY DEF WriteUnits
    <2> QED BY <2>1, <2>4, <2>5 DEF Counted
  <1> QED BY <1>2, <1>3, <1>4, StdinUnitsNext DEF Units

(* The reads.  Whoever reads runs, as the shell at its line or as a job in  *)
(* the foreground.                                                          *)
MayRead(r) == /\ r \in Reader /\ Runs(r)
              /\ (r = Shell /\ shell.at = "line") \/ (r \in Job /\ r \in foreground)

LEMMA GetUnits ==
  ASSUME Units, NEW r \in Reader, MayRead(r), NEW x, FetchStep(x),
         input' = [input EXCEPT ![r] = [at |-> "got", char |-> Head(stdin.chars)]],
         UNCHANGED <<shift, ctrl, shell, foreground, typed, printed, clean>>, cursorActive' = FALSE,
         x.readSem.waiters = stdin.readSem.waiters,
         \/ input[r].at = "idle" /\ x.readSem.value = stdin.readSem.value - 1
         \/ input[r].at = "reading" /\ x.readSem.value = stdin.readSem.value
  PROVE  Units'
  <1>1. /\ Types /\ Waiters /\ Fronts /\ StdinUnits
        /\ stdin \in Stdins /\ stdin.chars \in Seq(Char) /\ Len(stdin.chars) \in Nat
        /\ stdin.readSem.value \in Nat /\ foreground \subseteq Job
        /\ Counted(state, Readings, ReadUnits)
        /\ Readings \in SUBSET Process /\ ReadUnits \in Int
        /\ \A q \in Process : Waits(q, stdin.writeSem) => ~Waits(q, stdin.readSem)
        /\ state[Shell] = "BLOCKED" /\ pending[Shell] = None /\ input[Shell].at = "idle"
             => ~Waits(Shell, stdin.readSem) /\ ~Waits(Shell, stdin.writeSem)
    BY UnitTypes
  <1>2. /\ state[r] = "READY" /\ pending[r] = None /\ r \in Process
        /\ ((r = Shell /\ shell.at = "line") \/ (r \in Job /\ r \in foreground))
    BY ProcessFinite DEF MayRead, Runs, Ready
  <1>3. /\ stdin' \in Stdins /\ stdin'.readSem = x.readSem
        /\ Len(stdin'.chars) = Len(stdin.chars) - 1 /\ Head(stdin.chars) \in Char
        /\ state' \in [Process -> {"none", "READY", "BLOCKED", "EXITED"}]
        /\ \A p \in Process : Lives(p)' <=> Lives(p)
        /\ \A p \in Process : state'[p] # state[p] => Waits(p, stdin.writeSem)
        /\ Distinct(stdin.writeSem)'
        /\ \A p \in Process : Waits(p, stdin'.writeSem) => Waits(p, stdin.writeSem) /\ state'[p] = state[p]
        /\ Counted(state, Dues, WriteUnits)'
    BY <1>1, Fetches
  <1>4. pending' = pending /\ idleKeys' = idleKeys
    BY DEF FetchStep
  <1>5. Shell \in Process /\ Shell \in Reader /\ Reader \subseteq Process /\ Job \subseteq Reader
        /\ "idle" \notin Process /\ Shell \notin Job
    BY ProcessFinite
  <1>6. /\ input' \in [Reader -> [at : {"idle", "reading", "got"}, char : Char \cup {None}]]
        /\ input'[r].at = "got" /\ input'[r].char \in Char /\ \A q \in Reader : q # r => input'[q] = input[q]
    BY <1>1, <1>3 DEF Types
  <1>7. Types'
    BY <1>1, <1>3, <1>4, <1>6 DEF Types
  <1>8. \A p : Waits(p, stdin'.readSem) <=> Waits(p, stdin.readSem)
    BY <1>3 DEF Waits
  <1>9. ~Waits(r, stdin.readSem)
    BY <1>1, <1>2 DEF Waiters
  <1>10. Waiters'
    <2>1. Distinct(stdin.readSem)'
      BY <1>1, <1>3 DEF Distinct, Waiters
    <2>2. \A p \in Process \cup {"idle"} : Waits(p, stdin'.readSem) =>
             /\ p \in Reader /\ input'[p].at = "reading"
             /\ pending'[p] = None /\ state'[p] \in {"BLOCKED", "EXITED"}
      BY <1>1, <1>3, <1>4, <1>5, <1>6, <1>8, <1>9 DEF Waiters
    <2>3. \A p \in Process : Waits(p, stdin'.writeSem) =>
             pending'[p] # None /\ state'[p] \in {"BLOCKED", "EXITED"}
      BY <1>1, <1>3, <1>4 DEF Waiters
    <2> QED BY <1>3, <2>1, <2>2, <2>3 DEF Waiters, Waits
  <1>11. Fronts'
    <2>1. Lives(Shell)'
      BY <1>1, <1>3, <1>5 DEF Fronts
    <2>2. \A j \in Job : input'[j].at # "idle" => input[j].at # "idle" \/ j \in foreground
      BY <1>2, <1>5, <1>6
    <2>3. input'[Shell].at # "idle" => input[Shell].at # "idle" \/ shell.at = "line"
      BY <1>2, <1>5, <1>6
    <2>4. state[Shell] = "BLOCKED" /\ pending[Shell] = None /\ input[Shell].at = "idle"
            => state'[Shell] = "BLOCKED" /\ pending'[Shell] = None /\ input'[Shell].at = "idle"
      BY <1>1, <1>2, <1>3, <1>4, <1>5, <1>6
    <2> QED BY <1>1, <1>3, <2>1, <2>2, <2>3, <2>4, FrontsKept
  <1>12. Counted(state, Readings, ReadUnits)'
    <2>1. PICK P, Q, n, m : P = Readings /\ Q = Readings' /\ n = ReadUnits /\ m = ReadUnits'
      OBVIOUS
    <2>2. \A p : p \in P <=> p \in Reader /\ input[p].at = "reading" /\ ~Waits(p, stdin.readSem)
      BY <2>1 DEF Readings, Reading
    <2>3. \A p : p \in Q <=> p \in Reader /\ input'[p].at = "reading" /\ ~Waits(p, stdin.readSem)
      BY <1>8, <2>1 DEF Readings, Reading, Waits
    <2>4. P \in SUBSET Process /\ Q \in SUBSET Process
      BY <1>5, <2>2, <2>3
    <2>5. PICK l \in Nat, v \in Nat : l = Len(stdin.chars) /\ v = stdin.readSem.value
      BY <1>1
    <2>6. n = l - v
      BY <2>1, <2>5 DEF ReadUnits
    <2>7. CASE input[r].at = "idle" /\ x.readSem.value = stdin.readSem.value - 1
      <3>1. m = (l - 1) - (v - 1)
        BY <1>3, <2>1, <2>5, <2>7 DEF ReadUnits
      <3>2. m = n
        BY <2>6, <3>1
      <3>3. SameDue(state, P, state', Q)
        BY <1>3, <1>5, <1>6, <2>2, <2>3, <2>7 DEF SameDue, Lives
      <3>4. Counted(state', Q, n)
        BY <1>1, <2>1, <2>4, <3>3, CountSteps
      <3> QED BY <2>1, <3>2, <3>4 DEF Counted
    <2>8. CASE input[r].at = "reading" /\ x.readSem.value = stdin.readSem.value
      <3>1. m = (l - 1) - v
        BY <1>3, <2>1, <2>5, <2>8 DEF ReadUnits
      <3>2. m = n - 1
        BY <2>6, <3>1
      <3>3. OneLess(state, P, state', Q, r)
        BY <1>2, <1>3, <1>5, <1>6, <1>9, <2>2, <2>3, <2>8 DEF OneLess, Lives
      <3>4. Counted(state', Q, n - 1)
        BY <1>1, <2>1, <2>4, <3>3, CountSteps
      <3> QED BY <2>1, <3>2, <3>4 DEF Counted
    <2> QED BY <2>7, <2>8
  <1> QED BY <1>3, <1>7, <1>10, <1>11, <1>12, StdinUnitsNext DEF Units

LEMMA ReadReturnsUnits ==
  ASSUME Units, NEW r \in Reader, ReadReturns(r)
  PROVE  Units' /\ Head(stdin.chars) \in Char /\ MayRead(r)
  <1>1. /\ Types /\ Waiters /\ Fronts /\ stdin \in Stdins /\ stdin.chars \in Seq(Char) /\ Len(stdin.chars) \in Nat
        /\ stdin.readSem.value \in Nat /\ Counted(state, Readings, ReadUnits)
        /\ Readings \in SUBSET Process /\ ReadUnits \in Int /\ foreground \subseteq Job /\ StdinUnits
    BY UnitTypes
  <1>2. /\ Runs(r) /\ input[r].at = "reading" /\ GetsChar(r, stdin)
        /\ state' = Wake(state, Resumed(stdin.writeSem))
        /\ UNCHANGED <<shift, ctrl, pending, shell, foreground, typed, printed, idleKeys, clean>>
    BY DEF ReadReturns, keyboard, counters
  <1>3. r \in Process /\ state[r] = "READY"
    BY <1>2, ProcessFinite DEF Runs, Ready
  <1>4. r \in Readings
    BY <1>1, <1>2, <1>3 DEF Readings, Reading, Waiters
  <1>5. ReadUnits > 0
    BY <1>1, <1>3, <1>4, CountPositive
  <1>6. stdin.chars # <<>>
    <2>1. PICK l \in Nat, v \in Nat : l = Len(stdin.chars) /\ v = stdin.readSem.value
      BY <1>1
    <2>2. l - v > 0
      BY <1>5, <2>1 DEF ReadUnits
    <2>3. l # 0
      BY <2>2
    <2> QED BY <2>1, <2>3
  <1>7. FetchStep(stdin)
    BY <1>1, <1>2, <1>6 DEF FetchStep, GetsChar
  <1>8. MayRead(r)
    BY <1>1, <1>2, ProcessFinite DEF MayRead, Fronts, Reader
  <1>9. Head(stdin.chars) \in Char
    BY <1>1, <1>7, Fetches
  <1> QED BY <1>2, <1>7, <1>8, <1>9, GetUnits DEF GetsChar

LEMMA ReadUnitsNext ==
  ASSUME Units, NEW r \in Reader, MayRead(r), input[r].at = "idle", ReadStdin(r)
  PROVE  Units' /\ (stdin.readSem.value > 0 => Head(stdin.chars) \in Char)
  <1>1. /\ Types /\ Waiters /\ Fronts /\ stdin \in Stdins /\ stdin.chars \in Seq(Char) /\ Len(stdin.chars) \in Nat
        /\ stdin.readSem \in Semaphore
        /\ stdin.readSem.value \in Nat /\ Counted(state, Readings, ReadUnits)
        /\ Readings \in SUBSET Process /\ ReadUnits \in Int /\ foreground \subseteq Job /\ StdinUnits
        /\ Counted(state, Dues, WriteUnits) /\ Dues \in SUBSET Process /\ WriteUnits \in Int
        /\ \A q \in Process : Waits(q, stdin.writeSem) => ~Waits(q, stdin.readSem)
    BY UnitTypes
  <1>2. UNCHANGED <<shift, ctrl, pending, shell, foreground, typed, printed, idleKeys, clean>>
    BY DEF ReadStdin, keyboard, counters
  <1>3. /\ state[r] = "READY" /\ pending[r] = None /\ r \in Process
        /\ ((r = Shell /\ shell.at = "line") \/ (r \in Job /\ r \in foreground))
    BY ProcessFinite DEF MayRead, Runs, Ready
  <1>4. CASE /\ stdin.readSem.value > 0
             /\ GetsChar(r, [stdin EXCEPT !.readSem = Taken(@)])
             /\ state' = Wake(state, Resumed(stdin.writeSem))
    <2>1. PICK x : x = [stdin EXCEPT !.readSem = Taken(stdin.readSem)]
      OBVIOUS
    <2>2. /\ Taken(stdin.readSem) \in Semaphore /\ Taken(stdin.readSem).value = stdin.readSem.value - 1
          /\ Taken(stdin.readSem).waiters = stdin.readSem.waiters
      BY <1>1, <1>4, TakenIs
    <2>3. /\ x \in Stdins /\ x.chars = stdin.chars /\ x.writeSem = stdin.writeSem
          /\ x.readSem = Taken(stdin.readSem) /\ GetsChar(r, x)
      BY <1>1, <1>4, <2>1, <2>2 DEF Stdins
    <2>4. stdin.chars # <<>>
      <3>1. PICK l \in Nat, v \in Nat : l = Len(stdin.chars) /\ v = stdin.readSem.value
        BY <1>1
      <3>2. l - v >= 0 /\ v > 0
        BY <1>1, <1>4, <3>1, CountNatural DEF ReadUnits
      <3>3. l # 0
        BY <3>2
      <3> QED BY <3>1, <3>3
    <2>5. FetchStep(x)
      BY <1>2, <1>4, <2>3, <2>4 DEF FetchStep, GetsChar
    <2>6. Head(stdin.chars) \in Char
      BY <1>1, <2>5, Fetches
    <2> QED BY <1>2, <2>2, <2>3, <2>5, <2>6, GetUnits DEF GetsChar
  <1>5. CASE /\ stdin.readSem.value = 0
             /\ stdin' = [stdin EXCEPT !.readSem = Enlisted(@, r)]
             /\ state' = [state EXCEPT ![r] = "BLOCKED"]
             /\ input' = [input EXCEPT ![r] = [at |-> "reading", char |-> None]]
             /\ cursorActive' = TRUE
    <2>1. ~Waits(r, stdin.readSem) /\ ~Waits(r, stdin.writeSem)
      BY <1>1, <1>3 DEF Waiters
    <2>2. /\ Enlisted(stdin.readSem, r) \in Semaphore /\ Distinct(Enlisted(stdin.readSem, r))
          /\ Enlisted(stdin.readSem, r).value = stdin.readSem.value
          /\ \A q : Waits(q, Enlisted(stdin.readSem, r)) <=> Waits(q, stdin.readSem) \/ q = r
      BY <1>1, <1>3, <2>1, EnlistedIs DEF Waiters
    <2>3. /\ stdin' \in Stdins /\ stdin'.chars = stdin.chars /\ stdin'.writeSem = stdin.writeSem
          /\ stdin'.readSem = Enlisted(stdin.readSem, r)
      BY <1>1, <1>5, <2>2 DEF Stdins
    <2>4. /\ state' \in [Process -> {"none", "READY", "BLOCKED", "EXITED"}]
          /\ \A q \in Process : (q # r => state'[q] = state[q])
          /\ state'[r] = "BLOCKED"
      BY <1>1, <1>3, <1>5 DEF Types
    <2>5. /\ input' \in [Reader -> [at : {"idle", "reading", "got"}, char : Char \cup {None}]]
          /\ input'[r].at = "reading" /\ \A q \in Reader : q # r => input'[q] = input[q]
      BY <1>1, <1>5 DEF Types
    <2>6. \A q \in Process : Lives(q)' <=> Lives(q)
      BY <1>3, <2>4 DEF Lives
    <2>7. Types'
      BY <1>1, <1>2, <1>5, <2>3, <2>4, <2>5 DEF Types
    <2>8. Waiters'
      <3>1. Distinct(stdin.readSem)' /\ Distinct(stdin.writeSem)'
        BY <1>1, <2>2, <2>3 DEF Distinct, Waiters
      <3>2. \A q \in Process \cup {"idle"} : Waits(q, stdin'.readSem) =>
               /\ q \in Reader /\ input'[q].at = "reading"
               /\ pending'[q] = None /\ state'[q] \in {"BLOCKED", "EXITED"}
        BY <1>1, <1>2, <1>3, <2>2, <2>3, <2>4, <2>5, ProcessFinite DEF Waiters
      <3>3. \A q \in Process : Waits(q, stdin'.writeSem) =>
               pending'[q] # None /\ state'[q] \in {"BLOCKED", "EXITED"}
        BY <1>1, <1>2, <2>1, <2>3, <2>4 DEF Waiters
      <3> QED BY <3>1, <3>2, <3>3 DEF Waiters, Waits
    <2>9. Fronts'
      <3>1. Lives(Shell)'
        BY <1>1, <2>6, ProcessFinite DEF Fronts
      <3>2. \A j \in Job : input'[j].at # "idle" => input[j].at # "idle" \/ j \in foreground
        BY <1>3, <2>5, ProcessFinite
      <3>3. input'[Shell].at # "idle" => input[Shell].at # "idle" \/ shell.at = "line"
        BY <1>3, <2>5, ProcessFinite
      <3>4. state[Shell] = "BLOCKED" /\ pending[Shell] = None /\ input[Shell].at = "idle"
              => state'[Shell] = "BLOCKED" /\ pending'[Shell] = None /\ input'[Shell].at = "idle"
        BY <1>2, <1>3, <2>4, <2>5, ProcessFinite
      <3> QED BY <1>1, <1>2, <2>6, <3>1, <3>2, <3>3, <3>4, FrontsKept
    <2>10. Counted(state, Readings, ReadUnits)'
      <3>1. PICK P, Q : P = Readings /\ Q = Readings'
        OBVIOUS
      <3>2. \A q : q \in P <=> q \in Reader /\ input[q].at = "reading" /\ ~Waits(q, stdin.readSem)
        BY <3>1 DEF Readings, Reading
      <3>3. \A q : q \in Q <=> q \in Reader /\ input'[q].at = "reading" /\ ~Waits(q, stdin'.readSem)
        BY <3>1 DEF Readings, Reading, Waits
      <3>4. P = Q
        BY <2>2, <2>3, <2>5, <3>2, <3>3
      <3>5. SameDue(state, P, state', Q)
        BY <1>1, <2>6, <3>1, <3>4 DEF SameDue, Lives
      <3>6. Counted(state', Q, ReadUnits)
        BY <1>1, <3>1, <3>4, <3>5, CountSteps
      <3>7. ReadUnits' = ReadUnits
        BY <2>2, <2>3 DEF ReadUnits
      <3> QED BY <3>1, <3>6, <3>7 DEF Counted
    <2>11. Counted(state, Dues, WriteUnits)'
      <3>1. PICK P, Q : P = Dues /\ Q = Dues'
        OBVIOUS
      <3>2. P = Q
        BY <1>2, <2>3, <3>1 DEF Dues, Due, Waits
      <3>3. SameDue(state, P, state', Q)
        BY <1>1, <2>6, <3>1, <3>2 DEF SameDue, Lives
      <3>4. Counted(state', Q, WriteUnits)
        BY <1>1, <3>1, <3>2, <3>3, CountSteps
      <3>5. WriteUnits' = WriteUnits
        BY <1>2, <2>3 DEF WriteUnits
      <3> QED BY <3>1, <3>4, <3>5 DEF Counted
    <2> QED BY <1>5, <2>7, <2>8, <2>9, <2>10, <2>11, StdinUnitsNext DEF Units
  <1> QED BY <1>4, <1>5 DEF ReadStdin

-----------------------------------------------------------------------------
(* The steps of the shell and of the jobs.                                  *)
Lines == [at : {"boot", "prompt", "line", "run", "waitpid", "wait"},
          line : Seq(Char), tabs : SUBSET (0..(BUFFER_LENGTH - 1))]

LEMMA EditedIs ==
  ASSUME Types, NEW c \in Char, Len(shell.line) # BUFFER_LENGTH
  PROVE  /\ Edited(c).line \in Seq(Char) /\ Len(Edited(c).line) <= BUFFER_LENGTH
         /\ Edited(c).tabs \in SUBSET (0..(BUFFER_LENGTH - 1))
  <1>1. /\ shell \in Lines /\ shell.line \in Seq(Char) /\ shell.tabs \in SUBSET (0..(BUFFER_LENGTH - 1))
        /\ BUFFER_LENGTH \in Nat \ {0} /\ Len(shell.line) \in Nat /\ Len(shell.line) <= BUFFER_LENGTH
    BY TerminalAssumption DEF Types, Lines
  <1>2. CASE c # Backspace
    <2>1. Edited(c).line = Append(shell.line, c) /\ Edited(c).tabs = shell.tabs \ {Len(shell.line)}
      BY <1>2 DEF Edited, Adds, Edit
    <2>2. Len(shell.line) + 1 <= BUFFER_LENGTH
      BY <1>1
    <2> QED BY <1>1, <2>1, <2>2
  <1>3. CASE c = Backspace /\ shell.line = <<>>
    <2>1. Edited(c).line = <<>> /\ Edited(c).tabs = shell.tabs
      BY <1>3 DEF Edited, Edit
    <2> QED BY <1>1, <1>3, <2>1
  <1>4. CASE c = Backspace /\ shell.line # <<>>
    <2>1. /\ Edited(c).line = Front(shell.line)
          /\ Edited(c).tabs = (shell.tabs \ {Len(shell.line)})
                               \cup Places(Len(shell.line) - 1, Last(shell.line) = Tab)
      BY <1>4 DEF Edited, Edit, Deletes
    <2>2. Front(shell.line) \in Seq(Char) /\ Len(Front(shell.line)) <= BUFFER_LENGTH
      BY <1>1, <1>4 DEF Front
    <2>3. Len(shell.line) - 1 \in 0..(BUFFER_LENGTH - 1)
      BY <1>1, <1>4
    <2>4. Places(Len(shell.line) - 1, Last(shell.line) = Tab) \subseteq 0..(BUFFER_LENGTH - 1)
      BY <2>3 DEF Places
    <2> QED BY <1>1, <2>1, <2>2, <2>4
  <1> QED BY <1>2, <1>3, <1>4

LEMMA NextLineIs ==
  ASSUME Types, NEW at \in {"prompt", "waitpid"}, NextLine(at)
  PROVE  shell' \in Lines /\ Len(shell'.line) <= BUFFER_LENGTH /\ shell'.at = at
  <1>1. /\ shell.line \in Seq(Char) /\ shell.tabs \in SUBSET (0..(BUFFER_LENGTH - 1))
        /\ BUFFER_LENGTH \in Nat \ {0} /\ Len(shell.line) \in Nat /\ Len(shell.line) <= BUFFER_LENGTH
    BY TerminalAssumption DEF Types
  <1>2. PICK tt : tt = {i - 1 : i \in {k \in DOMAIN shell.line : shell.line[k] = Tab}}
    OBVIOUS
  <1>3. tt \subseteq 0..(BUFFER_LENGTH - 1)
    <2>1. \A i \in DOMAIN shell.line : i - 1 \in 0..(BUFFER_LENGTH - 1)
      BY <1>1
    <2> QED BY <1>2, <2>1
  <1>4. PICK X : shell' = [at |-> at, line |-> <<>>, tabs |-> (shell.tabs \cup tt) \ X]
    BY <1>2 DEF NextLine
  <1>5. (shell.tabs \cup tt) \ X \in SUBSET (0..(BUFFER_LENGTH - 1)) /\ <<>> \in Seq(Char)
    <2>1. <<>> \in Seq(Char)
      OBVIOUS
    <2>2. PICK U : U = 0..(BUFFER_LENGTH - 1)
      OBVIOUS
    <2>3. (shell.tabs \cup tt) \ X \in SUBSET U
      BY <1>1, <1>3, <2>2, Zenon
    <2> QED BY <2>1, <2>2, <2>3
  <1> QED BY <1>1, <1>4, <1>5 DEF Lines

(* The shell goes on while no job in the foreground lives.                  *)
LEMMA ShellGoesOn ==
  ASSUME Units, UNCHANGED <<shift, ctrl, stdin, pending, foreground, typed, printed, idleKeys>>,
         {cursorActive', clean'} \subseteq BOOLEAN,
         shell' \in Lines, Len(shell'.line) <= BUFFER_LENGTH, state' = state,
         input' = input \/ (input' = [input EXCEPT ![Shell] = Idling] /\ input[Shell].at = "got"),
         input'[Shell].at # "idle" => shell'.at = "line",
         \A j \in foreground : ~Lives(j)
  PROVE  Units'
  <1>1. Types /\ Fronts
    BY UnitTypes
  <1>2. Shell \in Reader /\ Shell \notin Job /\ Job \subseteq Reader
    BY ProcessFinite
  <1>3. Idling \in [at : {"idle", "reading", "got"}, char : Char \cup {None}] /\ Idling.at = "idle"
    BY DEF Idling
  <1>4. /\ input' \in [Reader -> [at : {"idle", "reading", "got"}, char : Char \cup {None}]]
        /\ \A r \in Reader : r # Shell => input'[r] = input[r]
        /\ input'[Shell] = input[Shell] \/ (input'[Shell] = Idling /\ input[Shell].at = "got")
    BY <1>1, <1>2, <1>3 DEF Types
  <1>5. \A r \in Reader : input'[r].at = "got" => input'[r].char \in Char
    BY <1>1, <1>3, <1>4 DEF Types
  <1>6. Types'
    BY <1>1, <1>4, <1>5 DEF Types, Lines
  <1>7. Fronts'
    BY <1>1, <1>2, <1>4 DEF Fronts, Lives
  <1>8. \A r \in Reader : input'[r].at = "reading" <=> input[r].at = "reading"
    BY <1>3, <1>4
  <1>9. \A p \in Process : Lives(p)' <=> Lives(p)
    BY DEF Lives
  <1> QED BY <1>6, <1>7, <1>8, <1>9, CalmUnits

LEMMA NoJobWaits ==
  ASSUME Fronts, shell.at \notin {"waitpid", "wait"} \/ (shell.at = "wait" /\ Runs(Shell))
  PROVE  \A j \in foreground : ~Lives(j)
  BY DEF Fronts, Runs, Ready

LEMMA ShellUnits ==
  ASSUME Units, ShellBoots \/ ShellPrompts \/ ShellEdits \/ ShellWaited
  PROVE  Units'
  <1>1. Types /\ Fronts /\ shell \in Lines /\ Len(shell.line) <= BUFFER_LENGTH
        /\ {cursorActive, clean} \subseteq BOOLEAN
    BY UnitTypes DEF Types, Lines
  <1>2. \A at \in {"boot", "prompt", "line", "run", "waitpid", "wait"} :
          /\ [shell EXCEPT !.at = at] \in Lines /\ [shell EXCEPT !.at = at].line = shell.line
          /\ [shell EXCEPT !.at = at].at = at
    BY <1>1 DEF Lines
  <1>3. CASE ShellBoots
    BY <1>1, <1>2, <1>3, NoJobWaits, ShellGoesOn DEF ShellBoots, ShellAt, ShellGoes, keyboard, counters
  <1>4. CASE ShellPrompts
    BY <1>1, <1>2, <1>4, NoJobWaits, ShellGoesOn DEF ShellPrompts, ShellAt, ShellGoes, keyboard, counters
  <1>5. CASE ShellWaited
    BY <1>1, <1>2, <1>5, NoJobWaits, ShellGoesOn DEF ShellWaited, ShellAt, ShellGoes, keyboard, counters
  <1>6. CASE ShellEdits
    <2>1. /\ shell.at = "line" /\ input[Shell].at = "got"
          /\ input' = [input EXCEPT ![Shell] = Idling]
          /\ UNCHANGED <<cursorActive, shift, ctrl, stdin, state, pending, foreground, typed, printed, idleKeys>>
      BY <1>6 DEF ShellEdits, keyboard, counters
    <2>2. PICK c : c = input[Shell].char
      OBVIOUS
    <2>3. c \in Char
      BY <1>1, <2>1, <2>2, ProcessFinite DEF Types
    <2>4. input'[Shell].at = "idle"
      BY <1>1, <2>1, ProcessFinite DEF Types, Idling
    <2>5. \A j \in foreground : ~Lives(j)
      BY <1>1, <2>1, NoJobWaits
    <2>6. CASE c \in {NewLineChar, Eof} \/ Len(shell.line) = BUFFER_LENGTH
      <3>1. shell' = [shell EXCEPT !.at = "run"] /\ clean' = FALSE
        BY <1>6, <2>2, <2>6 DEF ShellEdits
      <3> QED BY <1>1, <1>2, <2>1, <2>4, <2>5, <3>1, ShellGoesOn
    <2>7. CASE ~(c \in {NewLineChar, Eof} \/ Len(shell.line) = BUFFER_LENGTH)
      <3>1. shell' = [shell EXCEPT !.line = Edited(c).line, !.tabs = Edited(c).tabs]
            /\ clean' = (clean /\ ~MeetsTab(c))
        BY <1>6, <2>2, <2>7 DEF ShellEdits
      <3>2. clean' \in BOOLEAN
        BY <3>1
      <3>3. shell' \in Lines /\ Len(shell'.line) <= BUFFER_LENGTH
        BY <1>1, <2>3, <2>7, <3>1, EditedIs DEF Lines
      <3> QED BY <1>1, <2>1, <2>4, <2>5, <3>2, <3>3, ShellGoesOn
    <2> QED BY <2>6, <2>7
  <1> QED BY <1>3, <1>4, <1>5, <1>6

LEMMA ShellRunsUnits ==
  ASSUME Units, ShellRuns
  PROVE  Units'
  <1>1. Types /\ Fronts /\ {cursorActive, clean} \subseteq BOOLEAN /\ foreground \subseteq Job
        /\ state \in [Process -> {"none", "READY", "BLOCKED", "EXITED"}]
    BY UnitTypes DEF Types
  <1>2. /\ shell.at = "run" /\ input[Shell].at = "idle"
        /\ UNCHANGED <<cursorActive, shift, ctrl, stdin, pending, input, typed, printed, idleKeys, clean>>
    BY DEF ShellRuns, ShellAt, keyboard, counters
  <1>3. \A j \in foreground : ~Lives(j)
    BY <1>1, <1>2, NoJobWaits
  <1>4. CASE NextLine("prompt") /\ UNCHANGED <<state, foreground>>
    <2>1. shell' \in Lines /\ Len(shell'.line) <= BUFFER_LENGTH
      BY <1>1, <1>4, NextLineIs
    <2> QED BY <1>1, <1>2, <1>3, <1>4, <2>1, ShellGoesOn
  <1>5. ASSUME NEW j \in Job, state[j] = "none", state' = [state EXCEPT ![j] = "READY"],
               \/ foreground' = foreground \cup {j} /\ NextLine("waitpid")
               \/ foreground' = foreground /\ NextLine("prompt")
        PROVE  Units'
    <2>1. j \in Process /\ j # Shell /\ Shell \in Process /\ Job \subseteq Process
      BY ProcessFinite
    <2>2. /\ state' \in [Process -> {"none", "READY", "BLOCKED", "EXITED"}]
          /\ state'[j] = "READY" /\ \A p \in Process : p # j => state'[p] = state[p]
      BY <1>1, <1>5, <2>1
    <2>3. \A p \in Process : Lives(p)' <=> Lives(p)
      BY <1>5, <2>2 DEF Lives
    <2>4. j \notin foreground
      BY <1>3, <1>5 DEF Lives
    <2>5. shell' \in Lines /\ Len(shell'.line) <= BUFFER_LENGTH
          /\ shell'.at = IF foreground' = foreground THEN "prompt" ELSE "waitpid"
      <3>1. foreground' = foreground \cup {j} => foreground' # foreground
        BY <2>4
      <3> QED BY <1>1, <1>5, <3>1, NextLineIs
    <2>6. Types'
      BY <1>1, <1>2, <1>5, <2>2, <2>5 DEF Types, Lines
    <2>7. Fronts'
      <3>1. Lives(Shell)'
        BY <1>1, <2>1, <2>3 DEF Fronts
      <3>2. \A i \in foreground' : Lives(i)' => i = j /\ shell'.at = "waitpid"
        BY <1>1, <1>3, <1>5, <2>1, <2>3, <2>5
      <3>3. \A i \in Job : input'[i].at # "idle" => i \in foreground'
        BY <1>1, <1>2, <1>5 DEF Fronts
      <3> QED BY <1>2, <3>1, <3>2, <3>3 DEF Fronts
    <2>8. \A p \in Process : state[p] \in {"BLOCKED", "EXITED"} => state'[p] = state[p]
      BY <1>5, <2>2
    <2> QED BY <1>2, <2>3, <2>6, <2>7, <2>8, CalmUnits
  <1> QED BY <1>4, <1>5 DEF ShellRuns

LEMMA ShellWaitsUnits ==
  ASSUME Units, ShellWaits
  PROVE  Units'
  <1>1. Types /\ Fronts /\ {cursorActive, clean} \subseteq BOOLEAN /\ foreground \subseteq Job
        /\ state \in [Process -> {"none", "READY", "BLOCKED", "EXITED"}]
        /\ shell \in Lines /\ Len(shell.line) <= BUFFER_LENGTH
    BY UnitTypes DEF Types, Lines
  <1>2. /\ shell.at = "waitpid" /\ input[Shell].at = "idle" /\ state[Shell] = "READY" /\ pending[Shell] = None
        /\ shell' = [shell EXCEPT !.at = "wait"]
        /\ state' = IF \A j \in foreground : state[j] = "EXITED" THEN state
                    ELSE [state EXCEPT ![Shell] = "BLOCKED"]
        /\ UNCHANGED <<cursorActive, shift, ctrl, stdin, pending, input, foreground, typed, printed, idleKeys, clean>>
    BY DEF ShellWaits, ShellAt, ShellGoes, Runs, Ready, keyboard, counters
  <1>3. shell' \in Lines /\ shell'.line = shell.line /\ shell'.at = "wait"
    BY <1>1, <1>2 DEF Lines
  <1>4. Shell \in Process /\ Shell \notin Job /\ Job \subseteq Process
    BY ProcessFinite
  <1>5. /\ state' \in [Process -> {"none", "READY", "BLOCKED", "EXITED"}]
        /\ \A p \in Process : p # Shell => state'[p] = state[p]
        /\ state'[Shell] = "BLOCKED" \/ (state'[Shell] = "READY" /\ \A j \in foreground : state[j] = "EXITED")
    BY <1>1, <1>2, <1>4
  <1>6. Types'
    BY <1>1, <1>2, <1>3, <1>5 DEF Types, Lines
  <1>7. \A p \in Process : Lives(p)' <=> Lives(p)
    BY <1>2, <1>5 DEF Lives
  <1>8. Fronts'
    <2>1. Lives(Shell)'
      BY <1>1, <1>4, <1>7 DEF Fronts
    <2>2. \A j \in foreground : Lives(j)' => Lives(j) /\ state'[Shell] = "BLOCKED"
      BY <1>1, <1>4, <1>5, <1>7 DEF Lives
    <2> QED BY <1>1, <1>2, <1>3, <2>1, <2>2 DEF Fronts
  <1>9. \A p \in Process : state[p] \in {"BLOCKED", "EXITED"} => state'[p] = state[p]
    BY <1>2, <1>5
  <1> QED BY <1>2, <1>6, <1>7, <1>8, <1>9, CalmUnits

(* Steps after which nobody is elsewhere than before, but for a job that    *)
(* has done with its character.                                             *)
LEMMA QuietUnits ==
  ASSUME Units, UNCHANGED <<stdin, state, pending, shell, foreground, typed, idleKeys>>,
         {cursorActive', shift', ctrl', clean'} \subseteq BOOLEAN, printed' \in 0..MaxPrinted,
         \/ input' = input
         \/ \E j \in Job : input[j].at = "got" /\ input' = [input EXCEPT ![j] = Idling]
  PROVE  Units'
  <1>1. Types /\ Fronts /\ foreground \subseteq Job
    BY UnitTypes
  <1>2. Shell \in Reader /\ Shell \notin Job /\ Job \subseteq Reader
    BY ProcessFinite
  <1>3. Idling \in [at : {"idle", "reading", "got"}, char : Char \cup {None}] /\ Idling.at = "idle"
    BY DEF Idling
  <1>4. /\ input' \in [Reader -> [at : {"idle", "reading", "got"}, char : Char \cup {None}]]
        /\ \A r \in Reader : input'[r] = input[r] \/ (input'[r] = Idling /\ input[r].at = "got")
    BY <1>1, <1>2, <1>3 DEF Types
  <1>5. Types'
    <2>1. \A r \in Reader : input'[r].at = "got" => input'[r].char \in Char
      BY <1>1, <1>3, <1>4 DEF Types
    <2> QED BY <1>1, <1>4, <2>1 DEF Types
  <1>6. Fronts'
    <2>1. \A r \in Reader : input'[r].at # "idle" => input[r].at # "idle"
      BY <1>3, <1>4
    <2>2. input[Shell].at = "idle" => input'[Shell].at = "idle"
      BY <1>2, <2>1
    <2>3. \A p \in Process : Lives(p)' => Lives(p)
      BY DEF Lives
    <2>4. Lives(Shell)'
      BY <1>1 DEF Fronts, Lives
    <2> QED BY <1>1, <1>2, <2>1, <2>2, <2>3, <2>4, FrontsKept
  <1>7. \A r \in Reader : input'[r].at = "reading" <=> input[r].at = "reading"
    BY <1>3, <1>4
  <1>8. \A p \in Process : Lives(p)' <=> Lives(p)
    BY DEF Lives
  <1> QED BY <1>5, <1>6, <1>7, <1>8, CalmUnits

LEMMA PressUnits ==
  ASSUME Units, NEW k \in Key, PressKey(k)
  PROVE  Units'
  <1>1. UNCHANGED <<screen, cursorActive, shift, ctrl, input, shell, foreground, printed, clean>>
    BY DEF PressKey, console, keyboard
  <1>2. Types
    BY UnitTypes
  <1>3. Plain[k] \in Char /\ Shifted[k] \in Char /\ Eof \in Char
    BY DEF Char
  <1>4. \A c \in Char : WriteStdin(c) => Units'
    BY <1>1, KeyUnits
  <1>5. CASE KillCurrentForeground /\ UNCHANGED <<stdin, pending, typed, idleKeys>>
    <2>1. ASSUME NEW j \in foreground, state[j] # "EXITED", state' = Died(j)
          PROVE  Units'
      BY <1>1, <1>2, <1>5, <2>1, DeathUnits DEF Types, Lives
    <2>2. CASE UNCHANGED state
      BY <1>1, <1>2, <1>5, <2>2, QuietUnits DEF Types
    <2> QED BY <1>5, <2>1, <2>2 DEF KillCurrentForeground
  <1>6. CASE ~ctrl /\ WriteStdin(IF shift THEN Shifted[k] ELSE Plain[k])
    BY <1>3, <1>4, <1>6
  <1>7. CASE WriteStdin(Eof)
    BY <1>3, <1>4, <1>7
  <1> QED BY <1>5, <1>6, <1>7 DEF PressKey

LEMMA UnitsNext ==
  ASSUME Units, [Next]_vars
  PROVE  Units'
  <1>1. Types /\ Fronts
    BY UnitTypes
  <1>2. {cursorActive, shift, ctrl, clean} \subseteq BOOLEAN /\ printed \in 0..MaxPrinted
    BY <1>1 DEF Types
  <1>3. CASE UNCHANGED vars
    BY <1>2, <1>3, QuietUnits DEF vars
  <1>4. CASE ShiftKey
    BY <1>2, <1>4, QuietUnits DEF ShiftKey, console, counters
  <1>5. CASE CtrlKey
    BY <1>2, <1>5, QuietUnits DEF CtrlKey, console, counters
  <1>6. ASSUME NEW k \in Key, PressKey(k)
        PROVE  Units'
    BY <1>6, PressUnits
  <1>7. CASE Blink
    BY <1>2, <1>7, QuietUnits DEF Blink, keyboard, counters
  <1>8. CASE ShellReads
    <2>1. Shell \in Reader /\ MayRead(Shell) /\ input[Shell].at = "idle"
      BY <1>8, ProcessFinite DEF ShellReads, ShellAt, MayRead
    <2> QED BY <1>8, <2>1, ReadUnitsNext DEF ShellReads
  <1>9. CASE ReadReturns(Shell)
    BY <1>9, ReadReturnsUnits, ProcessFinite
  <1>10. CASE ShellBoots \/ ShellPrompts \/ ShellEdits \/ ShellWaited
    BY <1>10, ShellUnits
  <1>11. CASE ShellRuns
    BY <1>11, ShellRunsUnits
  <1>12. CASE ShellWaits
    BY <1>12, ShellWaitsUnits
  <1>13. ASSUME NEW p \in Process, StoresPending(p)
         PROVE  Units'
    BY <1>13, PendingUnits
  <1>14. ASSUME NEW j \in Job, JobStep(j)
         PROVE  Units'
    <2>1. j \in Reader /\ j \in Process
      BY ProcessFinite
    <2>2. CASE JobReads(j)
      <3>1. MayRead(j) /\ input[j].at = "idle"
        BY <2>1, <2>2 DEF JobReads, JobAt, MayRead
      <3> QED BY <2>1, <2>2, <3>1, ReadUnitsNext DEF JobReads
    <2>3. CASE ReadReturns(j)
      BY <2>1, <2>3, ReadReturnsUnits
    <2>4. CASE JobEchoes(j)
      BY <1>2, <2>4, QuietUnits DEF JobEchoes, JobAt, keyboard, counters
    <2>5. CASE JobPrints(j)
      <3>1. printed' \in 0..MaxPrinted
        BY <1>2, <2>5, TerminalAssumption DEF JobPrints
      <3> QED BY <1>2, <2>5, <3>1, QuietUnits DEF JobPrints, JobAt, keyboard
    <2>6. CASE JobEnds(j)
      <3>1. Lives(j)
        BY <2>6 DEF JobEnds, JobAt, Runs, Ready, Lives
      <3> QED BY <1>2, <2>6, <3>1, DeathUnits DEF JobEnds, console, keyboard, counters
    <2> QED BY <1>14, <2>2, <2>3, <2>4, <2>5, <2>6 DEF JobStep
  <1> QED BY <1>3, <1>4, <1>5, <1>6, <1>7, <1>8, <1>9, <1>10, <1>11, <1>12, <1>13, <1>14
          DEF Next, KeyStep, ShellStep

LEMMA UnitsInit ==
  ASSUME Init
  PROVE  Units
  <1>1. /\ stdin = [chars |-> <<>>, readSem |-> [value |-> 0, waiters |-> <<>>],
                    writeSem |-> [value |-> Capacity, waiters |-> <<>>]]
        /\ state = [p \in Process |-> IF p \in Job THEN "none" ELSE "READY"]
        /\ pending = [p \in Process |-> None] /\ input = [r \in Reader |-> Idling]
        /\ shell = [at |-> "boot", line |-> <<>>, tabs |-> {}] /\ foreground = {}
        /\ cursorActive = FALSE /\ shift = FALSE /\ ctrl = FALSE
        /\ typed = 0 /\ printed = 0 /\ idleKeys = 0 /\ clean = FALSE
    BY DEF Init
  <1>2. Capacity \in Nat /\ BUFFER_LENGTH \in Nat /\ MaxTyped \in Nat /\ MaxPrinted \in Nat
    BY TerminalAssumption
  <1>3. \A n \in Nat : [value |-> n, waiters |-> <<>>] \in Semaphore
    BY DEF Semaphore
  <1>4. Types
    <2>1. stdin \in Stdins
      BY <1>1, <1>2, <1>3 DEF Stdins
    <2>2. input \in [Reader -> [at : {"idle", "reading", "got"}, char : Char \cup {None}]]
          /\ \A r \in Reader : input[r].at = "got" => input[r].char \in Char
      BY <1>1 DEF Idling
    <2>3. Len(shell.line) <= BUFFER_LENGTH /\ shell.line \in Seq(Char)
      BY <1>1, <1>2
    <2>4. shell \in [at : {"boot", "prompt", "line", "run", "waitpid", "wait"},
                     line : Seq(Char), tabs : SUBSET (0..(BUFFER_LENGTH - 1))]
      BY <1>1
    <2>5. typed \in 0..MaxTyped /\ idleKeys \in 0..typed /\ printed \in 0..MaxPrinted
      BY <1>1, <1>2
    <2>6. state \in [Process -> {"none", "READY", "BLOCKED", "EXITED"}]
          /\ pending \in [Process -> Char \cup {None}]
      BY <1>1
    <2> QED BY <1>1, <2>1, <2>2, <2>3, <2>4, <2>5, <2>6 DEF Types
  <1>5. \A p : ~Waits(p, stdin.readSem) /\ ~Waits(p, stdin.writeSem)
    BY <1>1 DEF Waits
  <1>6. Waiters
    BY <1>1, <1>5 DEF Waiters, Distinct
  <1>7. Fronts
    BY <1>1, ProcessFinite DEF Fronts, Lives, Idling
  <1>8. Readings = {} /\ Dues = {}
    BY <1>1 DEF Readings, Dues, Reading, Due, Idling
  <1>9. ReadUnits = 0 /\ WriteUnits = 0
    BY <1>1, <1>2 DEF ReadUnits, WriteUnits
  <1>10. Counted(state, {}, 0)
    BY FS_EmptySet DEF Counted
  <1> QED BY <1>4, <1>6, <1>7, <1>8, <1>9, <1>10, UnitsAre DEF Units

(* The pipe stdin is sound: whoever waits for it waits once, stopped in the *)
(* call or in the handler that waits, and of the readers only the shell at  *)
(* its line or the one living job in the foreground is in a read            *)
(* (writeStdin, pipeRead, currentForeground).                               *)
THEOREM StdinStaysSound == Spec => []Units
  <1>1. Init => Units
    BY UnitsInit
  <1>2. Units /\ [Next]_vars => Units'
    BY UnitsNext
  <1> QED BY <1>1, <1>2, PTL DEF Spec

(* Every character and every place of stdin is counted or due, whatever     *)
(* Ctrl-C and idle do (semPost, semWait, keyboardHandler).                  *)
THEOREM StdinUnitsHold == Spec => []StdinUnits
  <1>1. Units => StdinUnits
    BY DEF Units
  <1> QED BY <1>1, StdinStaysSound, PTL

-----------------------------------------------------------------------------
(* The cursor.                                                              *)
LEMMA GlyphIs ==
  /\ {Blank, Star, NewLineChar} \subseteq Glyph \ {CursorChar, Backspace} /\ CursorChar \in Glyph
  /\ Char \subseteq Glyph \ {CursorChar}
  /\ DOMAIN Prompt = 1..Len(Prompt) /\ Len(Prompt) \in Nat
  /\ \A i \in 1..Len(Prompt) : Prompt[i] \in Glyph \ {CursorChar, Backspace, NewLineChar, Tab}
  <1>1. Prompt \in Seq(STRING \ {Backspace, NewLineChar, Tab, CursorChar}) /\ CursorChar \notin Char
    BY NamesAssumption
  <1>2. DOMAIN Prompt = 1..Len(Prompt) /\ Len(Prompt) \in Nat
        /\ \A i \in 1..Len(Prompt) : Prompt[i] \notin {Backspace, NewLineChar, Tab, CursorChar}
    BY <1>1
  <1>3. {Blank, Star, NewLineChar} \cap {CursorChar, Backspace} = {}
    BY DEF Blank, Star, NewLineChar, CursorChar, Backspace
  <1> QED BY <1>1, <1>2, <1>3 DEF Glyph

LEMMA Prints ==
  ASSUME NEW s \in Tidy(Glyph), NEW c \in Glyph \ {CursorChar}, c # Backspace \/ s \in Bare(Glyph)
  PROVE  PrintChar(s, c) \in Bare(Glyph)
  <1>1. CASE c # Backspace
    BY <1>1, GlyphIs, PrintCharKeeps, Bares
  <1>2. CASE s \in Bare(Glyph)
    <2>1. PICK G : G = Glyph \ {CursorChar}
      OBVIOUS
    <2>2. s \in Screens(G) /\ Blank \in G /\ c \in G
      BY <1>2, <2>1, GlyphIs DEF Bare
    <2>3. PrintChar(s, c) \in Screens(G)
      BY <2>2, PrintCharKeeps
    <2> QED BY <2>1, <2>3 DEF Bare
  <1> QED BY <1>1, <1>2

LEMMA PrintsAll ==
  ASSUME NEW s \in Tidy(Glyph), NEW chars, NEW n \in Nat, DOMAIN chars = 1..n,
         \A i \in 1..n : chars[i] \in Glyph \ {CursorChar}
  PROVE  /\ (\A i \in 1..n : chars[i] # Backspace) => PrintAll(s, chars) \in Tidy(Glyph)
         /\ s \in Bare(Glyph) => PrintAll(s, chars) \in Bare(Glyph)
  <1>1. (\A i \in 1..n : chars[i] # Backspace) => PrintAll(s, chars) \in Tidy(Glyph)
    BY GlyphIs, PrintAllKeeps, Bares
  <1>2. ASSUME s \in Bare(Glyph)
        PROVE  PrintAll(s, chars) \in Bare(Glyph)
    <2>1. PICK G : G = Glyph \ {CursorChar}
      OBVIOUS
    <2>2. s \in Screens(G) /\ Blank \in G /\ \A i \in 1..n : chars[i] \in G
      BY <1>2, <2>1, GlyphIs DEF Bare
    <2>3. PrintAll(s, chars) \in Screens(G)
      BY <2>2, PrintAllKeeps
    <2> QED BY <2>1, <2>3 DEF Bare
  <1> QED BY <1>1, <1>2

(* The dead stay dead.                                                      *)
LEMMA LivesNext ==
  ASSUME Units, [Next]_vars, NEW p \in Process, Lives(p)'
  PROVE  Lives(p)
  <1>1. Types /\ Waiters /\ stdin.readSem \in Semaphore /\ stdin.writeSem \in Semaphore
    BY UnitTypes
  <1>2. Distinct(stdin.readSem) /\ Distinct(stdin.writeSem)
        /\ state \in [Process -> {"none", "READY", "BLOCKED", "EXITED"}]
    BY <1>1 DEF Waiters, Types
  <1>3. CASE state' = Wake(state, Resumed(stdin.readSem)) \/ state' = Wake(state, Resumed(stdin.writeSem))
    BY <1>1, <1>2, <1>3, WakeIs
  <1>4. CASE state' = state
    BY <1>4 DEF Lives
  <1>5. ASSUME NEW q \in Process, state[q] \in {"none", "READY"},
               state' = [state EXCEPT ![q] = "BLOCKED"] \/ state' = [state EXCEPT ![q] = "READY"]
        PROVE  Lives(p)
    BY <1>2, <1>5 DEF Lives
  <1>6. ASSUME NEW j \in Job, state' = Died(j)
        PROVE  Lives(p)
    <2>1. Lives(Shell)
      BY UnitTypes DEF Fronts
    <2> QED BY <1>2, <1>6, <2>1, ProcessFinite DEF Died, Wake, Lives
  <1>7. \A c : WriteStdin(c) => Lives(p)
    BY <1>3, <1>4, <1>5 DEF WriteStdin, Runs, Ready
  <1>8. \A r \in Reader : Runs(r) /\ ReadStdin(r) => Lives(p)
    BY <1>3, <1>5, ProcessFinite DEF ReadStdin, Runs, Ready
  <1>9. \A r \in Reader : ReadReturns(r) => Lives(p)
    BY <1>3 DEF ReadReturns
  <1>10. \A k \in Key : PressKey(k) => Lives(p)
    BY <1>1, <1>4, <1>6, <1>7 DEF PressKey, KillCurrentForeground, Types
  <1>11. \A q \in Process : StoresPending(q) => Lives(p)
    BY <1>3 DEF StoresPending
  <1>12. ShellReads => Lives(p)
    BY <1>8, ProcessFinite DEF ShellReads, ShellAt
  <1>13. ShellRuns => Lives(p)
    BY <1>4, <1>5, ProcessFinite DEF ShellRuns
  <1>14. ShellWaits => Lives(p)
    BY <1>4, <1>5, ProcessFinite DEF ShellWaits, ShellAt, Runs, Ready
  <1>15. ShellBoots \/ ShellPrompts \/ ShellEdits \/ ShellWaited => Lives(p)
    BY <1>4 DEF ShellBoots, ShellPrompts, ShellEdits, ShellWaited
  <1>16. \A j \in Job : JobReads(j) => Lives(p)
    BY <1>8, ProcessFinite DEF JobReads, JobAt
  <1>17. \A j \in Job : JobEnds(j) => Lives(p)
    BY <1>6 DEF JobEnds
  <1>18. \A j \in Job : JobEchoes(j) \/ JobPrints(j) => Lives(p)
    BY <1>4 DEF JobEchoes, JobPrints
  <1>19. \A j \in Job : JobStep(j) => Lives(p)
    BY <1>9, <1>16, <1>17, <1>18, ProcessFinite DEF JobStep
  <1>20. ShellStep => Lives(p)
    BY <1>9, <1>12, <1>13, <1>14, <1>15, ProcessFinite DEF ShellStep
  <1>21. KeyStep \/ Blink => Lives(p)
    BY <1>4, <1>10 DEF KeyStep, ShiftKey, CtrlKey, Blink
  <1>22. UNCHANGED vars => Lives(p)
    BY <1>4 DEF vars
  <1> QED BY <1>11, <1>19, <1>20, <1>21, <1>22 DEF Next

(* Steps after which nobody has got a character who had none before.        *)
LEMMA CursorKept ==
  ASSUME Units, Cursor, [Next]_vars, screen' \in Tidy(Glyph),
         screen \in Bare(Glyph) => screen' \in Bare(Glyph),
         cursorActive' => cursorActive,
         \A r \in Reader : input'[r].at = "got" => input[r].at = "got",
         shell'.at = "boot" => shell.at = "boot" /\ foreground' = foreground
  PROVE  Cursor'
  <1>1. \A r \in Reader : Holds(r)' => Holds(r)
    BY LivesNext, ProcessFinite DEF Holds
  <1> QED BY <1>1 DEF Cursor

(* What a step prints. *)
LEMMA CursorPrints ==
  ASSUME Units, Cursor, [Next]_vars,
         \/ screen' = screen
         \/ \E c \in Glyph \ {CursorChar, Backspace} : screen' = PrintChar(screen, c)
         \/ \E r \in Reader, c \in Char : Holds(r) /\ screen' = PrintChar(screen, c),
         cursorActive' = cursorActive,
         \A r \in Reader : input'[r].at = "got" => input[r].at = "got",
         shell'.at = "boot" => shell.at = "boot" /\ foreground' = foreground
  PROVE  Cursor'
  <1>1. screen \in Tidy(Glyph)
    BY DEF Cursor
  <1>2. screen' = screen \/ screen' \in Bare(Glyph)
    <2>1. ASSUME NEW c \in Glyph \ {CursorChar, Backspace}, screen' = PrintChar(screen, c)
          PROVE  screen' \in Bare(Glyph)
      BY <1>1, <2>1, Prints
    <2>2. ASSUME NEW r \in Reader, NEW c \in Char, Holds(r), screen' = PrintChar(screen, c)
          PROVE  screen' \in Bare(Glyph)
      <3>1. screen \in Bare(Glyph) /\ c \in Glyph \ {CursorChar}
        BY <2>2, GlyphIs DEF Cursor
      <3> QED BY <1>1, <2>2, <3>1, Prints
    <2> QED BY <2>1, <2>2
  <1>3. screen' \in Tidy(Glyph) /\ (screen \in Bare(Glyph) => screen' \in Bare(Glyph))
    BY <1>1, <1>2, Bares
  <1> QED BY <1>3, CursorKept

LEMMA CursorReads ==
  ASSUME Units, Cursor, [Next]_vars, NEW r \in Reader, UNCHANGED <<shell, foreground>>,
         \/ \E x : GetsChar(r, x)
         \/ MayRead(r) /\ input[r].at = "idle" /\ ReadStdin(r)
  PROVE  Cursor'
  <1>1. screen \in Tidy(Glyph)
    BY DEF Cursor
  <1>2. ASSUME NEW x, GetsChar(r, x)
        PROVE  Cursor'
    <2>1. screen' = DrawCursor(screen, Blank) /\ cursorActive' = FALSE
      BY <1>2 DEF GetsChar, SetCursor
    <2>2. Blank \in Glyph /\ Blank # CursorChar
      BY GlyphIs
    <2>3. screen' \in Bare(Glyph) /\ screen' \in Tidy(Glyph)
      BY <1>1, <2>1, <2>2, DrawTidy
    <2> QED BY <2>1, <2>3 DEF Cursor
  <1>3. ASSUME MayRead(r), input[r].at = "idle", state' = [state EXCEPT ![r] = "BLOCKED"],
               input' = [input EXCEPT ![r] = [at |-> "reading", char |-> None]], screen' = screen
        PROVE  Cursor'
    <2>1. Fronts /\ Types
      BY UnitTypes
    <2>2. Lives(r) /\ Shell \notin Job /\ Reader = {Shell} \cup Job
      BY <1>3, ProcessFinite DEF MayRead, Runs, Ready, Lives, Reader
    <2>3. shell.at # "boot"
      BY <1>3, <2>1, <2>2 DEF MayRead, Fronts
    <2>4. \A q \in Reader : q # r => ~Holds(q)
      BY <1>3, <2>1, <2>2 DEF MayRead, Fronts, Holds
    <2>5. input'[r].at = "reading" /\ \A q \in Reader : q # r => input'[q] = input[q]
      BY <1>3, <2>1 DEF Types
    <2>6. \A q \in Reader : ~Holds(q)'
      BY <2>4, <2>5, LivesNext, ProcessFinite DEF Holds
    <2> QED BY <1>1, <1>3, <2>3, <2>6 DEF Cursor
  <1> QED BY <1>2, <1>3 DEF ReadStdin

LEMMA CursorBoots ==
  ASSUME Units, Cursor, [Next]_vars, ShellBoots
  PROVE  Cursor'
  <1>1. shell.at = "boot" /\ screen \in Bare(Glyph)
    BY DEF ShellBoots, ShellAt, Cursor
  <1>2. PICK G : G = Glyph \ {CursorChar}
    OBVIOUS
  <1>3. PICK s : s = ClearScreen(screen)
    OBVIOUS
  <1>4. s \in Bare(Glyph) /\ s \in Tidy(Glyph)
    <2>1. Blank \in G /\ screen \in Screens(G)
      BY <1>1, <1>2, GlyphIs DEF Bare
    <2>2. s \in Screens(G)
      BY <1>3, <2>1, ClearKeeps
    <2> QED BY <1>2, <2>2, Bares DEF Bare
  <1>5. PICK chars : chars = <<Star, NewLineChar>>
    OBVIOUS
  <1>6. DOMAIN chars = 1..2 /\ \A i \in 1..2 : chars[i] \in Glyph \ {CursorChar}
    BY <1>5, GlyphIs
  <1>7. PrintAll(s, chars) \in Bare(Glyph)
    <2>1. PICK n \in Nat : n = 2
      OBVIOUS
    <2>2. DOMAIN chars = 1..n /\ \A i \in 1..n : chars[i] \in Glyph \ {CursorChar}
      BY <1>6, <2>1
    <2> QED BY <1>4, <2>2, PrintsAll
  <1>8. screen' = PrintAll(s, chars) /\ shell'.at # "boot"
    BY <1>3, <1>5, UnitTypes DEF ShellBoots, ShellGoes, Types
  <1>9. screen' \in Bare(Glyph) /\ screen' \in Tidy(Glyph)
    BY <1>7, <1>8, Bares
  <1> QED BY <1>8, <1>9, CursorKept DEF ShellBoots

LEMMA CursorPrompts ==
  ASSUME Units, Cursor, [Next]_vars, ShellPrompts
  PROVE  Cursor'
  <1>1. screen \in Tidy(Glyph) /\ Types
    BY UnitTypes DEF Cursor
  <1>2. screen' = PrintAll(screen, Prompt) /\ shell'.at # "boot"
    BY <1>1 DEF ShellPrompts, ShellGoes, Types
  <1>3. PICK n \in Nat : n = Len(Prompt)
    BY GlyphIs
  <1>4. DOMAIN Prompt = 1..n /\ \A i \in 1..n : Prompt[i] \in Glyph \ {CursorChar, Backspace}
    BY <1>3, GlyphIs
  <1>5. screen' \in Tidy(Glyph) /\ (screen \in Bare(Glyph) => screen' \in Bare(Glyph))
    BY <1>1, <1>2, <1>4, PrintsAll
  <1> QED BY <1>2, <1>5, CursorKept DEF ShellPrompts

LEMMA CursorEdits ==
  ASSUME Units, Cursor, [Next]_vars, ShellEdits
  PROVE  Cursor'
  <1>1. Types /\ Lives(Shell) /\ Shell \in Reader
    BY UnitTypes, ProcessFinite DEF Fronts
  <1>2. PICK c \in Char : c = input[Shell].char
    BY <1>1 DEF Types, ShellEdits
  <1>3. screen \in Tidy(Glyph) /\ screen \in Bare(Glyph) /\ shell.at = "line"
    BY <1>1 DEF Cursor, Holds, ShellEdits
  <1>4. \A r \in Reader : input'[r].at = "got" => input[r].at = "got"
    BY <1>1 DEF ShellEdits, Types, Idling
  <1>5. shell'.at # "boot"
    BY <1>1, <1>3 DEF ShellEdits, Types
  <1>6. CASE screen' = PrintChar(screen, NewLineChar)
    BY <1>4, <1>5, <1>6, GlyphIs, CursorPrints DEF ShellEdits
  <1>7. CASE screen' = PrintAll(screen, Edited(c).echo)
    <2>1. Edited(c).echo \in {<<>>, <<c>>, <<c, c>>}
      BY DEF Edited, Adds, Deletes, Edit
    <2>2. PICK chars : chars = Edited(c).echo
      OBVIOUS
    <2>3. \E n \in Nat : DOMAIN chars = 1..n /\ \A i \in 1..n : chars[i] = c
      <3>1. CASE chars = <<>>
        <4>1. DOMAIN chars = 1..0
          BY <3>1
        <4> QED BY <4>1
      <3>2. CASE chars = <<c>>
        <4>1. DOMAIN chars = 1..1 /\ \A i \in 1..1 : chars[i] = c
          BY <3>2
        <4> QED BY <4>1
      <3>3. CASE chars = <<c, c>>
        <4>1. DOMAIN chars = 1..2 /\ \A i \in 1..2 : chars[i] = c
          BY <3>3
        <4> QED BY <4>1
      <3> QED BY <2>1, <2>2, <3>1, <3>2, <3>3
    <2>4. PICK n \in Nat : DOMAIN chars = 1..n /\ \A i \in 1..n : chars[i] = c
      BY <2>3
    <2>5. PrintAll(screen, chars) \in Bare(Glyph)
      BY <1>3, <2>4, GlyphIs, PrintsAll
    <2>6. screen' \in Bare(Glyph) /\ screen' \in Tidy(Glyph)
      BY <1>7, <2>2, <2>5, Bares
    <2> QED BY <1>4, <1>5, <2>6, CursorKept DEF ShellEdits
  <1> QED BY <1>2, <1>6, <1>7 DEF ShellEdits

LEMMA CursorRuns ==
  ASSUME Units, Cursor, [Next]_vars, ShellRuns
  PROVE  Cursor'
  <1>1. screen \in Tidy(Glyph)
    BY DEF Cursor
  <1>2. shell'.at # "boot"
    BY DEF ShellRuns, NextLine
  <1>3. CASE screen' = PrintAll(screen, <<Star, NewLineChar, NewLineChar>>)
    <2>1. PICK chars : chars = <<Star, NewLineChar, NewLineChar>>
      OBVIOUS
    <2>2. DOMAIN chars = 1..3 /\ \A i \in 1..3 : chars[i] \in Glyph \ {CursorChar, Backspace}
      BY <2>1, GlyphIs
    <2>3. PICK n \in Nat : n = 3
      OBVIOUS
    <2>4. DOMAIN chars = 1..n /\ \A i \in 1..n : chars[i] \in Glyph \ {CursorChar, Backspace}
      BY <2>2, <2>3
    <2>5. screen' = PrintAll(screen, chars)
      BY <1>3, <2>1
    <2>6. screen' \in Tidy(Glyph) /\ (screen \in Bare(Glyph) => screen' \in Bare(Glyph))
      BY <1>1, <2>4, <2>5, PrintsAll
    <2> QED BY <1>2, <2>6, CursorKept DEF ShellRuns
  <1>4. CASE screen' = screen \/ screen' = PrintChar(screen, NewLineChar)
    BY <1>2, <1>4, GlyphIs, CursorPrints DEF ShellRuns
  <1> QED BY <1>3, <1>4 DEF ShellRuns

LEMMA CursorNext ==
  ASSUME Units, Cursor, [Next]_vars
  PROVE  Cursor'
  <1>1. Types /\ Fronts /\ screen \in Tidy(Glyph)
    BY UnitTypes DEF Cursor
  <1>2. CASE UNCHANGED <<screen, cursorActive, input, shell, foreground>>
    BY <1>2, CursorPrints
  <1>3. ASSUME NEW k \in Key, PressKey(k)
        PROVE  Cursor'
    BY <1>2, <1>3 DEF PressKey, console
  <1>4. CASE Blink
    <2>1. PICK c \in {Blank, CursorChar} : screen' = DrawCursor(screen, c)
      BY <1>4 DEF Blink
    <2>2. c \in Glyph /\ Blank \in Glyph
      BY <2>1, GlyphIs
    <2>3. screen' \in Tidy(Glyph)
      BY <1>1, <2>1, <2>2, DrawTidy
    <2>4. shell.at # "boot" /\ \A r \in Reader : ~Holds(r)
      BY <1>4 DEF Blink, Cursor
    <2>5. \A r \in Reader : ~Holds(r)'
      BY <1>4, <2>4 DEF Blink, Holds, Lives
    <2> QED BY <1>4, <2>3, <2>4, <2>5 DEF Blink, Cursor
  <1>5. CASE ShellReads
    <2>1. Shell \in Reader /\ MayRead(Shell) /\ input[Shell].at = "idle"
      BY <1>5, ProcessFinite DEF ShellReads, ShellAt, MayRead
    <2> QED BY <1>5, <2>1, CursorReads DEF ShellReads, ReadStdin
  <1>6. \A r \in Reader : ReadReturns(r) => Cursor'
    BY CursorReads DEF ReadReturns
  <1>7. CASE ShellBoots \/ ShellPrompts \/ ShellEdits \/ ShellRuns
    BY <1>7, CursorBoots, CursorPrompts, CursorEdits, CursorRuns
  <1>8. CASE ShellWaits
    <2>1. shell'.at # "boot" /\ screen' = screen
      BY <1>1, <1>8 DEF ShellWaits, ShellGoes, Types
    <2> QED BY <1>8, <2>1, CursorPrints DEF ShellWaits
  <1>9. CASE ShellWaited
    <2>1. shell'.at # "boot" /\ screen' = PrintChar(screen, NewLineChar)
      BY <1>1, <1>9 DEF ShellWaited, ShellGoes, Types
    <2> QED BY <1>9, <2>1, GlyphIs, CursorPrints DEF ShellWaited
  <1>10. ASSUME NEW p \in Process, StoresPending(p)
         PROVE  Cursor'
    BY <1>2, <1>10 DEF StoresPending
  <1>11. ASSUME NEW j \in Job, JobStep(j)
         PROVE  Cursor'
    <2>1. j \in Reader
      BY ProcessFinite
    <2>2. CASE JobReads(j)
      <3>1. MayRead(j) /\ input[j].at = "idle"
        BY <2>1, <2>2 DEF JobReads, JobAt, MayRead
      <3> QED BY <2>1, <2>2, <3>1, CursorReads DEF JobReads, ReadStdin
    <2>3. CASE JobEchoes(j)
      <3>1. Holds(j) /\ input[j].char \in Char
        BY <1>1, <2>1, <2>3 DEF JobEchoes, JobAt, Runs, Ready, Holds, Lives, Types
      <3>2. \A r \in Reader : input'[r].at = "got" => input[r].at = "got"
        BY <1>1, <2>1, <2>3 DEF JobEchoes, Idling, Types
      <3> QED BY <2>1, <2>3, <3>1, <3>2, CursorPrints DEF JobEchoes
    <2>4. CASE JobPrints(j)
      BY <2>4, GlyphIs, CursorPrints DEF JobPrints
    <2>5. CASE JobEnds(j)
      BY <1>2, <2>5 DEF JobEnds, console
    <2> QED BY <1>6, <1>11, <2>1, <2>2, <2>3, <2>4, <2>5 DEF JobStep
  <1>12. CASE ShiftKey \/ CtrlKey
    BY <1>2, <1>12 DEF ShiftKey, CtrlKey, console
  <1>13. CASE UNCHANGED vars
    BY <1>2, <1>13 DEF vars
  <1> QED BY <1>3, <1>4, <1>5, <1>6, <1>7, <1>8, <1>9, <1>10, <1>11, <1>12, <1>13, ProcessFinite
          DEF Next, KeyStep, ShellStep

LEMMA CursorInit ==
  ASSUME Init
  PROVE  Cursor
  <1>1. screen = [cell |-> [p \in Cells |-> Blank], x |-> 0, y |-> 0] /\ cursorActive = FALSE
        /\ foreground = {} /\ input = [r \in Reader |-> Idling]
    BY DEF Init, Cells
  <1>2. 0 \in Column /\ 0 \in 0..SCREEN_HEIGHT /\ 0 # SCREEN_HEIGHT /\ SCREEN_HEIGHT \in 0..SCREEN_HEIGHT
    BY ScreenAssumption DEF Column
  <1>3. \A j \in Column : <<SCREEN_HEIGHT, j>> \in Cells
    BY <1>2 DEF Cells
  <1>4. Blank \in Glyph \ {CursorChar}
    BY GlyphIs
  <1>5. screen \in Bare(Glyph) /\ screen \in Tidy(Glyph)
    <2>1. screen \in Bare(Glyph)
      BY <1>1, <1>2, <1>3, <1>4 DEF Bare, Screens
    <2> QED BY <2>1, Bares
  <1> QED BY <1>1, <1>5 DEF Cursor, Holds, Idling

LEMMA CellsAre ==
  ASSUME Cursor
  PROVE  /\ DOMAIN screen.cell = Cells
         /\ screen.x \in Column /\ screen.y \in 0..SCREEN_HEIGHT
         /\ screen.y = SCREEN_HEIGHT => screen.x = 0
         /\ \A p \in Cells : p[1] = SCREEN_HEIGHT => screen.cell[p] = Blank
         /\ \A p \in Cells : screen.cell[p] = CursorChar => p = <<screen.y, screen.x>>
  <1>1. screen \in Screens(Glyph) /\ \A p \in Cells : screen.cell[p] = CursorChar => p = <<screen.y, screen.x>>
    BY DEF Cursor, Tidy
  <1>2. ASSUME NEW p \in Cells, p[1] = SCREEN_HEIGHT
        PROVE  p[2] \in Column /\ p = <<SCREEN_HEIGHT, p[2]>>
    BY <1>2 DEF Cells
  <1> QED BY <1>1, <1>2 DEF Screens

(* A cursor that was drawn is at the next position: readStdin wipes it out  *)
(* or the next character replaces it, whoever prints it, also after Ctrl-C  *)
(* on a process that was reading (setCursor, blinkCursor).                  *)
THEOREM NoStrayCursorHolds == Spec => []NoStrayCursor
  <1>1. Init => Units /\ Cursor
    BY UnitsInit, CursorInit
  <1>2. Units /\ Cursor /\ [Next]_vars => (Units /\ Cursor)'
    BY UnitsNext, CursorNext
  <1>3. Cursor => NoStrayCursor
    BY CellsAre DEF NoStrayCursor
  <1> QED BY <1>1, <1>2, <1>3, PTL DEF Spec

(* Every variable holds what its declaration allows; nothing is printed     *)
(* behind the screen, whose last row and column the next position may pass  *)
(* only as printCharColor lets it; no line outgrows its buffer.             *)
THEOREM TypesHold == Spec => []TypeOK
  <1>1. Init => Units /\ Cursor
    BY UnitsInit, CursorInit
  <1>2. Units /\ Cursor /\ [Next]_vars => (Units /\ Cursor)'
    BY UnitsNext, CursorNext
  <1>3. ASSUME Units, Cursor
        PROVE  TypeOK
    <2>1. Types /\ typed \in 0..MaxTyped /\ idleKeys \in 0..typed /\ MaxTyped \in Nat
      BY <1>3, UnitTypes, TerminalAssumption DEF Types
    <2>2. idleKeys \in 0..MaxTyped
      <3>1. PICK i, j, k \in Int : i = idleKeys /\ j = typed /\ k = MaxTyped
        BY <2>1
      <3>2. i \in 0..j /\ j \in 0..k
        BY <2>1, <3>1
      <3>3. i \in 0..k
        BY <3>2
      <3> QED BY <3>1, <3>3
    <2> QED BY <1>3, <2>1, <2>2, CellsAre DEF Types, TypeOK, Stdins
  <1> QED BY <1>1, <1>2, <1>3, PTL DEF Spec

-----------------------------------------------------------------------------
(* The line on the screen.  Places are counted through the rows.            *)
LEMMA Times ==
  ASSUME NEW C \in Int, NEW a \in Int
  PROVE  a * C \in Int /\ (a + 1) * C = a * C + C /\ (a - 1) * C = a * C - C /\ 0 * C = 0
  <1>1. a * C \in Int
    OBVIOUS
  <1>2. (a + 1) * C = a * C + C
    OBVIOUS
  <1>3. (a - 1) * C = a * C - C
    OBVIOUS
  <1>4. 0 * C = 0
    OBVIOUS
  <1> QED BY <1>1, <1>2, <1>3, <1>4

(* Two multiples of C less than C apart are the same. *)
LEMMA MultipleApart ==
  ASSUME NEW C \in Nat, C > 0, NEW q \in Int, NEW r \in Int, q * C < r * C + C, r * C < q * C + C
  PROVE  q = r
  <1>1. q - r \in Int /\ (q - r) * C = q * C - r * C
    OBVIOUS
  <1>2. ASSUME q - r >= 1 PROVE FALSE
    <2>1. (q - r) * C >= C
      BY <1>1, <1>2
    <2> QED BY <1>1, <2>1
  <1>3. ASSUME q - r <= -1 PROVE FALSE
    <2>1. (q - r) * C <= -C
      BY <1>1, <1>3
    <2> QED BY <1>1, <2>1
  <1> QED BY <1>1, <1>2, <1>3

LEMMA Division ==
  ASSUME NEW n \in Nat, NEW C \in Nat, C > 0
  PROVE  n \div C \in Nat /\ n % C \in 0..(C - 1) /\ n = (n \div C) * C + (n % C)
  <1>1. n \div C \in Nat
    OBVIOUS
  <1>2. n % C \in 0..(C - 1)
    OBVIOUS
  <1>3. n = (n \div C) * C + (n % C)
    OBVIOUS
  <1> QED BY <1>1, <1>2, <1>3

LEMMA Address ==
  ASSUME NEW n \in Nat, NEW C \in Nat, C > 0, NEW q \in Nat, NEW r \in 0..(C - 1), n = q * C + r
  PROVE  n \div C = q /\ n % C = r
  <1> DEFINE a == n \div C
             b == n % C
  <1>1. a \in Nat /\ b \in 0..(C - 1) /\ n = a * C + b
    BY Division
  <1> HIDE DEF a, b
  <1>2. a * C \in Int /\ q * C \in Int
    BY <1>1, Times
  <1>3. a = q
    BY <1>1, <1>2, MultipleApart
  <1>4. b = r
    BY <1>1, <1>2, <1>3
  <1> QED BY <1>3, <1>4 DEF a, b

Place(s) == s.y * SCREEN_WIDTH + s.x
At(s, a) == s.cell[<<a \div SCREEN_WIDTH, a % SCREEN_WIDTH>>]

(* Places before that of a position lie in its row or in one above it. *)
LEMMA PlaceIs ==
  ASSUME NEW y \in Nat, NEW x \in Column, NEW a \in Nat, a < y * SCREEN_WIDTH + x
  PROVE  \E i \in 0..y, j \in Column :
           /\ a \div SCREEN_WIDTH = i /\ a % SCREEN_WIDTH = j
           /\ x = 0 => i \in 0..(y - 1)
           /\ i # y \/ j # x
           /\ (a + SCREEN_WIDTH) \div SCREEN_WIDTH = i + 1 /\ (a + SCREEN_WIDTH) % SCREEN_WIDTH = j
  <1>1. PICK C \in Nat : C = SCREEN_WIDTH /\ C > 1
    BY ScreenAssumption
  <1>2. PICK q \in Nat, r \in 0..(C - 1) : q = a \div C /\ r = a % C /\ a = q * C + r
    <2>1. a \div C \in Nat /\ a % C \in 0..(C - 1) /\ a = (a \div C) * C + (a % C)
      BY <1>1, Division
    <2>2. PICK q, r : q = a \div C /\ r = a % C
      OBVIOUS
    <2>3. q \in Nat /\ r \in 0..(C - 1) /\ a = q * C + r
      BY <2>1, <2>2
    <2> QED BY <2>2, <2>3
  <1>3. x \in 0..(C - 1) /\ a < y * C + x
    BY <1>1 DEF Column
  <1>4. q * C \in Int /\ y * C \in Int /\ (q + 1) * C = q * C + C
    BY Times
  <1>5. ASSUME NEW u \in Nat, q >= u + 1
        PROVE  q * C >= u * C + C
    <2>1. PICK d \in Nat : q = u + 1 + d
      <3>1. q - u - 1 \in Nat /\ q = u + 1 + (q - u - 1)
        BY <1>5
      <3> QED BY <3>1
    <2>2. q * C = u * C + C + d * C
      BY <2>1
    <2>3. d * C \in Nat /\ u * C \in Nat
      OBVIOUS
    <2> QED BY <2>2, <2>3
  <1>6. q <= y
    <2>1. ASSUME q >= y + 1
          PROVE  FALSE
      <3>1. q * C >= y * C + C
        BY <1>5, <2>1
      <3> QED BY <1>2, <1>3, <1>4, <3>1
    <2> QED BY <2>1
  <1>7. q # y \/ r # x
    BY <1>2, <1>3, <1>4
  <1>8. x = 0 => q # y
    BY <1>2, <1>3, <1>4
  <1>9. (a + C) \div C = q + 1 /\ (a + C) % C = r
    <2>1. a + C = (q + 1) * C + r /\ a + C \in Nat /\ q + 1 \in Nat
      BY <1>2, <1>4
    <2>2. PICK m \in Nat, k \in Nat : m = a + C /\ k = q + 1 /\ m = k * C + r
      BY <2>1
    <2>3. m \div C = k /\ m % C = r
      BY <1>1, <2>2, Address
    <2> QED BY <2>2, <2>3
  <1>10. q \in 0..y /\ r \in Column /\ (x = 0 => q \in 0..(y - 1))
    BY <1>1, <1>6, <1>8 DEF Column
  <1> QED BY <1>1, <1>2, <1>7, <1>9, <1>10

(* The text t stands before the next position, as far as it is on the screen. *)
Shows(s, t) == \A n \in 1..Len(t) : n <= Place(s) => At(s, Place(s) - n) = t[Len(t) + 1 - n]

LEMMA ScreenIs ==
  ASSUME NEW G, NEW s \in Screens(G)
  PROVE  /\ s.y \in Nat /\ s.y \in 0..SCREEN_HEIGHT /\ s.x \in Column /\ s.x \in Nat /\ Place(s) \in Nat
         /\ s.y = SCREEN_HEIGHT => s.x = 0
  <1>1. s.y \in 0..SCREEN_HEIGHT /\ s.x \in Column /\ (s.y = SCREEN_HEIGHT => s.x = 0)
        /\ SCREEN_HEIGHT \in Nat /\ SCREEN_WIDTH \in Nat
    BY ScreenAssumption DEF Screens
  <1>2. PICK y \in Nat, x \in Nat : y = s.y /\ x = s.x
    BY <1>1 DEF Column
  <1>3. y * SCREEN_WIDTH \in Nat
    BY <1>1, <1>2
  <1>4. Place(s) \in Nat
    BY <1>2, <1>3 DEF Place
  <1> QED BY <1>1, <1>2, <1>4

LEMMA BeforeIs ==
  ASSUME NEW G, NEW s \in Screens(G), NEW a \in Nat, a < Place(s)
  PROVE  \E i \in 0..s.y, j \in Column :
           /\ a \div SCREEN_WIDTH = i /\ a % SCREEN_WIDTH = j
           /\ s.x = 0 => i \in 0..(s.y - 1)
           /\ i # s.y \/ j # s.x
           /\ (a + SCREEN_WIDTH) \div SCREEN_WIDTH = i + 1 /\ (a + SCREEN_WIDTH) % SCREEN_WIDTH = j
           /\ <<i, j>> \in Cells
  <1>1. PICK y \in Nat, x \in Column : y = s.y /\ x = s.x
    BY ScreenIs
  <1>2. a < y * SCREEN_WIDTH + x /\ y \in 0..SCREEN_HEIGHT
    BY <1>1, ScreenIs DEF Place
  <1>3. PICK i \in 0..y, j \in Column :
           /\ a \div SCREEN_WIDTH = i /\ a % SCREEN_WIDTH = j
           /\ x = 0 => i \in 0..(y - 1)
           /\ i # y \/ j # x
           /\ (a + SCREEN_WIDTH) \div SCREEN_WIDTH = i + 1 /\ (a + SCREEN_WIDTH) % SCREEN_WIDTH = j
    BY <1>2, PlaceIs
  <1>4. i \in 0..SCREEN_HEIGHT
    <2>1. PICK H \in Nat : H = SCREEN_HEIGHT /\ y \in 0..H
      BY <1>2, ScreenAssumption
    <2>2. i \in 0..H
      BY <2>1
    <2> QED BY <2>1, <2>2
  <1>5. <<i, j>> \in Cells
    BY <1>4 DEF Cells
  <1> QED BY <1>1, <1>3, <1>5

LEMMA ScrolledShows ==
  ASSUME NEW G, Blank \in G, NEW s \in Screens(G), NEW t, Len(t) \in Nat, Shows(s, t)
  PROVE  Shows(Scrolled(s), t)
  <1>1. CASE s.y # SCREEN_HEIGHT
    BY <1>1 DEF Scrolled
  <1>2. CASE s.y = SCREEN_HEIGHT
    <2>1. PICK u : u = ScrollUp(s)
      OBVIOUS
    <2>2. /\ u.x = 0 /\ u.y = SCREEN_HEIGHT - 1
          /\ \A i \in 0..SCREEN_HEIGHT, j \in Column :
               u.cell[<<i, j>>] = IF i < SCREEN_HEIGHT - 1 THEN s.cell[<<i + 1, j>>] ELSE Blank
      BY <1>2, <2>1, ScrollIs
    <2>3. u \in Screens(G) /\ Scrolled(s) = u
      BY <1>2, <2>1, ScrolledKeeps DEF Scrolled
    <2>4. PICK W \in Nat, H \in Nat : W = SCREEN_WIDTH /\ H = SCREEN_HEIGHT /\ W > 0
      BY ScreenAssumption
    <2>5. Place(s) = H * W /\ Place(u) = (H - 1) * W /\ Place(u) \in Nat
      <3>1. s.x = 0
        BY <1>2, ScreenIs
      <3>2. H * W \in Nat /\ (H - 1) * W \in Int
        BY <2>4
      <3>3. Place(s) = H * W + 0 /\ Place(u) = (H - 1) * W + 0
        BY <1>2, <2>2, <2>4, <3>1 DEF Place
      <3>4. Place(u) \in Nat
        BY <2>3, ScreenIs
      <3> QED BY <3>2, <3>3, <3>4
    <2>6. (H - 1) * W = H * W - W /\ H * W \in Int
      BY Times
    <2>7. ASSUME NEW a \in Nat, a < Place(u)
          PROVE  At(u, a) = At(s, a + SCREEN_WIDTH)
      <3>1. PICK i \in 0..u.y, j \in Column :
              /\ a \div SCREEN_WIDTH = i /\ a % SCREEN_WIDTH = j
              /\ u.x = 0 => i \in 0..(u.y - 1)
              /\ (a + SCREEN_WIDTH) \div SCREEN_WIDTH = i + 1 /\ (a + SCREEN_WIDTH) % SCREEN_WIDTH = j
        BY <2>3, <2>7, BeforeIs
      <3>2. i \in 0..(H - 2)
        <4>1. u.y - 1 = H - 2
          BY <2>2, <2>4
        <4> QED BY <2>2, <3>1, <4>1
      <3>3. i \in 0..H /\ i < H - 1
        BY <3>2
      <3>4. u.cell[<<i, j>>] = s.cell[<<i + 1, j>>]
        BY <2>2, <2>4, <3>2, <3>3
      <3>5. At(u, a) = u.cell[<<i, j>>]
        BY <3>1 DEF At
      <3>6. At(s, a + SCREEN_WIDTH) = s.cell[<<i + 1, j>>]
        BY <3>1 DEF At
      <3> QED BY <3>4, <3>5, <3>6
    <2>8. ASSUME NEW n \in 1..Len(t), n <= Place(u)
          PROVE  At(u, Place(u) - n) = t[Len(t) + 1 - n]
      <3>1. PICK p \in Nat, q \in Nat : p = Place(u) /\ q = Place(s) /\ q = p + W
        <4>1. Place(s) = Place(u) + W
          BY <2>5, <2>6
        <4> QED BY <2>5, <4>1
      <3>2. p - n \in Nat /\ p - n < p /\ n <= q /\ (p - n) + W = q - n
        BY <2>8, <3>1
      <3>3. At(u, p - n) = At(s, (p - n) + W)
        BY <2>4, <2>7, <3>1, <3>2
      <3>4. At(s, q - n) = t[Len(t) + 1 - n]
        BY <3>1, <3>2 DEF Shows
      <3> QED BY <3>1, <3>2, <3>3, <3>4
    <2> QED BY <2>3, <2>8 DEF Shows
  <1> QED BY <1>1, <1>2

LEMMA DrawnShows ==
  ASSUME NEW G, NEW s \in Screens(G), s.y \in Row, NEW c \in G, NEW t, Len(t) \in Nat, Shows(s, t)
  PROVE  Shows(Drawn(s, c), t) /\ At(Drawn(s, c), Place(s)) = c
  <1>1. PICK u : u = Drawn(s, c)
    OBVIOUS
  <1>2. /\ u.x = s.x /\ u.y = s.y
        /\ \A p \in Cells : u.cell[p] = IF p = <<s.y, s.x>> THEN c ELSE s.cell[p]
    BY <1>1, DrawnIs
  <1>3. Place(u) = Place(s) /\ Place(s) \in Nat
    BY <1>2, ScreenIs DEF Place
  <1>4. ASSUME NEW a \in Nat, a < Place(s)
        PROVE  At(u, a) = At(s, a)
    <2>1. PICK i \in 0..s.y, j \in Column :
            a \div SCREEN_WIDTH = i /\ a % SCREEN_WIDTH = j /\ (i # s.y \/ j # s.x) /\ <<i, j>> \in Cells
      BY <1>4, BeforeIs
    <2>2. u.cell[<<i, j>>] = s.cell[<<i, j>>]
      BY <1>2, <2>1
    <2> QED BY <2>1, <2>2 DEF At
  <1>5. ASSUME NEW n \in 1..Len(t), n <= Place(u)
        PROVE  At(u, Place(u) - n) = t[Len(t) + 1 - n]
    <2>1. PICK p \in Nat : p = Place(s)
      BY <1>3
    <2>2. p - n \in Nat /\ p - n < p
      BY <1>3, <1>5, <2>1
    <2> QED BY <1>3, <1>4, <1>5, <2>1, <2>2 DEF Shows
  <1>6. At(u, Place(s)) = c
    <2>1. s.y \in Nat /\ s.x \in Column /\ SCREEN_WIDTH \in Nat \ {0, 1}
      BY ScreenIs, ScreenAssumption
    <2>2. PICK W \in Nat, y \in Nat, x \in Column : W = SCREEN_WIDTH /\ y = s.y /\ x = s.x
      BY <2>1
    <2>3. W > 0 /\ x \in 0..(W - 1)
      BY <2>1, <2>2 DEF Column
    <2>5. PICK p \in Nat : p = Place(s)
      BY <1>3
    <2>6. p = y * W + x
      BY <2>2, <2>5 DEF Place
    <2>7. p \div W = y /\ p % W = x
      BY <2>3, <2>6, Address
    <2>4. <<s.y, s.x>> \in Cells
      BY ScreenIs DEF Cells
    <2> QED BY <1>2, <2>2, <2>4, <2>5, <2>7 DEF At
  <1> QED BY <1>1, <1>5, <1>6 DEF Shows

LEMMA NextPlace ==
  ASSUME NEW G, NEW s \in Screens(G), s.y \in Row
  PROVE  LET u == GoNextPosition(s)
         IN  Place(u) = Place(s) + 1 /\ u.cell = s.cell
  <1>1. PICK u : u = GoNextPosition(s)
    OBVIOUS
  <1>2. /\ u.cell = s.cell
        /\ u.x = IF s.x = SCREEN_WIDTH - 1 THEN 0 ELSE s.x + 1
        /\ u.y = IF s.x = SCREEN_WIDTH - 1 THEN s.y + 1 ELSE s.y
    BY <1>1, NextIs
  <1>3. PICK W \in Nat, y \in Nat, x \in Nat : W = SCREEN_WIDTH /\ y = s.y /\ x = s.x
    BY ScreenIs, ScreenAssumption
  <1>4. y * W \in Int /\ (y + 1) * W = y * W + W
    BY Times
  <1>5. CASE x = W - 1
    <2>1. Place(u) = (y + 1) * W + 0 /\ Place(s) = y * W + x
      BY <1>2, <1>3, <1>5 DEF Place
    <2> QED BY <1>1, <1>2, <1>4, <1>5, <2>1
  <1>6. CASE x # W - 1
    <2>1. Place(u) = y * W + (x + 1) /\ Place(s) = y * W + x
      BY <1>2, <1>3, <1>6 DEF Place
    <2> QED BY <1>1, <1>2, <1>4, <1>6, <2>1
  <1> QED BY <1>5, <1>6

LEMMA ShortCourses ==
  ASSUME NEW kind, NEW s, NEW chars, NEW n \in Nat, NEW h, Goes(kind, s, chars, n, h)
  PROVE  /\ n = 0 => h[n] = s
         /\ n = 1 => h[n] = Does(kind, s, chars[1])
         /\ n = 2 => h[n] = Does(kind, Does(kind, s, chars[1]), chars[2])
  <1>1. h[0] = s /\ \A i \in 1..n : h[i] = Does(kind, h[i - 1], chars[i])
    BY DEF Goes
  <1>2. ASSUME n = 1 \/ n = 2
        PROVE  h[1] = Does(kind, s, chars[1])
    <2>1. 1 \in 1..n /\ 1 - 1 = 0
      BY <1>2
    <2>2. h[1] = Does(kind, h[1 - 1], chars[1])
      BY <1>1, <2>1
    <2> QED BY <1>1, <2>1, <2>2
  <1>3. ASSUME n = 2
        PROVE  h[2] = Does(kind, h[1], chars[2])
    <2>1. 2 \in 1..n /\ 2 - 1 = 1
      BY <1>3
    <2>2. h[2] = Does(kind, h[2 - 1], chars[2])
      BY <1>1, <2>1
    <2> QED BY <2>1, <2>2
  <1> QED BY <1>1, <1>2, <1>3

LEMMA AppendIs ==
  ASSUME NEW T, NEW t \in Seq(T), NEW e \in T
  PROVE  /\ Append(t, e) \in Seq(T) /\ Append(t, e) = t \o <<e>>
         /\ Append(Append(t, e), e) \in Seq(T) /\ Append(Append(t, e), e) = t \o <<e, e>>
  <1>1. PICK u : u = Append(t, e)
    OBVIOUS
  <1>2. u \in Seq(T) /\ u = t \o <<e>>
    BY <1>1
  <1>3. PICK v : v = Append(u, e)
    OBVIOUS
  <1>4. v \in Seq(T)
    BY <1>2, <1>3
  <1>5. PICK w : w = t \o <<e, e>>
    OBVIOUS
  <1>6. PICK n \in Nat : n = Len(t)
    OBVIOUS
  <1>7. Len(u) = n + 1 /\ Len(v) = n + 2 /\ Len(w) = n + 2
    BY <1>1, <1>2, <1>3, <1>5, <1>6
  <1>8. w \in Seq(T)
    BY <1>5
  <1>9. \A i \in 1..(n + 2) : v[i] = w[i]
    <2> TAKE i \in 1..(n + 2)
    <2>1. CASE i \in 1..n
      BY <1>1, <1>2, <1>3, <1>5, <1>6, <1>7, <2>1
    <2>2. CASE i = n + 1
      <3>1. u[i] = e /\ v[i] = u[i]
        BY <1>1, <1>2, <1>3, <1>6, <1>7, <2>2
      <3>2. w[i] = <<e, e>>[1]
        BY <1>5, <1>6, <2>2
      <3> QED BY <3>1, <3>2
    <2>3. CASE i = n + 2
      <3>1. v[i] = e
        BY <1>2, <1>3, <1>7, <2>3
      <3>2. w[i] = <<e, e>>[2]
        BY <1>5, <1>6, <2>3
      <3> QED BY <3>1, <3>2
    <2> QED BY <2>1, <2>2, <2>3
  <1>10. v = w
    BY <1>4, <1>7, <1>8, <1>9
  <1> QED BY <1>1, <1>2, <1>3, <1>4, <1>5, <1>10

LEMMA WriteShows ==
  ASSUME NEW G, Blank \in G, NEW s \in Screens(G), NEW c \in G,
         NEW T, NEW t \in Seq(T), Shows(s, t)
  PROVE  Shows(WriteChar(s, c, FALSE), t) /\ Shows(WriteChar(s, c, TRUE), Append(t, c))
  <1>1. PICK r : r = Scrolled(s)
    OBVIOUS
  <1>2. r \in Screens(G) /\ r.y \in Row /\ Shows(r, t)
    BY <1>1, ScrolledKeeps, ScrolledShows
  <1>3. PICK u : u = Drawn(r, c)
    OBVIOUS
  <1>4. u \in Screens(G) /\ u.y \in Row /\ Place(u) = Place(r)
    BY <1>2, <1>3, DrawnIs DEF Place
  <1>5. Shows(u, t) /\ At(u, Place(u)) = c /\ Place(u) \in Nat
    BY <1>2, <1>3, <1>4, DrawnShows, ScreenIs
  <1>6. PICK v : v = GoNextPosition(u)
    OBVIOUS
  <1>7. Place(v) = Place(u) + 1 /\ v.cell = u.cell
    BY <1>4, <1>6, NextPlace
  <1>8. ASSUME NEW n \in 1..Len(Append(t, c)), n <= Place(v)
        PROVE  At(v, Place(v) - n) = Append(t, c)[Len(Append(t, c)) + 1 - n]
    <2>1. PICK m \in Nat, p \in Nat : m = Len(t) /\ p = Place(u)
      BY <1>5
    <2>2. Len(Append(t, c)) = m + 1 /\ Place(v) = p + 1 /\ n \in 1..(m + 1) /\ n <= p + 1
      BY <1>7, <1>8, <2>1
    <2>3. \A a : At(v, a) = At(u, a)
      BY <1>7 DEF At
    <2>4. CASE n = 1
      <3>1. Append(t, c)[m + 1] = c
        BY <2>1
      <3>2. (p + 1) - n = p /\ (m + 1) + 1 - n = m + 1
        BY <2>4
      <3> QED BY <1>5, <2>1, <2>2, <2>3, <3>1, <3>2
    <2>5. CASE n # 1
      <3>1. PICK k : k = n - 1
        OBVIOUS
      <3>2. k \in 1..m /\ k <= p /\ (p + 1) - n = p - k /\ (m + 1) + 1 - n = m + 1 - k /\ m + 1 - k \in 1..m
        BY <2>2, <2>5, <3>1
      <3>3. At(u, p - k) = t[m + 1 - k]
        BY <1>5, <2>1, <3>2 DEF Shows
      <3>4. Append(t, c)[m + 1 - k] = t[m + 1 - k]
        BY <2>1, <3>2
      <3> QED BY <2>2, <2>3, <3>2, <3>3, <3>4
    <2> QED BY <2>4, <2>5
  <1> QED BY <1>1, <1>3, <1>5, <1>6, <1>8, WriteIs DEF Shows

LEMMA DeleteShows ==
  ASSUME NEW G, Blank \in G, NEW s \in Screens(G), NEW T, NEW t \in Seq(T), NEW e \in T,
         Shows(s, Append(t, e))
  PROVE  Shows(DeleteChar(s), t)
  <1>1. CASE s.x > 0 \/ s.y > 0
    <2>1. PICK b : b = Back(s)
      OBVIOUS
    <2>2. /\ b \in Screens(G) /\ b.cell = s.cell
          /\ b.x = IF s.x > 0 THEN s.x - 1 ELSE SCREEN_WIDTH - 1
          /\ b.y = IF s.x > 0 THEN s.y ELSE s.y - 1
      BY <1>1, <2>1, BackIs
    <2>3. PICK W \in Nat, y \in Nat, x \in Nat : W = SCREEN_WIDTH /\ y = s.y /\ x = s.x
      BY ScreenIs, ScreenAssumption
    <2>4. y * W \in Int /\ (y - 1) * W = y * W - W
      BY Times
    <2>5. Place(b) = Place(s) - 1
      <3>1. CASE x > 0
        <4>1. Place(b) = y * W + (x - 1) /\ Place(s) = y * W + x
          BY <2>2, <2>3, <3>1 DEF Place
        <4> QED BY <2>4, <4>1
      <3>2. CASE ~(x > 0)
        <4>1. Place(b) = (y - 1) * W + (W - 1) /\ Place(s) = y * W + x
          BY <2>2, <2>3, <3>2 DEF Place
        <4> QED BY <2>4, <3>2, <4>1
      <3> QED BY <3>1, <3>2
    <2>6. PICK p \in Nat, q \in Nat, m \in Nat : p = Place(s) /\ q = Place(b) /\ q = p - 1 /\ m = Len(t)
      BY <2>2, <2>5, ScreenIs
    <2>7. \A a : At(b, a) = At(s, a)
      BY <2>2 DEF At
    <2>8. ASSUME NEW n \in 1..m, n <= q
          PROVE  At(b, q - n) = t[m + 1 - n]
      <3>1. PICK k : k = n + 1
        OBVIOUS
      <3>2. k \in 1..(m + 1) /\ k <= p /\ p - k = q - n /\ (m + 1) + 1 - k = m + 1 - n /\ m + 1 - n \in 1..m
        BY <2>6, <2>8, <3>1
      <3>3. Len(Append(t, e)) = m + 1
        BY <2>6
      <3>4. At(s, p - k) = Append(t, e)[(m + 1) + 1 - k]
        BY <2>6, <3>2, <3>3 DEF Shows
      <3>5. Append(t, e)[m + 1 - n] = t[m + 1 - n]
        BY <2>6, <3>2
      <3> QED BY <2>7, <3>2, <3>4, <3>5
    <2>9. Shows(b, t)
      BY <2>6, <2>8 DEF Shows
    <2>10. Shows(WriteChar(b, Blank, FALSE), t)
      BY <2>2, <2>9, WriteShows
    <2> QED BY <1>1, <2>1, <2>10, DeleteIs
  <1>2. CASE ~(s.x > 0 \/ s.y > 0)
    <2>1. PICK W \in Nat : W = SCREEN_WIDTH
      BY ScreenAssumption
    <2>2. s.x = 0 /\ s.y = 0
      BY <1>2, ScreenIs
    <2>3. Place(s) = 0 * W + 0
      BY <2>1, <2>2 DEF Place
    <2>4. Place(s) = 0
      BY <2>3, Times
    <2>5. Shows(s, t)
      BY <2>4 DEF Shows
    <2> QED BY <1>2, <2>5, DeleteIs
  <1> QED BY <1>1, <1>2

LEMMA PrintShows ==
  ASSUME NEW G, Blank \in G, NEW s \in Screens(G), NEW c \in G, c \notin {Backspace, NewLineChar},
         NEW t \in Seq(G), Shows(s, t)
  PROVE  Shows(PrintChar(s, c), t \o Shown(c)) /\ t \o Shown(c) \in Seq(G)
  <1>1. PICK r : r = Scrolled(s)
    OBVIOUS
  <1>2. r \in Screens(G) /\ Shows(r, t)
    BY <1>1, ScrolledKeeps, ScrolledShows
  <1>3. CASE c = Tab
    <2>1. PICK chars : chars = <<Blank, Blank>>
      OBVIOUS
    <2>2. DOMAIN chars = 1..2 /\ chars[1] = Blank /\ chars[2] = Blank
      BY <2>1
    <2>3. PICK n \in Nat : n = 2
      OBVIOUS
    <2>4. PICK h : Goes("write", r, chars, n, h) /\ WriteAll(r, chars) = h[n]
      BY <2>2, <2>3, WriteAllCourse
    <2>5. \A q, e : Does("write", q, e) = WriteChar(q, e, TRUE)
      BY DEF Does
    <2>6. PICK u, v : u = WriteChar(r, Blank, TRUE) /\ v = WriteChar(u, Blank, TRUE)
      OBVIOUS
    <2>7. WriteAll(r, chars) = v
      <3>1. h[n] = Does("write", Does("write", r, chars[1]), chars[2])
        BY <2>3, <2>4, ShortCourses
      <3> QED BY <2>2, <2>4, <2>5, <2>6, <3>1
    <2>10. PICK w \in Seq(G) : w = Append(t, Blank)
      BY AppendIs
    <2>11. u \in Screens(G) /\ Shows(u, w)
      BY <1>2, <2>6, <2>10, WriteShows, WriteKeeps
    <2>12. Shows(v, Append(w, Blank)) /\ Append(w, Blank) \in Seq(G)
      BY <2>6, <2>11, WriteShows, AppendIs
    <2>8. Append(Append(t, Blank), Blank) = t \o <<Blank, Blank>>
      BY AppendIs
    <2>9. PrintChar(s, c) = v
      BY <1>1, <1>3, <2>1, <2>7, PrintIs
    <2> QED BY <1>3, <2>8, <2>9, <2>10, <2>12 DEF Shown
  <1>4. CASE c # Tab
    <2>1. PrintChar(s, c) = WriteChar(r, c, TRUE)
      BY <1>1, <1>4, PrintIs
    <2>2. Shows(PrintChar(s, c), Append(t, c))
      BY <1>2, <2>1, WriteShows
    <2>3. Append(t, c) = t \o <<c>> /\ Append(t, c) \in Seq(G)
      OBVIOUS
    <2> QED BY <1>4, <2>2, <2>3 DEF Shown
  <1> QED BY <1>3, <1>4

(* The text of a line grows with it.                                        *)
LEMMA TextEmpty == Text(<<>>) = <<>>
  <1>1. PICK n \in Nat, chars \in {<<>>} : n = 0 /\ chars = <<>>
    OBVIOUS
  <1>2. DOMAIN chars = 1..n
    BY <1>1
  <1>3. PICK h : Goes("show", <<>>, chars, n, h) /\ Text(chars) = h[n]
    BY <1>2, TextCourse
  <1> QED BY <1>1, <1>3, ShortCourses

LEMMA TextSeq ==
  ASSUME NEW G, Blank \in G, NEW chars \in Seq(G)
  PROVE  Text(chars) \in Seq(G)
  <1>1. PICK n \in Nat : n = Len(chars) /\ DOMAIN chars = 1..n /\ \A i \in 1..n : chars[i] \in G
    OBVIOUS
  <1>2. PICK h : Goes("show", <<>>, chars, n, h) /\ Text(chars) = h[n]
    BY <1>1, TextCourse
  <1>3. ASSUME NEW i \in 1..n, NEW t \in Seq(G)
        PROVE  Does("show", t, chars[i]) \in Seq(G)
    <2>1. PICK c \in G : c = chars[i]
      BY <1>1
    <2>2. Does("show", t, c) = t \o Shown(c)
      BY DEF Does
    <2>3. <<Blank, Blank>> \in Seq(G) /\ <<c>> \in Seq(G)
      OBVIOUS
    <2>4. Shown(c) \in Seq(G)
      BY <2>3 DEF Shown
    <2>5. t \o Shown(c) \in Seq(G)
      BY <2>4
    <2> QED BY <2>1, <2>2, <2>5
  <1>4. PICK e, A : e = <<>> /\ A = Seq(G)
    OBVIOUS
  <1>5. e \in A /\ Goes("show", e, chars, n, h) /\ \A i \in 1..n : \A t \in A : Does("show", t, chars[i]) \in A
    BY <1>2, <1>3, <1>4
  <1>6. h[n] \in A
    BY <1>5, StaysWithin
  <1> QED BY <1>2, <1>4, <1>6

LEMMA TextAppend ==
  ASSUME NEW T, NEW chars \in Seq(T), NEW c \in T
  PROVE  Text(Append(chars, c)) = Text(chars) \o Shown(c)
  <1>0. PICK n \in Nat : n = Len(chars)
    OBVIOUS
  <1>8a. PICK m \in Nat : m = n + 1
    OBVIOUS
  <1>8b. PICK longer : longer = Append(chars, c)
    OBVIOUS
  <1>1. n = Len(chars) /\ longer = Append(chars, c) /\ m = n + 1
    BY <1>0, <1>8a, <1>8b
  <1>2. DOMAIN chars = 1..n /\ DOMAIN longer = 1..m /\ longer[m] = c
        /\ \A i \in 1..n : longer[i] = chars[i]
    BY <1>1
  <1>3. PICK g : Goes("show", <<>>, chars, n, g) /\ Text(chars) = g[n]
    BY <1>2, TextCourse
  <1>4. PICK h : Goes("show", <<>>, longer, m, h) /\ Text(longer) = h[m]
    BY <1>2, TextCourse
  <1> DEFINE Bad == {i \in 0..n : h[i] # g[i]}
  <1>5. Bad = {}
    <2> SUFFICES ASSUME Bad # {} PROVE FALSE
      OBVIOUS
    <2>1. Bad \in SUBSET Nat
      OBVIOUS
    <2>2. PICK i \in Bad : \A l \in Bad : i <= l
      BY <2>1, Least
    <2>3. i # 0
      BY <1>3, <1>4 DEF Goes
    <2>4. i \in 1..n /\ i \in 1..m /\ i - 1 \in 0..n /\ i - 1 \notin Bad
      BY <1>1, <2>2, <2>3
    <2>5. h[i - 1] = g[i - 1] /\ longer[i] = chars[i]
      BY <1>2, <2>4
    <2>6. h[i] = Does("show", h[i - 1], longer[i]) /\ g[i] = Does("show", g[i - 1], chars[i])
      BY <1>3, <1>4, <2>4 DEF Goes
    <2> QED BY <2>2, <2>5, <2>6
  <1>6. h[n] = g[n]
    BY <1>5
  <1>7. h[m] = Does("show", h[n], c)
    <2>1. m \in 1..m /\ m - 1 = n
      BY <1>1
    <2> QED BY <1>2, <1>4, <2>1 DEF Goes
  <1>8. Does("show", g[n], c) = g[n] \o Shown(c)
    BY DEF Does
  <1> QED BY <1>1, <1>3, <1>4, <1>6, <1>7, <1>8

(* A text without control characters is shown as it is printed.             *)
LEMMA PrintAllShows ==
  ASSUME NEW G, Blank \in G, NEW s \in Screens(G), NEW chars \in Seq(G),
         \A i \in 1..Len(chars) : chars[i] \notin {Backspace, NewLineChar, Tab}
  PROVE  Shows(PrintAll(s, chars), chars)
  <1>1. PICK n \in Nat : n = Len(chars) /\ DOMAIN chars = 1..n /\ \A i \in 1..n : chars[i] \in G
    OBVIOUS
  <1>2. PICK h : Goes("print", s, chars, n, h) /\ PrintAll(s, chars) = h[n]
    BY <1>1, PrintAllCourse
  <1> DEFINE Bad == {i \in 0..n : ~(h[i] \in Screens(G) /\ Shows(h[i], SubSeq(chars, 1, i)))}
  <1>3. Bad = {}
    <2> SUFFICES ASSUME Bad # {} PROVE FALSE
      OBVIOUS
    <2>1. Bad \in SUBSET Nat
      OBVIOUS
    <2>2. PICK i \in Bad : \A l \in Bad : i <= l
      BY <2>1, Least
    <2>3. i # 0
      <3>1. SubSeq(chars, 1, 0) = <<>>
        OBVIOUS
      <3>2. Shows(s, <<>>)
        BY DEF Shows
      <3>3. h[0] = s
        BY <1>2 DEF Goes
      <3> QED BY <2>2, <3>1, <3>2, <3>3
    <2>4. i \in 1..n /\ i - 1 \in 0..n /\ i - 1 \notin Bad
      BY <2>2, <2>3
    <2>5. PICK q, t, c : q = h[i - 1] /\ t = SubSeq(chars, 1, i - 1) /\ c = chars[i]
      OBVIOUS
    <2>6. q \in Screens(G) /\ Shows(q, t)
      BY <2>4, <2>5
    <2>7. t \in Seq(G) /\ c \in G /\ c \notin {Backspace, NewLineChar, Tab}
      <3>1. i - 1 \in Nat /\ i - 1 <= Len(chars)
        BY <1>1, <2>4
      <3>2. t \in Seq(G)
        BY <2>5, <3>1
      <3> QED BY <1>1, <2>4, <2>5, <3>2
    <2>8. t \o Shown(c) = SubSeq(chars, 1, i)
      <3>1. SubSeq(chars, 1, i) = Append(SubSeq(chars, 1, i - 1), chars[i])
        BY <1>1, <2>4
      <3>2. Shown(c) = <<c>>
        BY <2>7 DEF Shown
      <3> QED BY <2>5, <2>7, <3>1, <3>2, AppendIs
    <2>9. h[i] = PrintChar(q, c)
      BY <1>2, <2>4, <2>5 DEF Goes, Does
    <2>10. h[i] \in Screens(G)
      BY <2>6, <2>7, <2>9, PrintCharKeeps
    <2>11. Shows(PrintChar(q, c), t \o Shown(c))
      BY <2>6, <2>7, PrintShows
    <2> QED BY <2>2, <2>8, <2>9, <2>10, <2>11
  <1>4. SubSeq(chars, 1, n) = chars
    BY <1>1
  <1>5. Shows(h[n], SubSeq(chars, 1, n))
    <2>1. n \in 0..n /\ n \notin Bad
      BY <1>3
    <2> QED BY <2>1
  <1> QED BY <1>2, <1>4, <1>5

(* The line is empty until the shell reads it.                              *)
Line == LineShown /\ (shell.at \notin {"line", "run"} => shell.line = <<>>)
ShownLine(line) == Prompt \o Text(line)

LEMMA ShowsIs ==
  ASSUME NEW G, NEW s \in Screens(G), NEW t, Len(t) \in Nat
  PROVE  Shows(s, t) <=> LET place == s.y * SCREEN_WIDTH + s.x
                         IN  \A n \in 1..Len(t) : n <= place => CellBefore(s, n) = t[Len(t) + 1 - n]
  <1>1. PICK W \in Nat, y \in Nat, x \in Nat : W = SCREEN_WIDTH /\ y = s.y /\ x = s.x
    BY ScreenIs, ScreenAssumption
  <1>2. \A n \in Int : CellBefore(s, n) = At(s, Place(s) - n)
    <2> TAKE n \in Int
    <2>1. PICK p, q : p = y * W + x - n /\ q = (y * W + x) - n
      OBVIOUS
    <2>2. p = q
      <3>1. PICK z \in Int : z = y * W
        OBVIOUS
      <3>2. z + x - n = (z + x) - n
        OBVIOUS
      <3> QED BY <2>1, <3>1, <3>2
    <2>3. CellBefore(s, n) = s.cell[<<p \div W, p % W>>]
      BY <1>1, <2>1 DEF CellBefore
    <2>4. At(s, Place(s) - n) = s.cell[<<q \div W, q % W>>]
      BY <1>1, <2>1 DEF At, Place
    <2> QED BY <2>2, <2>3, <2>4
  <1>3. Place(s) = s.y * SCREEN_WIDTH + s.x
    BY DEF Place
  <1>4. Shows(s, t) <=> \A n \in 1..Len(t) : n <= Place(s) => CellBefore(s, n) = t[Len(t) + 1 - n]
    BY <1>2 DEF Shows
  <1> QED BY <1>3, <1>4

LEMMA PromptIs ==
  Prompt \in Seq(Glyph) /\ Blank \in Glyph
  <1>1. Prompt \in Seq(STRING)
    BY NamesAssumption
  <1>2. Len(Prompt) \in Nat /\ DOMAIN Prompt = 1..Len(Prompt) /\ \A i \in 1..Len(Prompt) : Prompt[i] \in Glyph
    BY GlyphIs
  <1> QED BY <1>1, <1>2, GlyphIs

LEMMA ShownLineIs ==
  ASSUME NEW line \in Seq(Char)
  PROVE  /\ ShownLine(line) \in Seq(Glyph)
         /\ \A c \in Char : ShownLine(Append(line, c)) = ShownLine(line) \o Shown(c)
         /\ ShownLine(<<>>) = Prompt
  <1>1. PICK p \in Seq(Glyph), t \in {Text(line)} : t = Text(line) /\ p = Prompt
    BY PromptIs
  <1>2. t \in Seq(Glyph)
    <2>1. line \in Seq(Glyph)
      BY GlyphIs
    <2> QED BY <1>1, <2>1, PromptIs, TextSeq
  <1>3. ShownLine(line) = p \o t /\ p \o t \in Seq(Glyph)
    BY <1>1, <1>2 DEF ShownLine
  <1>4. ASSUME NEW c \in Char
        PROVE  ShownLine(Append(line, c)) = ShownLine(line) \o Shown(c)
    <2>1. Text(Append(line, c)) = t \o Shown(c)
      BY <1>1, TextAppend
    <2>2. PICK u : u = Shown(c)
      OBVIOUS
    <2>3. u \in Seq(Glyph)
      <3>1. <<Blank, Blank>> \in Seq(Glyph) /\ <<c>> \in Seq(Glyph)
        BY GlyphIs
      <3> QED BY <2>2, <3>1 DEF Shown
    <2>4. p \o (t \o u) = (p \o t) \o u
      BY <1>2, <2>3
    <2>5. ShownLine(Append(line, c)) = p \o (t \o u)
      BY <1>1, <2>1, <2>2 DEF ShownLine
    <2> QED BY <1>3, <2>2, <2>4, <2>5
  <1>5. ShownLine(<<>>) = Prompt
    <2>1. ShownLine(<<>>) = p \o <<>>
      BY <1>1, TextEmpty DEF ShownLine
    <2>2. p \o <<>> = p
      OBVIOUS
    <2> QED BY <1>1, <2>1, <2>2
  <1> QED BY <1>3, <1>4, <1>5

LEMMA LineIs ==
  ASSUME Cursor, shell.line \in Seq(Char)
  PROVE  LineShown <=> (shell.at = "line" /\ clean => Shows(screen, ShownLine(shell.line)))
  <1>1. screen \in Screens(Glyph) /\ Len(ShownLine(shell.line)) \in Nat
    BY ShownLineIs DEF Cursor, Tidy
  <1>2. PICK t : t = ShownLine(shell.line)
    OBVIOUS
  <1>3. Shows(screen, t) <=> LET place == screen.y * SCREEN_WIDTH + screen.x
                             IN  \A n \in 1..Len(t) : n <= place => CellBefore(screen, n) = t[Len(t) + 1 - n]
    BY <1>1, <1>2, ShowsIs
  <1> QED BY <1>2, <1>3, Zenon DEF LineShown, ShownLine

LEMMA LineIsNext ==
  ASSUME Cursor', shell'.line \in Seq(Char)
  PROVE  LineShown' <=> (shell'.at = "line" /\ clean' => Shows(screen', ShownLine(shell'.line)))
  <1>1. screen' \in Screens(Glyph) /\ Len(ShownLine(shell'.line)) \in Nat
    BY ShownLineIs DEF Cursor, Tidy
  <1>2. PICK t : t = ShownLine(shell'.line)
    OBVIOUS
  <1>3. PICK s : s = screen'
    OBVIOUS
  <1>4. Shows(s, t) <=> LET place == s.y * SCREEN_WIDTH + s.x
                        IN  \A n \in 1..Len(t) : n <= place => CellBefore(s, n) = t[Len(t) + 1 - n]
    BY <1>1, <1>2, <1>3, ShowsIs
  <1> QED BY <1>2, <1>3, <1>4, Zenon DEF LineShown, ShownLine

LEMMA LinesAre ==
  /\ Units => shell.line \in Seq(Char)
  /\ Units' => shell'.line \in Seq(Char)
  BY DEF Units, Types

(* Steps that leave the shell alone and draw, at most, a cursor.            *)
LEMMA LineKept ==
  ASSUME Units, Cursor, Line, Units', Cursor', shell' = shell, clean' => clean,
         screen' = screen \/ \E c \in Glyph : screen' = DrawCursor(screen, c)
  PROVE  Line'
  <1>1. screen \in Screens(Glyph) /\ shell.line \in Seq(Char)
    BY UnitTypes DEF Cursor, Tidy, Types
  <1>2. ASSUME shell.at = "line", clean
        PROVE  Shows(screen', ShownLine(shell.line))
    <2>1. Shows(screen, ShownLine(shell.line))
      BY <1>2, LineIs, LineIsNext, LinesAre DEF Line
    <2>2. PICK t \in Seq(Glyph) : t = ShownLine(shell.line)
      BY <1>1, ShownLineIs
    <2>3. ASSUME NEW c \in Glyph, screen' = DrawCursor(screen, c)
          PROVE  Shows(screen', t)
      <3>1. Shows(WriteChar(screen, c, FALSE), t)
        BY <1>1, <2>1, <2>2, PromptIs, WriteShows
      <3> QED BY <2>3, <3>1 DEF DrawCursor
    <2> QED BY <2>1, <2>2, <2>3
  <1> QED BY <1>2, LineIsNext, LinesAre DEF Line

(* Steps after which no line is being edited, or after which somebody else  *)
(* has printed.                                                             *)
LEMMA LineIdle ==
  ASSUME Units', Cursor', ~clean' \/ shell'.at # "line", shell'.at \notin {"line", "run"} => shell'.line = <<>>
  PROVE  Line'
  BY LineIs, LineIsNext, LinesAre DEF Line

LEMMA LinePrompts ==
  ASSUME Units, Cursor, Line, Units', Cursor', ShellPrompts
  PROVE  Line'
  <1>1. screen \in Screens(Glyph) /\ shell.line = <<>> /\ Types
    BY UnitTypes DEF Cursor, Tidy, Line, ShellPrompts, ShellAt
  <1>2. shell'.at = "line" /\ shell'.line = <<>> /\ screen' = PrintAll(screen, Prompt)
    BY <1>1 DEF ShellPrompts, ShellGoes, Types
  <1>3. Shows(PrintAll(screen, Prompt), Prompt)
    BY <1>1, GlyphIs, PromptIs, PrintAllShows
  <1>4. ShownLine(<<>>) = Prompt
    <2>1. PICK l \in Seq(Char) : l = <<>>
      <3>1. <<>> \in Seq(Char)
        OBVIOUS
      <3> QED BY <3>1
    <2> QED BY <2>1, ShownLineIs
  <1> QED BY <1>2, <1>3, <1>4, LineIs, LineIsNext, LinesAre DEF Line

LEMMA LineEdits ==
  ASSUME Units, Cursor, Line, Units', Cursor', ShellEdits
  PROVE  Line'
  <1>1. Types /\ Lives(Shell) /\ Shell \in Reader /\ shell.at = "line" /\ input[Shell].at = "got"
        /\ screen \in Screens(Glyph) /\ shell.line \in Seq(Char)
    BY UnitTypes, ProcessFinite DEF Fronts, ShellEdits, Cursor, Tidy, Types
  <1>2. PICK c \in Char : c = input[Shell].char
    BY <1>1 DEF Types
  <1>3. CASE c \in {NewLineChar, Eof} \/ Len(shell.line) = BUFFER_LENGTH
    <2>1. shell'.at = "run"
      BY <1>1, <1>2, <1>3 DEF ShellEdits, Types
    <2> QED BY <2>1, LineIdle
  <1>4. CASE ~(c \in {NewLineChar, Eof} \/ Len(shell.line) = BUFFER_LENGTH)
    <2>1. /\ shell'.at = "line" /\ shell'.line = Edited(c).line
          /\ screen' = PrintAll(screen, Edited(c).echo)
          /\ clean' = (clean /\ ~MeetsTab(c))
      BY <1>1, <1>2, <1>4 DEF ShellEdits, Types
    <2>2. PICK l \in Seq(Char), t \in Seq(Glyph) : l = shell.line /\ t = ShownLine(l)
      BY <1>1, ShownLineIs
    <2>3. CASE ~clean'
      BY <2>1, <2>3, LineIdle
    <2>4. CASE clean'
      <3>1. Shows(screen, t) /\ ~MeetsTab(c)
        BY <1>1, <2>1, <2>2, <2>4, LineIs, LineIsNext, LinesAre DEF Line
      <3>2. PrintAll(screen, <<c>>) = PrintChar(screen, c) /\ PrintAll(screen, <<>>) = screen
        <4>1. PICK n \in Nat, chars \in {<<c>>} : chars = <<c>> /\ n = 1
          OBVIOUS
        <4>2. DOMAIN chars = 1..n /\ chars[1] = c
          BY <4>1
        <4>3. PICK h : Goes("print", screen, chars, n, h) /\ PrintAll(screen, chars) = h[n]
          BY <4>2, PrintAllCourse
        <4>4. h[n] = Does("print", screen, c)
          BY <4>1, <4>2, <4>3, ShortCourses
        <4>5. Does("print", screen, c) = PrintChar(screen, c)
          BY DEF Does
        <4>6. PICK z \in Nat, none \in {<<>>} : none = <<>> /\ z = 0
          OBVIOUS
        <4>7. DOMAIN none = 1..z
          BY <4>6
        <4>8. PICK g : Goes("print", screen, none, z, g) /\ PrintAll(screen, none) = g[z]
          BY <4>7, PrintAllCourse
        <4>9. g[z] = screen
          BY <4>6, <4>8, ShortCourses
        <4> QED BY <4>1, <4>3, <4>4, <4>5, <4>6, <4>8, <4>9
      <3>3. CASE c # Backspace
        <4>1. Edited(c).line = Append(l, c) /\ Edited(c).echo = <<c>>
          BY <2>2, <3>3 DEF Edited, Adds, Edit
        <4>2. Shows(PrintChar(screen, c), t \o Shown(c))
          BY <1>1, <1>4, <3>1, <3>3, GlyphIs, PrintShows
        <4>3. ShownLine(Append(l, c)) = t \o Shown(c)
          BY <2>2, ShownLineIs
        <4> QED BY <2>1, <3>2, <4>1, <4>2, <4>3, LineIs, LineIsNext, LinesAre DEF Line
      <3>4. CASE c = Backspace /\ l = <<>>
        <4>1. Edited(c).line = l /\ Edited(c).echo = <<>>
          BY <2>2, <3>4 DEF Edited, Edit
        <4> QED BY <2>1, <2>2, <3>1, <3>2, <4>1, LineIs, LineIsNext, LinesAre DEF Line
      <3>5. CASE c = Backspace /\ l # <<>>
        <4>1. Last(l) # Tab /\ Len(l) \notin shell.tabs
          BY <2>2, <3>1, <3>5 DEF MeetsTab
        <4>2. Edited(c).line = Front(l) /\ Edited(c).echo = <<c>>
          BY <2>2, <3>5, <4>1 DEF Edited, Deletes, Edit
        <4>3. PICK f \in Seq(Char), e \in Char : f = Front(l) /\ e = Last(l) /\ l = Append(f, e)
          <5>1. Front(l) \in Seq(Char)
            BY <3>5 DEF Front
          <5>2. Last(l) \in Char
            BY <3>5 DEF Last
          <5>3. l = Append(Front(l), Last(l))
            BY <3>5 DEF Front, Last
          <5> QED BY <5>1, <5>2, <5>3
        <4>4. PICK u \in Seq(Glyph) : u = ShownLine(f)
          BY ShownLineIs
        <4>5. t = u \o Shown(e) /\ Shown(e) = <<e>>
          BY <2>2, <4>1, <4>3, <4>4, ShownLineIs DEF Shown
        <4>6. e \in Glyph /\ t = Append(u, e)
          BY <4>5, AppendIs, GlyphIs
        <4>7. Shows(DeleteChar(screen), u)
          BY <1>1, <3>1, <4>6, PromptIs, DeleteShows
        <4>8. PrintChar(screen, c) = DeleteChar(screen)
          BY <3>5, PrintIs
        <4> QED BY <2>1, <3>2, <4>2, <4>3, <4>4, <4>7, <4>8, LineIs, LineIsNext, LinesAre DEF Line
      <3> QED BY <3>3, <3>4, <3>5
    <2> QED BY <2>3, <2>4
  <1> QED BY <1>3, <1>4

LEMMA LineNext ==
  ASSUME Units, Cursor, Line, Units', Cursor', [Next]_vars
  PROVE  Line'
  <1>1. Types /\ (shell.at \notin {"line", "run"} => shell.line = <<>>) /\ Blank \in Glyph
    BY UnitTypes, GlyphIs DEF Line
  <1>2. CASE UNCHANGED <<screen, shell, clean>>
    BY <1>2, LineKept
  <1>3. ASSUME NEW r \in Reader, NEW x, GetsChar(r, x), UNCHANGED <<shell, clean>>
        PROVE  Line'
    <2>1. screen' = DrawCursor(screen, Blank)
      BY <1>3 DEF GetsChar, SetCursor
    <2> QED BY <1>1, <1>3, <2>1, LineKept
  <1>4. ASSUME NEW r \in Reader, ReadStdin(r)
        PROVE  Line'
    BY <1>2, <1>3, <1>4 DEF ReadStdin
  <1>5. ASSUME NEW r \in Reader, ReadReturns(r)
        PROVE  Line'
    BY <1>3, <1>5 DEF ReadReturns
  <1>6. CASE Blink
    <2>1. PICK c \in Glyph : screen' = DrawCursor(screen, c)
      BY <1>6, GlyphIs DEF Blink
    <2> QED BY <1>6, <2>1, LineKept DEF Blink
  <1>7. CASE ShellBoots \/ ShellWaits \/ ShellWaited
    <2>1. shell.at \notin {"line", "run"}
      BY <1>7 DEF ShellBoots, ShellWaits, ShellWaited, ShellAt
    <2>2. \A at, s : ShellGoes(at, s) => shell'.at = at /\ shell'.line = shell.line
      BY <1>1 DEF ShellGoes, Types
    <2>3. shell'.at \in {"prompt", "wait"} /\ shell'.line = <<>>
      BY <1>1, <1>7, <2>1, <2>2 DEF ShellBoots, ShellWaits, ShellWaited
    <2> QED BY <2>3, LineIdle
  <1>8. CASE ShellRuns
    <2>1. shell'.at \in {"prompt", "waitpid"} /\ shell'.line = <<>>
      BY <1>8 DEF ShellRuns, NextLine
    <2> QED BY <2>1, LineIdle
  <1>9. CASE ShellPrompts \/ ShellEdits
    BY <1>9, LinePrompts, LineEdits
  <1>10. CASE ~clean' /\ UNCHANGED shell
    BY <1>1, <1>10, LineIdle
  <1>11. KeyStep \/ (\E p \in Process : StoresPending(p)) => Line'
    BY <1>2 DEF KeyStep, ShiftKey, CtrlKey, PressKey, StoresPending, console
  <1>12. ASSUME NEW j \in Job, JobStep(j)
         PROVE  Line'
    <2>1. JobReads(j) \/ ReadReturns(j) => Line'
      BY <1>4, <1>5, ProcessFinite DEF JobReads
    <2>2. JobEchoes(j) \/ JobPrints(j) => Line'
      BY <1>10 DEF JobEchoes, JobPrints
    <2>3. JobEnds(j) => Line'
      BY <1>2 DEF JobEnds, console
    <2> QED BY <1>12, <2>1, <2>2, <2>3 DEF JobStep
  <1>13. ShellStep => Line'
    BY <1>4, <1>5, <1>7, <1>8, <1>9, ProcessFinite DEF ShellStep, ShellReads
  <1>14. UNCHANGED vars => Line'
    BY <1>2 DEF vars
  <1> QED BY <1>6, <1>11, <1>12, <1>13, <1>14 DEF Next

LEMMA LineInit ==
  ASSUME Init
  PROVE  Line
  <1>1. shell.at = "boot" /\ shell.line = <<>>
    BY DEF Init
  <1> QED BY <1>1 DEF Line, LineShown

(* What stands before the cursor while the user edits is the prompt and the *)
(* line that will be run, over the ends of rows, the scrolling of the       *)
(* screen and deletions back across both (getCommandLine, printCharColor,   *)
(* deleteChar, blinkCursor, stopCursor).                                    *)
THEOREM LineStaysShown == Spec => []LineShown
  <1>1. Init => Units /\ Cursor /\ Line
    BY UnitsInit, CursorInit, LineInit
  <1>2. Units /\ Cursor /\ Line /\ [Next]_vars => (Units /\ Cursor /\ Line)'
    BY UnitsNext, CursorNext, LineNext
  <1>3. Line => LineShown
    BY DEF Line
  <1> QED BY <1>1, <1>2, <1>3, PTL DEF Spec

=============================================================================
