--------------------------- MODULE HandEngineProofs ---------------------------
(* For any number of seats, any blinds, tables, stacks and hands in a row: the *)
(* types of HandEngine, that no chip of a hand appears or vanishes, that a     *)
(* betting round ends when it must and not before, and that the award hands    *)
(* out the pot, to players who could have matched it.                          *)
EXTENDS HandEngine, FiniteInduction

-----------------------------------------------------------------------------
(* Sums of chips. *)

\* Totalled is such a sum.
LEMMA TotalledIs ==
  ASSUME NEW S, IsFiniteSet(S), NEW f, \A x \in S : f[x] \in Int
  PROVE  \E g : Sums(g, f, S) /\ Totalled(f, S) = g[S]
  <1>1. \E g : Sums(g, f, S)
    BY SumsExist
  <1> DEFINE h == CHOOSE it : Sums(it, f, S)
  <1>2. Sums(h, f, S)
    BY <1>1
  <1>3. Totalled(f, S) = h[S]
    BY DEF Sums, Totalled, FoldFunctionOnSet, MapThenFoldSet, SumStep, Picked
  <1> QED
    BY <1>2, <1>3

\* A sum of numbers is one.
LEMMA TotalNat ==
  ASSUME NEW S, IsFiniteSet(S), NEW f, \A x \in S : f[x] \in Nat
  PROVE  Totalled(f, S) \in Nat
  <1>1. PICK g : Sums(g, f, S) /\ Totalled(f, S) = g[S]
    <2>1. \A x \in S : f[x] \in Int
      OBVIOUS
    <2> QED
      BY <2>1, TotalledIs
  <1> DEFINE P == {s \in SUBSET S : g[s] \in Nat}
  <1>2. ASSUME NEW s \in SUBSET S, s = {} \/ (Picked(s) \in s /\ s \ {Picked(s)} \in P) PROVE s \in P
    <2>1. g[s] = SumStep(f, g, s)
      BY <1>1 DEF Sums
    <2> QED
      BY <1>2, <2>1 DEF SumStep
  <1>3. \A s \in SUBSET S : s \in P
    <2> HIDE DEF P
    <2> QED
      BY <1>2, SizeInd
  <1> QED
    BY <1>1, <1>3

\* A sum changes as its terms do.
LEMMA TotalChange ==
  ASSUME NEW S, IsFiniteSet(S), NEW f, NEW g, NEW p \in S, NEW d \in Int,
         \A x \in S : f[x] \in Int /\ g[x] = IF x = p THEN f[x] + d ELSE f[x]
  PROVE  Totalled(f, S) \in Int /\ Totalled(g, S) = Totalled(f, S) + d
  <1>1. PICK F : Sums(F, f, S) /\ Totalled(f, S) = F[S]
    BY TotalledIs
  <1>2. PICK G : Sums(G, g, S) /\ Totalled(g, S) = G[S]
    <2>1. \A x \in S : g[x] \in Int
      OBVIOUS
    <2> QED
      BY <2>1, TotalledIs
  <1> DEFINE P == {s \in SUBSET S : F[s] \in Int /\ G[s] = F[s] + (IF p \in s THEN d ELSE 0)}
  <1>3. ASSUME NEW s \in SUBSET S, s = {} \/ (Picked(s) \in s /\ s \ {Picked(s)} \in P) PROVE s \in P
    <2>1. F[s] = SumStep(f, F, s) /\ G[s] = SumStep(g, G, s)
      BY <1>1, <1>2 DEF Sums
    <2>2. CASE s = {}
      BY <2>1, <2>2 DEF SumStep
    <2>3. CASE s # {}
      <3>1. PICK x, r : x = Picked(s) /\ r = s \ {x}
        OBVIOUS
      <3>2. /\ x \in s /\ x \in S /\ F[s] = f[x] + F[r] /\ G[s] = g[x] + G[r]
            /\ F[r] \in Int /\ G[r] = F[r] + (IF p \in r THEN d ELSE 0)
        BY <1>3, <2>1, <2>3, <3>1 DEF SumStep
      <3>3. f[x] \in Int /\ g[x] = IF x = p THEN f[x] + d ELSE f[x]
        BY <3>2
      <3> QED
        BY <3>1, <3>2, <3>3
    <2> QED
      BY <2>2, <2>3
  <1>4. \A s \in SUBSET S : s \in P
    <2> HIDE DEF P
    <2> QED
      BY <1>3, SizeInd
  <1> QED
    BY <1>1, <1>2, <1>4

\* A sum of nothing is nothing.
LEMMA TotalZero ==
  ASSUME NEW S, IsFiniteSet(S), NEW f, \A x \in S : f[x] = 0
  PROVE  Totalled(f, S) = 0
  <1>1. PICK g : Sums(g, f, S) /\ Totalled(f, S) = g[S]
    <2>1. \A x \in S : f[x] \in Int
      OBVIOUS
    <2> QED
      BY <2>1, TotalledIs
  <1> DEFINE P == {s \in SUBSET S : g[s] = 0}
  <1>2. ASSUME NEW s \in SUBSET S, s = {} \/ (Picked(s) \in s /\ s \ {Picked(s)} \in P) PROVE s \in P
    <2>1. g[s] = SumStep(f, g, s)
      BY <1>1 DEF Sums
    <2> QED
      BY <1>2, <2>1 DEF SumStep
  <1>3. \A s \in SUBSET S : s \in P
    <2> HIDE DEF P
    <2> QED
      BY <1>2, SizeInd
  <1> QED
    BY <1>1, <1>3

-----------------------------------------------------------------------------
(* The chips of an engine, and what a player puts in. *)

\* What the fields of an engine hold.
EngineType ==
  [players : SUBSET Seats, button : Seats, ante : Nat, boards : 1 .. 2,
   stack : [Seats -> Nat], committed : [Seats -> Nat], total : [Seats -> Nat],
   foldedStreet : [Seats -> NotFolded .. River], allIn : SUBSET Seats, acted : SUBSET Seats,
   street : Preflop .. River, allInStreet : NoStreet .. River, currentBet : Nat,
   minRaise : Nat, toAct : Seats \cup {NoOne}, pot : Int, done : BOOLEAN,
   winners : SUBSET Seats, winners2 : SUBSET Seats]

\* What a player has put in on the streets that are closed.
BehindOf(e, p) == e.total[p] - e.committed[p]

\* Every chip of the hand is somewhere.
Chips(e, t) ==
  /\ e.players = t.active /\ e.ante = t.ante /\ e.boards = t.boards
  /\ \A p \in Seats : e.stack[p] + e.total[p] = t.stack[p] /\ e.committed[p] <= e.total[p]
  /\ e.pot = e.ante + Totalled(e.total, e.players)
  /\ \A p \in e.players : p \in e.allIn <=> e.stack[p] = 0
  /\ e.winners \subseteq e.players /\ e.winners2 \subseteq e.players

\* What is known of the constants: seats are finitely many numbers, the blinds are chips.
LEMMA SeatNumbers == /\ IsFiniteSet(Seats) /\ \A p \in Seats : p \in Int
                     /\ BigBlind \in Nat \ {0} /\ SmallBlind \in Nat \ {0} /\ NumSeats \in Nat \ {0, 1}
                     /\ \A p \in Seats : p # NoOne
  BY EngineAssumption, FS_Interval DEF Seats, NoOne

\* The lesser and the greater of two numbers.
LEMMA MinOf == ASSUME NEW a \in Int, NEW b \in Int PROVE Min({a, b}) = IF a <= b THEN a ELSE b
  BY DEF Min
\* The greater of two numbers.
LEMMA MaxOf == ASSUME NEW a \in Int, NEW b \in Int PROVE Max({a, b}) = IF a >= b THEN a ELSE b
  BY DEF Max

\* What moving chips to the bets changes.
PutIn(e, f, p, put) ==
  /\ \A q \in Seats : /\ f.stack[q] = IF q = p THEN e.stack[p] - put ELSE e.stack[q]
                      /\ f.committed[q] = IF q = p THEN e.committed[p] + put ELSE e.committed[q]
                      /\ f.total[q] = IF q = p THEN e.total[p] + put ELSE e.total[q]
  /\ f.allIn = IF e.stack[p] - put <= 0 THEN e.allIn \cup {p} ELSE e.allIn
  /\ f.players = e.players /\ f.button = e.button /\ f.ante = e.ante /\ f.boards = e.boards
  /\ f.foldedStreet = e.foldedStreet /\ f.acted = e.acted /\ f.street = e.street
  /\ f.allInStreet = e.allInStreet /\ f.currentBet = e.currentBet /\ f.minRaise = e.minRaise
  /\ f.toAct = e.toAct /\ f.done = e.done /\ f.winners = e.winners /\ f.winners2 = e.winners2

\* Chips that a player puts in, all he has at the most.
LEMMA PutFits ==
  ASSUME NEW e \in EngineType, NEW t \in TableType, Chips(e, t), NEW p \in e.players, NEW amount \in Int,
         amount + e.committed[p] >= 0, amount >= 0 \/ p \notin e.allIn,
         NEW f, f = Put(e, p, amount)
  PROVE  /\ f \in EngineType /\ Chips(f, t)
         /\ PutIn(e, f, p, IF amount <= e.stack[p] THEN amount ELSE e.stack[p])
  <1>1. p \in Seats /\ e.stack[p] \in Nat /\ e.committed[p] \in Nat /\ e.total[p] \in Nat /\ e.committed[p] <= e.total[p]
    BY DEF EngineType, Chips
  <1>2. PICK put \in Int : put = Min({amount, e.stack[p]}) /\ put = (IF amount <= e.stack[p] THEN amount ELSE e.stack[p])
    <2>1. e.stack[p] \in Int
      BY <1>1
    <2>2. Min({amount, e.stack[p]}) = IF amount <= e.stack[p] THEN amount ELSE e.stack[p]
      BY ONLY <2>1, MinOf, amount \in Int
    <2>3. PICK put \in Int : put = IF amount <= e.stack[p] THEN amount ELSE e.stack[p]
      BY ONLY <2>1, amount \in Int
    <2> QED
      BY <2>2, <2>3
  <1>3. put = IF amount <= e.stack[p] THEN amount ELSE e.stack[p]
    BY <1>2
  <1>4. put <= e.stack[p] /\ e.committed[p] + put >= 0 /\ (amount >= 0 => put >= 0)
    <2>1. CASE amount <= e.stack[p]
      BY ONLY <2>1, <1>1, <1>3, amount \in Int, put \in Int, amount + e.committed[p] >= 0
    <2>2. CASE ~(amount <= e.stack[p])
      BY ONLY <2>2, <1>1, <1>3, amount \in Int, put \in Int
    <2> QED
      BY <2>1, <2>2
  <1>5. /\ e.stack[p] - put \in Nat /\ e.committed[p] + put \in Nat /\ e.total[p] + put \in Nat
        /\ e.committed[p] + put <= e.total[p] + put
    BY ONLY <1>1, <1>4, put \in Int
  <1>6. PICK A : A = (IF e.stack[p] - put <= 0 THEN e.allIn \cup {p} ELSE e.allIn)
    OBVIOUS
  <1>7. PICK S, C, T : /\ S = [e.stack EXCEPT ![p] = e.stack[p] - put]
                       /\ C = [e.committed EXCEPT ![p] = e.committed[p] + put]
                       /\ T = [e.total EXCEPT ![p] = e.total[p] + put]
    OBVIOUS
  <1>8. f = [e EXCEPT !.stack = S, !.committed = C, !.total = T, !.allIn = A, !.pot = e.pot + put]
    <2>1. f = [e EXCEPT !.stack[p] = e.stack[p] - put, !.committed[p] = e.committed[p] + put,
                        !.total[p] = e.total[p] + put, !.allIn = A, !.pot = e.pot + put]
      BY <1>2, <1>6 DEF Put, Moved
    <2> QED
      BY <1>7, <2>1
  <1>9. /\ S \in [Seats -> Nat] /\ C \in [Seats -> Nat] /\ T \in [Seats -> Nat]
        /\ A \in SUBSET Seats /\ e.pot + put \in Int
    <2>1. /\ e.stack \in [Seats -> Nat] /\ e.committed \in [Seats -> Nat] /\ e.total \in [Seats -> Nat]
          /\ e.allIn \in SUBSET Seats /\ e.pot \in Int
      BY DEF EngineType
    <2> QED
      BY <1>1, <1>5, <1>6, <1>7, <2>1
  <1>10. f \in EngineType
    BY <1>8, <1>9, ZenonT(60) DEF EngineType
  <1>11. /\ f.stack = S /\ f.committed = C /\ f.total = T /\ f.allIn = A /\ f.pot = e.pot + put
         /\ f.players = e.players /\ f.ante = e.ante
         /\ f.boards = e.boards /\ f.winners = e.winners /\ f.winners2 = e.winners2
         /\ f.button = e.button /\ f.foldedStreet = e.foldedStreet /\ f.acted = e.acted /\ f.street = e.street
         /\ f.allInStreet = e.allInStreet /\ f.currentBet = e.currentBet /\ f.minRaise = e.minRaise
         /\ f.toAct = e.toAct /\ f.done = e.done
    BY <1>8 DEF EngineType
  <1>12. \A q \in Seats : /\ f.stack[q] = IF q = p THEN e.stack[p] - put ELSE e.stack[q]
                          /\ f.committed[q] = IF q = p THEN e.committed[p] + put ELSE e.committed[q]
                          /\ f.total[q] = IF q = p THEN e.total[p] + put ELSE e.total[q]
    <2>1. /\ e.stack \in [Seats -> Nat] /\ e.committed \in [Seats -> Nat] /\ e.total \in [Seats -> Nat]
      BY DEF EngineType
    <2> QED
      BY <1>1, <1>7, <1>11, <2>1
  <1>13. Totalled(f.total, e.players) = Totalled(e.total, e.players) + put /\ Totalled(e.total, e.players) \in Int
    <2>1. IsFiniteSet(e.players) /\ e.players \subseteq Seats
      BY SeatNumbers, FS_Subset DEF EngineType
    <2>2. e.total \in [Seats -> Nat]
      BY DEF EngineType
    <2>3. \A x \in e.players : e.total[x] \in Int /\ f.total[x] = IF x = p THEN e.total[x] + put ELSE e.total[x]
      BY <1>12, <2>1, <2>2
    <2>4. PICK P, F, G : P = e.players /\ F = e.total /\ G = f.total
      OBVIOUS
    <2>5. /\ IsFiniteSet(P) /\ p \in P
          /\ \A x \in P : F[x] \in Int /\ G[x] = IF x = p THEN F[x] + put ELSE F[x]
      BY ONLY <2>1, <2>3, <2>4, p \in e.players
    <2>6. Totalled(F, P) \in Int /\ Totalled(G, P) = Totalled(F, P) + put
      BY ONLY <2>5, TotalChange, put \in Int
    <2> QED
      BY <2>4, <2>6
  <1>14. Chips(f, t)
    <2> USE <1>11
    <2>1. ASSUME NEW q \in Seats PROVE f.stack[q] + f.total[q] = t.stack[q] /\ f.committed[q] <= f.total[q]
      <3>1. e.stack[q] + e.total[q] = t.stack[q] /\ e.committed[q] <= e.total[q]
        BY DEF Chips
      <3>2. e.stack[q] \in Nat /\ e.total[q] \in Nat /\ t.stack[q] \in Nat
        BY DEF EngineType, TableType
      <3> QED
        BY <1>1, <1>5, <1>12, <3>1, <3>2
    <2>2. ASSUME NEW q \in e.players PROVE q \in A <=> f.stack[q] = 0
      <3>1. q \in Seats /\ (q \in e.allIn <=> e.stack[q] = 0)
        BY DEF EngineType, Chips
      <3>2. CASE q = p
        <4>1. q \in A <=> q \in e.allIn \/ e.stack[p] - put <= 0
          BY <1>6, <3>2
        <4>2. f.stack[q] = e.stack[p] - put /\ (p \in e.allIn => amount >= 0 /\ e.stack[p] = 0)
          BY <1>12, <3>1, <3>2
        <4>3. p \in e.allIn => put = 0
          BY ONLY <4>2, <1>4, <1>1, put \in Int
        <4> QED
          BY <1>1, <1>4, <3>1, <3>2, <4>1, <4>2, <4>3
      <3>3. CASE q # p
        BY <1>6, <1>12, <3>1, <3>3
      <3> QED
        BY <3>2, <3>3
    <2>3. f.pot = f.ante + Totalled(f.total, f.players)
      <3>1. e.pot = e.ante + Totalled(e.total, e.players) /\ e.ante \in Int
        BY DEF Chips, EngineType
      <3> QED
        BY <1>13, <3>1
    <2>4. e.players = t.active /\ e.ante = t.ante /\ e.boards = t.boards /\ e.winners \subseteq e.players /\ e.winners2 \subseteq e.players
      BY DEF Chips
    <2> QED
      BY <2>1, <2>2, <2>3, <2>4 DEF Chips
  <1> QED
    <2>1. PutIn(e, f, p, put)
      BY <1>6, <1>11, <1>12 DEF PutIn
    <2>2. put = (IF amount <= e.stack[p] THEN amount ELSE e.stack[p])
      BY <1>2
    <2>3. PutIn(e, f, p, IF amount <= e.stack[p] THEN amount ELSE e.stack[p])
      BY <2>1, <2>2
    <2> QED
      BY <1>10, <1>14, <2>3

-----------------------------------------------------------------------------
(* Seats, and what is made step by step. *)

\* A bounded set of numbers has a greatest one.
LEMMA NatMax ==
  ASSUME NEW T, T \subseteq Nat, T # {}, NEW b \in Nat, \A x \in T : x <= b
  PROVE  Max(T) \in T /\ \A x \in T : x <= Max(T)
  <1> DEFINE U == {n \in Nat : \A x \in T : x <= n}
  <1>1. PICK m \in U : \A n \in U : m <= n
    <2>1. U \subseteq Nat /\ U # {}
      OBVIOUS
    <2> HIDE DEF U
    <2> QED
      BY <2>1, NatMin
  <1>2. m \in T
    <2> SUFFICES ASSUME m \notin T PROVE FALSE
      OBVIOUS
    <2>1. m \in Nat /\ \A x \in T : x <= m
      BY <1>1
    <2>2. \A x \in T : x <= m - 1 /\ x >= 0
      BY <2>1
    <2>3. PICK x \in T : x <= m - 1 /\ x >= 0 /\ x \in Nat
      BY <2>2
    <2>4. m - 1 \in U
      BY <2>1, <2>2, <2>3
    <2> QED
      BY <1>1, <2>1, <2>4
  <1>3. \E x \in T : \A y \in T : x >= y
    BY <1>1, <1>2
  <1> QED
    BY <1>3 DEF Max

\* Walking clockwise ends at a seat that is looked for.
LEMMA ClockwiseIn ==
  ASSUME NEW S \in SUBSET Seats, S # {}, NEW from \in Seats
  PROVE  Clockwise(S, from) \in S
  <1> DEFINE d(s) == (s + NumSeats - from - 1) % NumSeats
             T == {d(s) : s \in S}
  <1>1. \A s \in Seats : d(s) \in Nat
    BY SeatNumbers
  <1>2. T \subseteq Nat /\ T # {}
    BY <1>1
  <1>3. PICK m \in T : \A x \in T : m <= x
    <2> HIDE DEF T
    <2> QED
      BY <1>2, NatMin
  <1>4. \E s \in S : \A x \in S : d(s) <= d(x)
    BY <1>3
  <1> QED
    BY <1>4 DEF Clockwise

\* The player reached first is one of those looked among, if there are any (nextToAct).
LEMMA FirstAfterIn ==
  ASSUME NEW S \in SUBSET Seats, NEW from \in Seats
  PROVE  /\ S = {} => FirstAfter(S, from) = NoOne
         /\ S # {} => FirstAfter(S, from) \in S
  BY ClockwiseIn DEF FirstAfter

\* The straddles that are left are straddles.
\* A straddle: who posts it and what he is to have put in.
Straddle == [seat : Seats, amount : Nat]
\* The straddles pinned to other seats are straddles.
LEMMA PinnedElsewhereFits ==
  ASSUME NEW list \in Seq(Straddle), NEW seat
  PROVE  PinnedElsewhere(list, seat) \in Seq(Straddle)
  <1> DEFINE N == Len(list)
             A == Seq(Straddle)
             body(n, k) == k \o (IF list[n].seat = seat THEN <<>> ELSE <<list[n]>>)
             F == [x \in (1 .. N) \X A |-> body(x[1], x[2])]
             Eq(g) == g = [n \in 0 .. N |-> IF n = 0 THEN <<>> ELSE g[n - 1] \o (IF list[n].seat = seat THEN <<>> ELSE <<list[n]>>)]
             h == CHOOSE g : Eq(g)
  <1>1. N \in Nat /\ <<>> \in A /\ \A n \in 1 .. N : list[n] \in Straddle
    OBVIOUS
  <1>2. \A n \in 1 .. N, k \in A : body(n, k) \in A
    <2> TAKE n \in 1 .. N, k \in A
    <2>1. <<list[n]>> \in A /\ <<>> \in A
      BY <1>1
    <2> QED
      BY <2>1
  <1>3. F \in [(1 .. N) \X A -> A]
    BY <1>2
  <1>4. PICK g : g \in [0 .. N -> A] /\ Steps(g, N, <<>>, F)
    <2> HIDE DEF F, A, N
    <2> QED
      BY <1>1, <1>3, StepsExist
  <1>5. Eq(g)
    <2>1. \A n \in 0 .. N : g[n] = IF n = 0 THEN <<>> ELSE body(n, g[n - 1])
      <3> TAKE n \in 0 .. N
      <3>1. CASE n = 0
        BY <1>4, <3>1 DEF Steps
      <3>2. CASE n # 0
        <4>1. n \in 1 .. N /\ g[n - 1] \in A
          BY <1>1, <1>4, <3>2
        <4>2. g[n] = F[<<n, g[n - 1]>>]
          BY <1>4, <3>2 DEF Steps
        <4> QED
          BY <4>1, <4>2, <3>2
      <3> QED
        BY <3>1, <3>2
    <2> QED
      BY <1>4, <2>1
  <1>6. Eq(h)
    <2> HIDE DEF Eq
    <2> QED
      BY <1>5
  <1>7. PinnedElsewhere(list, seat) = h[N]
    BY DEF PinnedElsewhere
  <1>8. h[0] = <<>> /\ \A n \in 1 .. N : h[n] = body(n, h[n - 1])
    <2> HIDE DEF h
    <2> QED
      BY <1>1, <1>6
  <1>9. \A n \in 0 .. N : h[n] \in A
    <2>1. h[0] \in A /\ \A n \in 1 .. N : h[n - 1] \in A => h[n] \in A
      BY <1>1, <1>2, <1>8
    <2> HIDE DEF h, A, N
    <2> QED
      BY <1>1, <2>1, StepsIn
  <1>10. N \in 0 .. N
    BY <1>1
  <1> HIDE DEF h, N
  <1> QED
    BY <1>7, <1>9, <1>10

-----------------------------------------------------------------------------
(* Sums of the terms of several functions. *)

\* Sums of numbers are numbers, the greater the greater their terms, and terms that are
\* added add up.
LEMMA TotalSum ==
  ASSUME NEW S, IsFiniteSet(S), NEW f, NEW g, NEW h,
         \A x \in S : f[x] \in Int /\ g[x] \in Int /\ h[x] = f[x] + g[x]
  PROVE  /\ Totalled(f, S) \in Int /\ Totalled(g, S) \in Int
         /\ Totalled(h, S) = Totalled(f, S) + Totalled(g, S)
  <1>1. PICK F : Sums(F, f, S) /\ Totalled(f, S) = F[S]
    <2>1. \A x \in S : f[x] \in Int
      OBVIOUS
    <2> QED
      BY <2>1, TotalledIs
  <1>2. PICK G : Sums(G, g, S) /\ Totalled(g, S) = G[S]
    <2>1. \A x \in S : g[x] \in Int
      OBVIOUS
    <2> QED
      BY <2>1, TotalledIs
  <1>3. PICK H : Sums(H, h, S) /\ Totalled(h, S) = H[S]
    <2>1. \A x \in S : h[x] \in Int
      OBVIOUS
    <2> QED
      BY <2>1, TotalledIs
  <1> DEFINE P == {s \in SUBSET S : F[s] \in Int /\ G[s] \in Int /\ H[s] = F[s] + G[s]}
  <1>4. ASSUME NEW s \in SUBSET S, s = {} \/ (Picked(s) \in s /\ s \ {Picked(s)} \in P) PROVE s \in P
    <2>1. F[s] = SumStep(f, F, s) /\ G[s] = SumStep(g, G, s) /\ H[s] = SumStep(h, H, s)
      BY <1>1, <1>2, <1>3 DEF Sums
    <2>2. CASE s = {}
      BY <2>1, <2>2 DEF SumStep
    <2>3. CASE s # {}
      <3>1. PICK x, r : x = Picked(s) /\ r = s \ {x}
        OBVIOUS
      <3>2. /\ x \in s /\ x \in S /\ F[s] = f[x] + F[r] /\ G[s] = g[x] + G[r] /\ H[s] = h[x] + H[r]
            /\ F[r] \in Int /\ G[r] \in Int /\ H[r] = F[r] + G[r]
        BY <1>4, <2>1, <2>3, <3>1 DEF SumStep
      <3>3. f[x] \in Int /\ g[x] \in Int /\ h[x] = f[x] + g[x]
        BY <3>2
      <3>4. F[s] \in Int /\ G[s] \in Int /\ H[s] = F[s] + G[s]
        BY ONLY <3>2, <3>3
      <3> QED
        BY <3>4
    <2> QED
      BY <2>2, <2>3
  <1>5. \A s \in SUBSET S : s \in P
    <2> HIDE DEF P
    <2> QED
      BY <1>4, SizeInd
  <1> QED
    BY <1>1, <1>2, <1>3, <1>5

\* A sum of numbers is one.
LEMMA TotalInt ==
  ASSUME NEW S, IsFiniteSet(S), NEW f, \A x \in S : f[x] \in Int
  PROVE  Totalled(f, S) \in Int
  <1>1. PICK g : g = [x \in S |-> 0]
    OBVIOUS
  <1>2. \A x \in S : f[x] \in Int /\ g[x] \in Int /\ f[x] = f[x] + g[x]
    BY <1>1
  <1> QED
    BY <1>2, TotalSum

\* Equal terms, equal sums.
LEMMA TotalSame ==
  ASSUME NEW S, IsFiniteSet(S), NEW f, NEW g, \A x \in S : f[x] \in Int /\ g[x] = f[x]
  PROVE  Totalled(g, S) = Totalled(f, S)
  <1>1. PICK z : z = [x \in S |-> 0]
    OBVIOUS
  <1>2. \A x \in S : f[x] \in Int /\ z[x] \in Int /\ g[x] = f[x] + z[x]
    BY <1>1
  <1>3. Totalled(f, S) \in Int /\ Totalled(z, S) \in Int /\ Totalled(g, S) = Totalled(f, S) + Totalled(z, S)
    BY ONLY <1>2, IsFiniteSet(S), TotalSum
  <1>4. Totalled(z, S) = 0
    <2>1. \A x \in S : z[x] = 0
      BY <1>1
    <2> QED
      BY <2>1, TotalZero
  <1>5. PICK n \in Int : n = Totalled(f, S)
    BY <1>3
  <1> QED
    BY <1>3, <1>4, <1>5

\* The greater the terms, the greater the sum.
LEMMA TotalLess ==
  ASSUME NEW S, IsFiniteSet(S), NEW f, NEW g, \A x \in S : f[x] \in Int /\ g[x] \in Int /\ f[x] <= g[x]
  PROVE  Totalled(f, S) \in Int /\ Totalled(g, S) \in Int /\ Totalled(f, S) <= Totalled(g, S)
  <1>1. PICK d : d = [x \in S |-> g[x] - f[x]]
    OBVIOUS
  <1>2. \A x \in S : f[x] \in Int /\ d[x] \in Int /\ g[x] = f[x] + d[x] /\ d[x] \in Nat
    BY <1>1
  <1>3. /\ Totalled(f, S) \in Int /\ Totalled(d, S) \in Int
        /\ Totalled(g, S) = Totalled(f, S) + Totalled(d, S)
    BY <1>2, TotalSum
  <1>4. Totalled(d, S) \in Nat
    <2>1. \A x \in S : d[x] \in Nat
      BY <1>2
    <2> QED
      BY <2>1, TotalNat
  <1>5. PICK n \in Int, k \in Nat : n = Totalled(f, S) /\ k = Totalled(d, S)
    BY <1>3, <1>4
  <1> QED
    BY <1>3, <1>5

\* A sum with one term that is not 0.
LEMMA TotalOne ==
  ASSUME NEW S, IsFiniteSet(S), NEW p \in S, NEW d \in Int, NEW f,
         \A x \in S : f[x] = IF x = p THEN d ELSE 0
  PROVE  Totalled(f, S) = d
  <1>1. PICK z : z = [x \in S |-> 0]
    OBVIOUS
  <1>2. \A x \in S : z[x] \in Int /\ f[x] = IF x = p THEN z[x] + d ELSE z[x]
    BY <1>1
  <1>3. Totalled(f, S) = Totalled(z, S) + d
    BY <1>2, TotalChange
  <1>4. Totalled(z, S) = 0
    <2>1. \A x \in S : z[x] = 0
      BY <1>1
    <2> QED
      BY <2>1, TotalZero
  <1> QED
    BY <1>3, <1>4

\* Factors come out of sums.
LEMMA TotalTimes ==
  ASSUME NEW S, IsFiniteSet(S), NEW f, NEW g, NEW c \in Int, \A x \in S : f[x] \in Int /\ g[x] = c * f[x]
  PROVE  Totalled(f, S) \in Int /\ Totalled(g, S) = c * Totalled(f, S)
  <1>1. \A x \in S : f[x] \in Int /\ g[x] \in Int
    OBVIOUS
  <1>2. PICK F : Sums(F, f, S) /\ Totalled(f, S) = F[S]
    BY <1>1, TotalledIs
  <1>3. PICK G : Sums(G, g, S) /\ Totalled(g, S) = G[S]
    BY <1>1, TotalledIs
  <1> DEFINE P == {s \in SUBSET S : F[s] \in Int /\ G[s] = c * F[s]}
  <1>4. ASSUME NEW s \in SUBSET S, s = {} \/ (Picked(s) \in s /\ s \ {Picked(s)} \in P) PROVE s \in P
    <2>1. F[s] = SumStep(f, F, s) /\ G[s] = SumStep(g, G, s)
      BY <1>2, <1>3 DEF Sums
    <2>2. CASE s = {}
      BY <2>1, <2>2 DEF SumStep
    <2>3. CASE s # {}
      <3>1. PICK x, r : x = Picked(s) /\ r = s \ {x}
        OBVIOUS
      <3>2. /\ x \in s /\ x \in S /\ F[s] = f[x] + F[r] /\ G[s] = g[x] + G[r]
            /\ F[r] \in Int /\ G[r] = c * F[r]
        BY <1>4, <2>1, <2>3, <3>1 DEF SumStep
      <3>3. f[x] \in Int /\ g[x] = c * f[x]
        BY <3>2
      <3>4. PICK a \in Int, b \in Int : a = f[x] /\ b = F[r]
        BY <3>2, <3>3
      <3>5. c * (a + b) = c * a + c * b
        OBVIOUS
      <3>6. F[s] = a + b /\ G[s] = c * a + c * b
        BY <3>2, <3>3, <3>4
      <3>7. F[s] \in Int /\ G[s] = c * F[s]
        BY ONLY <3>5, <3>6, a \in Int, b \in Int
      <3> QED
        BY <3>7
    <2> QED
      BY <2>2, <2>3
  <1>5. \A s \in SUBSET S : s \in P
    <2> HIDE DEF P
    <2> QED
      BY <1>4, SizeInd
  <1> QED
    BY <1>2, <1>3, <1>5

\* The number of the members of a part is the sum of a 1 for each.
LEMMA TotalMembers ==
  ASSUME NEW S, IsFiniteSet(S), NEW W \in SUBSET S, NEW f, \A x \in S : f[x] = IF x \in W THEN 1 ELSE 0
  PROVE  Totalled(f, S) = Cardinality(W)
  <1>1. PICK F : Sums(F, f, S) /\ Totalled(f, S) = F[S]
    <2>1. \A x \in S : f[x] \in Int
      OBVIOUS
    <2> QED
      BY <2>1, TotalledIs
  <1>2. \A s : /\ IsFiniteSet(s \cap W) /\ Cardinality(s \cap W) \in Nat
    BY FS_Subset, FS_CardinalityType
  <1> DEFINE P == {s \in SUBSET S : F[s] = Cardinality(s \cap W)}
  <1>3. ASSUME NEW s \in SUBSET S, s = {} \/ (Picked(s) \in s /\ s \ {Picked(s)} \in P) PROVE s \in P
    <2>1. F[s] = SumStep(f, F, s)
      BY <1>1 DEF Sums
    <2>2. CASE s = {}
      <3>1. s \cap W = {}
        BY <2>2
      <3> QED
        BY <2>1, <2>2, <3>1, FS_EmptySet DEF SumStep
    <2>3. CASE s # {}
      <3>1. PICK x, r : x = Picked(s) /\ r = s \ {x}
        OBVIOUS
      <3>2. x \in s /\ x \in S /\ F[s] = f[x] + F[r] /\ F[r] = Cardinality(r \cap W)
        BY <1>3, <2>1, <2>3, <3>1 DEF SumStep
      <3>3. f[x] = IF x \in W THEN 1 ELSE 0
        BY <3>2
      <3>4. PICK a, b : a = s \cap W /\ b = r \cap W
        OBVIOUS
      <3>5. IsFiniteSet(a) /\ Cardinality(a) \in Nat /\ Cardinality(b) \in Nat
        BY <1>2, <3>4
      <3>6. CASE x \in W
        <4>1. b = a \ {x} /\ x \in a
          BY <3>1, <3>2, <3>4, <3>6
        <4>2. Cardinality(b) = Cardinality(a) - 1
          BY <3>5, <4>1, FS_RemoveElement
        <4>3. F[s] = Cardinality(a)
          BY <3>2, <3>3, <3>4, <3>5, <3>6, <4>2
        <4> QED
          BY <3>4, <4>3
      <3>7. CASE x \notin W
        <4>1. b = a
          BY <3>1, <3>2, <3>4, <3>7
        <4>2. F[s] = Cardinality(a)
          BY <3>2, <3>3, <3>4, <3>5, <3>7, <4>1
        <4> QED
          BY <3>4, <4>2
      <3> QED
        BY <3>6, <3>7
    <2> QED
      BY <2>2, <2>3
  <1>4. \A s \in SUBSET S : s \in P
    <2> HIDE DEF P
    <2> QED
      BY <1>3, SizeInd
  <1>5. S \cap W = W /\ F[S] = Cardinality(S \cap W)
    BY <1>4
  <1> QED
    BY <1>1, <1>5

\* A finite set has a member with the most.
LEMMA MostIn ==
  ASSUME NEW S, IsFiniteSet(S), S # {}, NEW f, \A x \in S : f[x] \in Int
  PROVE  \E m \in S : \A x \in S : f[x] <= f[m]
  <1> DEFINE P == {s \in SUBSET S : s # {} => \E m \in s : \A x \in s : f[x] <= f[m]}
  <1>1. ASSUME NEW s \in SUBSET S, s = {} \/ (Picked(s) \in s /\ s \ {Picked(s)} \in P)
        PROVE  s \in P
    <2>1. CASE s = {}
      BY <2>1
    <2>2. CASE Picked(s) \in s /\ s \ {Picked(s)} \in P
      <3>1. PICK k : k = Picked(s)
        OBVIOUS
      <3>2. k \in s /\ s \ {k} \in P /\ f[k] \in Int
        BY <2>2, <3>1
      <3>3. CASE s \ {k} = {}
        <4>1. \A x \in s : f[x] <= f[k]
          BY <3>2, <3>3
        <4> QED
          BY <3>2, <4>1
      <3>4. CASE s \ {k} # {}
        <4>1. PICK m \in s \ {k} : \A x \in s \ {k} : f[x] <= f[m]
          BY <3>2, <3>4
        <4>2. f[m] \in Int /\ \A x \in s : f[x] \in Int
          BY <4>1
        <4>3. CASE f[k] <= f[m]
          <5>1. \A x \in s : f[x] <= f[m]
            BY <4>1, <4>3
          <5> QED
            BY <5>1
        <4>4. CASE f[m] <= f[k]
          <5>1. \A x \in s : f[x] <= f[k]
            BY <3>2, <4>1, <4>2, <4>4
          <5> QED
            BY <3>2, <5>1
        <4> QED
          BY <3>2, <4>2, <4>3, <4>4
      <3> QED
        BY <3>3, <3>4
    <2> QED
      BY <1>1, <2>1, <2>2
  <1>2. \A s \in SUBSET S : s \in P
    <2> HIDE DEF P
    <2> QED
      BY <1>1, SizeInd
  <1> QED
    BY <1>2

\* What is known of the number of members of a set of seats.
LEMMA SeatsFinite ==
  ASSUME NEW S \in SUBSET Seats
  PROVE  /\ IsFiniteSet(S) /\ Cardinality(S) \in Nat
         /\ \A x \in S : S # {x} => S \ {x} # {}
         /\ Cardinality(S) = 1 <=> \E x : S = {x}
         /\ Cardinality(S) < 2 => \A x, y \in S : x = y
  <1>1. IsFiniteSet(S) /\ Cardinality(S) \in Nat
    BY SeatNumbers, FS_Subset, FS_CardinalityType
  <1>2. Cardinality(S) = 1 <=> \E x : S = {x}
    BY <1>1, FS_Singleton
  <1>3. Cardinality(S) = 0 <=> S = {}
    BY <1>1, FS_EmptySet
  <1>4. Cardinality(S) < 2 => \A x, y \in S : x = y
    <2>1. Cardinality(S) < 2 => Cardinality(S) = 0 \/ Cardinality(S) = 1
      BY <1>1
    <2> QED
      BY <1>2, <1>3, <2>1
  <1> QED
    BY <1>1, <1>2, <1>4

-----------------------------------------------------------------------------
(* Sums by rows and by columns, and stakes cut in slices. *)

\* A table of numbers and the same turned on its side.
Turned(m, col, S, T) == \A x \in S, y \in T : m[x][y] \in Int /\ col[y][x] = m[x][y]
\* The sums of the rows of a table.
RowSums(f, m, S, T) == \A x \in S : f[x] = Totalled(m[x], T)

\* A sum of sums may be taken by rows or by columns.
LEMMA TotalSwap ==
  ASSUME NEW S, IsFiniteSet(S), NEW T, IsFiniteSet(T), NEW m, NEW col, NEW f, NEW g,
         Turned(m, col, S, T), RowSums(f, m, S, T), RowSums(g, col, T, S)
  PROVE  Totalled(f, S) \in Int /\ Totalled(f, S) = Totalled(g, T)
  <1>1. /\ \A x \in S, y \in T : m[x][y] \in Int /\ col[y][x] = m[x][y]
        /\ \A x \in S : f[x] = Totalled(m[x], T)
        /\ \A y \in T : g[y] = Totalled(col[y], S)
    BY DEF Turned, RowSums
  <1>2. \A x \in S : f[x] \in Int
    <2> TAKE x \in S
    <2>1. PICK h : h = m[x]
      OBVIOUS
    <2>2. \A y \in T : h[y] \in Int
      BY <1>1, <2>1
    <2>3. Totalled(h, T) \in Int
      BY <2>2, TotalInt
    <2> QED
      BY <1>1, <2>1, <2>3
  <1>3. PICK F : Sums(F, f, S) /\ Totalled(f, S) = F[S]
    BY <1>2, TotalledIs
  <1>4. \A y \in T : \E C : Sums(C, col[y], S) /\ Totalled(col[y], S) = C[S]
    <2> TAKE y \in T
    <2>1. PICK h : h = col[y]
      OBVIOUS
    <2>2. \A x \in S : h[x] \in Int
      BY <1>1, <2>1
    <2>3. \E C : Sums(C, h, S) /\ Totalled(h, S) = C[S]
      BY <2>2, TotalledIs
    <2> QED
      BY <2>1, <2>3
  <1>5. PICK D : D = [y \in T |-> CHOOSE C : Sums(C, col[y], S) /\ Totalled(col[y], S) = C[S]]
    OBVIOUS
  <1>6. \A y \in T : Sums(D[y], col[y], S) /\ Totalled(col[y], S) = D[y][S]
    BY <1>4, <1>5
  <1> DEFINE Row(s) == [y \in T |-> D[y][s]]
             P == {s \in SUBSET S : /\ F[s] \in Int /\ \A y \in T : D[y][s] \in Int
                                    /\ F[s] = Totalled(Row(s), T)}
  <1>7. ASSUME NEW s \in SUBSET S, s = {} \/ (Picked(s) \in s /\ s \ {Picked(s)} \in P) PROVE s \in P
    <2>1. F[s] = SumStep(f, F, s) /\ \A y \in T : D[y][s] = SumStep(col[y], D[y], s)
      BY <1>3, <1>6 DEF Sums
    <2>2. CASE s = {}
      <3>1. F[s] = 0 /\ \A y \in T : D[y][s] = 0
        BY <2>1, <2>2 DEF SumStep
      <3>2. PICK R : R = Row(s)
        OBVIOUS
      <3>3. \A y \in T : R[y] = 0
        BY <3>1, <3>2
      <3>4. Totalled(R, T) = 0
        BY <3>3, TotalZero
      <3> QED
        BY <3>1, <3>2, <3>4
    <2>3. CASE s # {}
      <3>1. PICK x, r : x = Picked(s) /\ r = s \ {x}
        OBVIOUS
      <3>2. /\ x \in s /\ x \in S /\ F[s] = f[x] + F[r]
            /\ \A y \in T : D[y][s] = col[y][x] + D[y][r]
            /\ F[r] \in Int /\ \A y \in T : D[y][r] \in Int
            /\ F[r] = Totalled(Row(r), T)
        BY <1>7, <2>1, <2>3, <3>1 DEF SumStep
      <3>3. PICK h, R, Q : h = m[x] /\ R = Row(r) /\ Q = Row(s)
        OBVIOUS
      <3>4. \A y \in T : h[y] \in Int /\ R[y] \in Int /\ Q[y] = h[y] + R[y]
        BY <1>1, <3>2, <3>3
      <3>5. Totalled(h, T) \in Int /\ Totalled(R, T) \in Int /\ Totalled(Q, T) = Totalled(h, T) + Totalled(R, T)
        BY ONLY <3>4, IsFiniteSet(T), TotalSum
      <3>6. f[x] = Totalled(h, T)
        BY <1>1, <3>2, <3>3
      <3>7. F[s] = Totalled(Q, T) /\ F[s] \in Int
        BY <3>2, <3>3, <3>5, <3>6
      <3>8. \A y \in T : D[y][s] \in Int
        BY <1>1, <3>2
      <3> QED
        BY <3>3, <3>7, <3>8
    <2> QED
      BY <2>2, <2>3
  <1>8. \A s \in SUBSET S : s \in P
    <2> HIDE DEF P
    <2> QED
      BY <1>7, SizeInd
  <1>9. F[S] \in Int /\ F[S] = Totalled(Row(S), T) /\ \A y \in T : D[y][S] \in Int
    BY <1>8
  <1>10. Totalled(Row(S), T) = Totalled(g, T)
    <2>1. PICK R : R = Row(S)
      OBVIOUS
    <2>2. \A y \in T : R[y] \in Int /\ g[y] = R[y]
      BY <1>1, <1>6, <1>9, <2>1
    <2>3. Totalled(g, T) = Totalled(R, T)
      BY <2>2, TotalSame
    <2> QED
      BY <2>1, <2>3
  <1> QED
    BY <1>3, <1>9, <1>10

\* The lesser of two numbers.
Lesser(a, b) == IF a <= b THEN a ELSE b
\* The greatest of a set up to a number, 0 if it has none.
Reached(T, n) == Max({0} \cup {l \in T : l <= n})

\* How far a set of numbers reaches.
LEMMA ReachedIs ==
  ASSUME NEW T, T \subseteq Nat, NEW n \in Nat
  PROVE  /\ Reached(T, n) \in Nat /\ Reached(T, n) <= n /\ Reached(T, n) \in {0} \cup T
         /\ \A l \in T : l <= n => l <= Reached(T, n)
  <1>1. PICK U : U = {0} \cup {l \in T : l <= n}
    OBVIOUS
  <1>2. U \subseteq Nat /\ U # {} /\ \A x \in U : x <= n
    <2>1. \A x \in U : x = 0 \/ x \in T
      BY <1>1
    <2>2. 0 \in U
      BY <1>1
    <2>3. \A x \in T : x \in Nat
      OBVIOUS
    <2>4. ASSUME NEW x \in U PROVE x \in Nat
      <3>1. CASE x = 0
        BY <3>1
      <3>2. CASE x \in T
        BY <2>3, <3>2
      <3> QED
        BY <2>1, <3>1, <3>2
    <2>5. U \subseteq Nat /\ 0 \in U
      BY <2>2, <2>4
    <2>6. \A x \in U : x <= n
      BY <1>1
    <2> QED
      BY <2>5, <2>6
  <1>3. Max(U) \in U /\ \A x \in U : x <= Max(U)
    BY <1>2, NatMax
  <1> QED
    BY <1>1, <1>2, <1>3 DEF Reached

\* What each layer takes of a stake of s.
Sliced(slice, s, T) == \A l \in T : slice[l] = Max({0, Min({s, l}) - Max({0} \cup {k \in T : k < l})})
\* What the layers up to n take.
UpTo(f, slice, n, T) == \A l \in T : f[l] = IF l <= n THEN slice[l] ELSE 0

\* The layers that a stake of s reaches, from the ground up to n, hold as much of it as there is.
LEMMA Telescope ==
  ASSUME NEW T, T \subseteq Nat \ {0}, IsFiniteSet(T), NEW s \in Nat, NEW slice, Sliced(slice, s, T),
         NEW n \in Nat, NEW f, UpTo(f, slice, n, T)
  PROVE  /\ \A l \in T : slice[l] \in Nat
         /\ Totalled(f, T) = Lesser(s, Reached(T, n))
  <1>1. \A k \in Nat : /\ Reached(T, k) \in Nat /\ Reached(T, k) <= k /\ Reached(T, k) \in {0} \cup T
                       /\ \A l \in T : l <= k => l <= Reached(T, k)
    BY ReachedIs
  <1>2. ASSUME NEW k \in Nat, k + 1 \in T
        PROVE  slice[k + 1] = Lesser(s, k + 1) - Lesser(s, Reached(T, k)) /\ Reached(T, k + 1) = k + 1
               /\ slice[k + 1] \in Nat
    <2>1. {0} \cup {x \in T : x < k + 1} = {0} \cup {l \in T : l <= k}
      <3>1. \A x \in T : x < k + 1 <=> x <= k
        OBVIOUS
      <3> QED
        BY <3>1
    <2>2. PICK b \in Nat : b = Reached(T, k) /\ b <= k
      BY <1>1
    <2>3. Max({0} \cup {x \in T : x < k + 1}) = b
      BY <2>1, <2>2 DEF Reached
    <2>4. PICK m \in Int : m = Min({s, k + 1}) /\ m = Lesser(s, k + 1)
      <3>1. k + 1 \in Int /\ s \in Int
        OBVIOUS
      <3>2. Min({s, k + 1}) = Lesser(s, k + 1)
        BY ONLY <3>1, MinOf DEF Lesser
      <3> QED
        BY <3>2 DEF Lesser
    <2>5. slice[k + 1] = Max({0, m - b})
      BY <1>2, <2>3, <2>4 DEF Sliced
    <2>6. Max({0, m - b}) = IF 0 >= m - b THEN 0 ELSE m - b
      <3>1. m - b \in Int
        OBVIOUS
      <3> QED
        BY ONLY <3>1, MaxOf
    <2>7. slice[k + 1] = Lesser(s, k + 1) - Lesser(s, b)
      BY ONLY <2>2, <2>4, <2>5, <2>6, s \in Nat, k \in Nat DEF Lesser
    <2>8. Reached(T, k + 1) = k + 1
      <3>1. k + 1 \in Nat
        OBVIOUS
      <3>2. PICK r : r = Reached(T, k + 1)
        OBVIOUS
      <3>3. r \in Nat /\ r <= k + 1 /\ k + 1 <= r
        BY <1>1, <1>2, <3>1, <3>2
      <3> QED
        BY <3>2, <3>3
    <2>9. slice[k + 1] \in Nat
      BY ONLY <2>5, <2>6, m \in Int, b \in Nat
    <2> QED
      BY <2>2, <2>7, <2>8, <2>9
  <1>3. \A l \in T : slice[l] \in Nat
    <2> TAKE l \in T
    <2>1. PICK k \in Nat : l = k + 1
      <3>1. l - 1 \in Nat /\ l = (l - 1) + 1
        OBVIOUS
      <3> QED
        BY <3>1
    <2> QED
      BY <1>2, <2>1
  <1> DEFINE Part(k) == [l \in T |-> IF l <= k THEN slice[l] ELSE 0]
             P == {k \in Nat : Totalled(Part(k), T) = Lesser(s, Reached(T, k))}
  <1>4. 0 \in P
    <2>1. \A l \in T : Part(0)[l] = 0
      OBVIOUS
    <2>2. Totalled(Part(0), T) = 0
      <3> HIDE DEF Part
      <3> QED
        BY <2>1, TotalZero
    <2>3. Reached(T, 0) = 0
      <3>1. Reached(T, 0) \in Nat /\ Reached(T, 0) <= 0
        BY <1>1
      <3> QED
        BY <3>1
    <2> QED
      BY <2>2, <2>3 DEF Lesser
  <1>5. ASSUME NEW k \in Nat, k \in P PROVE k + 1 \in P
    <2>1. PICK A, B : A = Part(k) /\ B = Part(k + 1)
      OBVIOUS
    <2>2. \A l \in T : A[l] \in Int
      BY <1>3, <2>1
    <2>3. Totalled(A, T) = Lesser(s, Reached(T, k))
      BY <1>5, <2>1
    <2>4. CASE k + 1 \in T
      <3>1. PICK d \in Nat : d = slice[k + 1]
        BY <1>2, <2>4
      <3>2. \A l \in T : B[l] = IF l = k + 1 THEN A[l] + d ELSE A[l]
        BY <1>3, <2>1, <2>4, <3>1
      <3>3. PICK p : p = k + 1
        OBVIOUS
      <3>4. p \in T /\ \A l \in T : A[l] \in Int /\ B[l] = IF l = p THEN A[l] + d ELSE A[l]
        BY <2>2, <2>4, <3>2, <3>3
      <3>5. Totalled(B, T) = Totalled(A, T) + d /\ Totalled(A, T) \in Int
        BY ONLY <3>4, IsFiniteSet(T), d \in Nat, TotalChange
      <3>6. d = Lesser(s, k + 1) - Lesser(s, Reached(T, k)) /\ Reached(T, k + 1) = k + 1
        BY <1>2, <2>4, <3>1
      <3>7. Totalled(B, T) = Lesser(s, Reached(T, k + 1))
        <4>1. Reached(T, k) \in Nat
          BY <1>1
        <4>2. PICK u \in Int, v \in Int : u = Lesser(s, Reached(T, k)) /\ v = Lesser(s, k + 1)
          BY <4>1 DEF Lesser
        <4> QED
          BY <2>3, <3>5, <3>6, <4>2
      <3> QED
        BY <2>1, <3>7
    <2>5. CASE k + 1 \notin T
      <3>1. \A l \in T : l <= k <=> l <= k + 1
        BY <2>5
      <3>2. B = A
        BY <2>1, <3>1
      <3>3. {l \in T : l <= k + 1} = {l \in T : l <= k}
        BY <3>1
      <3>4. Reached(T, k + 1) = Reached(T, k)
        BY <3>3 DEF Reached
      <3>5. Totalled(Part(k + 1), T) = Lesser(s, Reached(T, k + 1))
        BY ONLY <2>1, <2>3, <3>2, <3>4
      <3> QED
        BY <3>5
    <2> QED
      BY <2>4, <2>5
  <1>6. \A k \in Nat : k \in P
    <2> HIDE DEF P
    <2> QED
      BY <1>4, <1>5, NatInd
  <1>7. Totalled(f, T) = Totalled(Part(n), T)
    <2>1. PICK A : A = Part(n)
      OBVIOUS
    <2>2. \A l \in T : A[l] \in Int /\ f[l] = A[l]
      BY <1>3, <2>1 DEF UpTo
    <2>3. Totalled(f, T) = Totalled(A, T)
      BY <2>2, TotalSame
    <2> QED
      BY <2>1, <2>3
  <1>8. Totalled(Part(n), T) = Lesser(s, Reached(T, n))
    BY <1>6
  <1> QED
    BY <1>3, <1>7, <1>8

\* The shares of a layer are the layer: the odd cents go to as many winners as there are odd cents.
LEMMA SplitSum ==
  ASSUME NEW W \in SUBSET Seats, W # {}, NEW share \in Nat,
         NEW f, \A p \in Seats : f[p] = WonOf(share, W, p)
  PROVE  /\ \A p \in Seats : f[p] \in Nat /\ (p \notin W => f[p] = 0)
         /\ Totalled(f, Seats) = share
  <1>1. IsFiniteSet(Seats) /\ IsFiniteSet(W) /\ \A p \in Seats : p \in Int
    BY SeatNumbers, FS_Subset
  <1>2. PICK n \in Nat : n = Cardinality(W) /\ n > 0
    <2>1. Cardinality(W) \in Nat /\ Cardinality(W) # 0
      BY <1>1, FS_CardinalityType, FS_EmptySet
    <2> QED
      BY <2>1
  <1>3. PICK d \in Nat, r \in Nat : d = share \div n /\ r = share % n /\ r < n /\ share = d * n + r
    <2>1. share \div n \in Nat /\ share % n \in Nat /\ share % n < n /\ share = (share \div n) * n + (share % n)
      BY <1>2
    <2> QED
      BY <2>1
  <1> DEFINE Under(p) == {q \in W : q < p}
  <1>4. ASSUME NEW p \in W PROVE /\ IsFiniteSet(Under(p)) /\ Cardinality(Under(p)) \in Nat /\ Cardinality(Under(p)) < n
    <2>1. Under(p) \in SUBSET W /\ p \notin Under(p) /\ p \in W
      BY <1>1
    <2> HIDE DEF Under
    <2>2. IsFiniteSet(Under(p)) /\ Cardinality(Under(p)) <= n /\ Cardinality(Under(p)) # n
      BY <1>1, <1>2, <2>1, FS_Subset
    <2>3. Cardinality(Under(p)) \in Nat
      BY <2>2, FS_CardinalityType
    <2> QED
      BY <2>2, <2>3
  <1>5. ASSUME NEW p \in W, NEW q \in W, p < q PROVE Cardinality(Under(p)) < Cardinality(Under(q))
    <2>1. Under(p) \in SUBSET Under(q) /\ p \notin Under(p) /\ p \in Under(q)
      BY <1>1, <1>5
    <2> HIDE DEF Under
    <2>2. Cardinality(Under(p)) <= Cardinality(Under(q)) /\ Cardinality(Under(p)) # Cardinality(Under(q))
      BY <1>4, <2>1, FS_Subset
    <2> QED
      BY <1>4, <2>2
  <1>6. PICK rank : rank = [p \in W |-> Cardinality(Under(p))]
    OBVIOUS
  <1>7. rank \in Injection(W, 0 .. n - 1)
    <2> HIDE DEF Under
    <2>1. rank \in [W -> 0 .. n - 1]
      BY <1>4, <1>6
    <2>2. ASSUME NEW p \in W, NEW q \in W, rank[p] = rank[q] PROVE p = q
      <3>1. p \in Int /\ q \in Int /\ Cardinality(Under(p)) = Cardinality(Under(q)) /\ Cardinality(Under(p)) \in Nat
        BY <1>1, <1>4, <1>6, <2>2
      <3>2. ~(p < q) /\ ~(q < p)
        BY <1>5, <3>1
      <3> QED
        BY <3>1, <3>2
    <2> QED
      BY <2>1, <2>2 DEF Injection, IsInjective
  <1>8. rank \in Surjection(W, 0 .. n - 1)
    <2>1. IsFiniteSet(0 .. n - 1) /\ Cardinality(0 .. n - 1) = n
      <3>1. 0 \in Int /\ n - 1 \in Int
        OBVIOUS
      <3>2. IsFiniteSet(0 .. n - 1) /\ Cardinality(0 .. n - 1) = IF 0 > n - 1 THEN 0 ELSE (n - 1) - 0 + 1
        BY ONLY <3>1, FS_Interval
      <3> QED
        BY <1>2, <3>2
    <2> QED
      BY <1>2, <1>7, <2>1, FS_Injection
  <1>9. PICK V : V = {p \in W : rank[p] < r}
    OBVIOUS
  <1>10. Cardinality(V) = r
    <2>1. IsFiniteSet(V)
      BY <1>1, <1>9, FS_Subset
    <2>2. PICK o : o = [p \in V |-> rank[p]]
      OBVIOUS
    <2>3. o \in [V -> 0 .. r - 1]
      BY <1>3, <1>7, <1>9, <2>2 DEF Injection
    <2>4. o \in Injection(V, 0 .. r - 1)
      BY <1>7, <1>9, <2>2, <2>3 DEF Injection, IsInjective
    <2>5. o \in Surjection(V, 0 .. r - 1)
      <3>1. ASSUME NEW i \in 0 .. r - 1 PROVE \E p \in V : o[p] = i
        <4>1. i \in 0 .. n - 1 /\ i < r
          BY <1>3
        <4>2. PICK p \in W : rank[p] = i
          BY <1>8, <4>1 DEF Surjection
        <4> QED
          BY <1>9, <2>2, <4>1, <4>2
      <3> QED
        BY <2>3, <3>1 DEF Surjection
    <2>6. Cardinality(0 .. r - 1) = Cardinality(V)
      BY <2>1, <2>4, <2>5, FS_Surjection
    <2>7. Cardinality(0 .. r - 1) = r
      <3>1. 0 \in Int /\ r - 1 \in Int
        OBVIOUS
      <3>2. Cardinality(0 .. r - 1) = IF 0 > r - 1 THEN 0 ELSE (r - 1) - 0 + 1
        BY ONLY <3>1, FS_Interval
      <3> QED
        BY <3>2
    <2> QED
      BY <2>6, <2>7
  <1>11. PICK one, even, odd : /\ one = [p \in Seats |-> IF p \in W THEN 1 ELSE 0]
                               /\ even = [p \in Seats |-> d * one[p]]
                               /\ odd = [p \in Seats |-> IF p \in V THEN 1 ELSE 0]
    OBVIOUS
  <1>12. \A p \in Seats : /\ one[p] = IF p \in W THEN 1 ELSE 0
                          /\ even[p] = IF p \in W THEN d ELSE 0
                          /\ odd[p] = IF p \in V THEN 1 ELSE 0
    BY <1>11
  <1>13. ASSUME NEW p \in Seats PROVE f[p] = even[p] + odd[p] /\ f[p] \in Nat /\ (p \notin W => f[p] = 0)
    <2>1. CASE p \in W
      <3>1. f[p] = SplitAmount(share, W, p)
        BY <2>1 DEF WonOf
      <3>2. SplitAmount(share, W, p) = d + (IF rank[p] < r THEN 1 ELSE 0)
        BY <1>2, <1>3, <1>6, <2>1 DEF SplitAmount
      <3>3. p \in V <=> rank[p] < r
        BY <1>9, <2>1
      <3> QED
        BY <1>12, <2>1, <3>1, <3>2, <3>3
    <2>2. CASE p \notin W
      <3>1. f[p] = 0 /\ p \notin V
        BY <1>9, <2>2 DEF WonOf
      <3> QED
        BY <1>12, <2>2, <3>1
    <2> QED
      BY <2>1, <2>2
  <1>14. Totalled(one, Seats) = n
    BY <1>1, <1>2, <1>12, TotalMembers
  <1>15. Totalled(even, Seats) = d * n
    <2>1. \A p \in Seats : one[p] \in Int /\ even[p] = d * one[p]
      BY <1>11
    <2>2. Totalled(even, Seats) = d * Totalled(one, Seats)
      BY <1>1, <2>1, TotalTimes
    <2> QED
      BY <1>14, <2>2
  <1>16. Totalled(odd, Seats) = r
    <2>1. V \in SUBSET Seats
      BY <1>9
    <2> QED
      BY <1>1, <1>10, <1>12, <2>1, TotalMembers
  <1>17. Totalled(f, Seats) = Totalled(even, Seats) + Totalled(odd, Seats)
    <2>1. \A p \in Seats : even[p] \in Int /\ odd[p] \in Int /\ f[p] = even[p] + odd[p]
      BY <1>12, <1>13
    <2> QED
      BY <1>1, <2>1, TotalSum
  <1> QED
    BY <1>3, <1>13, <1>15, <1>16, <1>17

-----------------------------------------------------------------------------
(* The inductive invariant, and the forced bets. *)

\* Somebody has put in chips.
Staked(e) == \E p \in e.players : e.total[p] > 0
\* A closed street has left chips behind, or there is a bet on this one.
StreetStaked(e) == e.currentBet > 0 \/ \E p \in e.players : BehindOf(e, p) > 0

\* At most one live player has put in more than the bet: a small blind above the big one.
OneOver(e) == \A p, q \in Live(e) : p # q => e.committed[p] <= e.currentBet \/ e.committed[q] <= e.currentBet
\* The blinds are set up as they usually are.
Tame == SmallBlind <= BigBlind
\* Then nobody has put in more than the bet.
UnderBet(e) == \A p \in e.players : e.committed[p] <= e.currentBet

\* The blinds and straddles: nobody has acted.
Blinded(e) ==
  /\ e.street = Preflop /\ e.acted = {} /\ ~e.done /\ e.minRaise >= BigBlind /\ e.currentBet > 0
  /\ e.winners2 = Undecided
  /\ \A p \in Seats : e.committed[p] = e.total[p]
  /\ OneOver(e)
  /\ Tame => UnderBet(e)

\* Whoever has put in chips on this street, or may still, has as many behind as anybody who
\* was dealt in.
BehindAll(e) == \A p \in e.players : e.committed[p] > 0 \/ p \in CanAct(e) =>
                  \A q \in e.players : BehindOf(e, p) >= BehindOf(e, q)
\* Nobody who is live has more behind than everybody else.
Rivalled(e) == \A p \in Live(e) : \E q \in e.players \ {p} : BehindOf(e, q) >= BehindOf(e, p)

\* The chips of a live player that nobody matched over the whole hand.
Unmatched(e) ==
  LET most == Max({e.total[p] : p \in e.players})
      top == {p \in e.players : e.total[p] = most}
      w == CHOOSE p \in top : TRUE
      others == Max({e.total[p] : p \in e.players \ {w}})
  IN IF Cardinality(top) = 1 /\ w \in Live(e) THEN most - others ELSE 0
\* The final pot of the summary is what was contested.
Summed(e) == FinalPot(e) = e.pot - Unmatched(e)

\* A betting round: who may still put in chips has as many behind as any live player, and
\* who has acted has not less in front than the bet.
RoundCore(e) ==
  /\ e.minRaise >= BigBlind
  /\ \A p, q \in Live(e) : p \notin e.allIn \/ e.committed[p] > 0 => BehindOf(e, p) >= BehindOf(e, q)
  /\ OneOver(e)
  /\ \A p \in CanAct(e) : p \in e.acted => e.committed[p] >= e.currentBet
  /\ Staked(e) /\ StreetStaked(e) /\ Rivalled(e)
  /\ Tame => UnderBet(e)
\* With the usual blinds, what the summary of the hand rests on as well.
Round(e) == RoundCore(e) /\ (Tame => IF e.done THEN Summed(e) ELSE BehindAll(e))

\* The hand is over, waits for somebody who can act, or has nobody who can.
Waits(e) == \/ e.done
            \/ e.toAct \in CanAct(e)
            \/ e.toAct = NoOne /\ CanAct(e) = {} /\ e.street = Preflop /\ e.acted = {}
\* The engine of a hand at table t.
EngineInv(e, t) == e \in EngineType /\ Chips(e, t) /\ Round(e) /\ Waits(e)

\* A round that is still in work stays one when nobody's chips change, whoever has acted or folded.
LEMMA RoundAlike ==
  ASSUME NEW e, NEW f, Round(e), ~e.done, ~f.done,
         f.players = e.players, f.total = e.total, f.committed = e.committed,
         f.currentBet = e.currentBet, f.minRaise = e.minRaise, f.allIn = e.allIn,
         Live(f) \subseteq Live(e), \A p \in CanAct(f) : p \in f.acted => f.committed[p] >= f.currentBet
  PROVE  Round(f)
  <1>1. CanAct(f) \subseteq CanAct(e)
    BY DEF CanAct
  <1>2. \A p : BehindOf(f, p) = BehindOf(e, p)
    BY DEF BehindOf
  <1>3. Staked(f) /\ StreetStaked(f)
    BY <1>2 DEF Round, RoundCore, Staked, StreetStaked
  <1>4. Rivalled(f)
    BY <1>2 DEF Round, RoundCore, Rivalled
  <1>5. Tame => UnderBet(f) /\ BehindAll(f)
    BY <1>1, <1>2 DEF Round, RoundCore, UnderBet, BehindAll
  <1>6. OneOver(f)
    BY DEF Round, RoundCore, OneOver
  <1>7. \A p, q \in Live(f) : p \notin f.allIn \/ f.committed[p] > 0 => BehindOf(f, p) >= BehindOf(f, q)
    BY <1>2 DEF Round, RoundCore
  <1> QED
    BY <1>3, <1>4, <1>5, <1>6, <1>7 DEF Round, RoundCore

\* Live players, and those who can act, are seats.
LEMMA LiveIn == ASSUME NEW e \in EngineType PROVE Live(e) \in SUBSET Seats /\ CanAct(e) \in SUBSET Seats /\ Live(e) \subseteq e.players /\ e.players \in SUBSET Seats
  BY DEF EngineType, Live, CanAct

\* The button and the blinds of a table are dealt in, and everybody sits down with chips.
LEMMA TableFits ==
  ASSUME NEW t \in TableType
  PROVE  /\ t.active \in SUBSET Seats /\ t.active # {} /\ t.button \in t.active /\ t.stack \in [Seats -> Nat]
         /\ t.ante \in Nat /\ t.utg \in Nat /\ t.straddles \in Seq(Straddle) /\ t.boards \in 1 .. 2
         /\ ButtonOf(t) \in t.active /\ SmallBlindOf(t) \in t.active /\ BigBlindOf(t) \in t.active
         /\ \A p \in t.active : t.stack[p] > 0
  <1>1. /\ t.active \in SUBSET Seats /\ t.button \in t.active /\ t.stack \in [Seats -> Nat]
        /\ t.ante \in Nat /\ t.utg \in Nat /\ t.straddles \in Seq(Straddle) /\ t.boards \in 1 .. 2
        /\ \A p \in t.active : t.stack[p] > 0
    BY DEF TableType, Straddle
  <1>2. ButtonOf(t) \in t.active
    BY <1>1 DEF ButtonOf
  <1>3. \A p \in t.active : Clockwise(t.active, p) \in t.active
    BY <1>1, ClockwiseIn
  <1> QED
    BY <1>1, <1>2, <1>3 DEF SmallBlindOf, BigBlindOf

\* Walking clockwise one comes to somebody else, if there is one: the blinds are two players.
LEMMA ClockwiseOther ==
  ASSUME NEW S \in SUBSET Seats, NEW from \in S, NEW x \in S, x # from
  PROVE  Clockwise(S, from) # from
  <1>1. NumSeats \in Nat /\ NumSeats > 1 /\ from \in 0 .. NumSeats - 1 /\ x \in 0 .. NumSeats - 1
    BY SeatNumbers DEF Seats
  <1>2. \A a \in 0 .. NumSeats - 1 : a % NumSeats = a
    BY <1>1
  <1>3. \A a \in 0 .. NumSeats - 1 : (a + NumSeats) % NumSeats = a
    BY <1>1
  <1>4. (from + NumSeats - from - 1) % NumSeats = NumSeats - 1
    <2>1. from + NumSeats - from - 1 = NumSeats - 1 /\ NumSeats - 1 \in 0 .. NumSeats - 1
      BY <1>1
    <2> QED
      BY <1>2, <2>1
  <1>5. (x + NumSeats - from - 1) % NumSeats < NumSeats - 1
    <2>1. CASE x > from
      <3>1. PICK a \in 0 .. NumSeats - 1 : a = x - from - 1 /\ a < NumSeats - 1
        BY <1>1, <2>1
      <3>2. x + NumSeats - from - 1 = a + NumSeats
        BY <1>1, <3>1
      <3> QED
        BY <1>3, <3>1, <3>2
    <2>2. CASE x < from
      <3>1. PICK a \in 0 .. NumSeats - 1 : a = x + NumSeats - from - 1 /\ a < NumSeats - 1
        BY <1>1, <2>2
      <3> QED
        BY <1>2, <3>1
    <2> QED
      BY <1>1, <2>1, <2>2
  <1>6. PICK c : c = Clockwise(S, from)
    OBVIOUS
  <1>7. \A q \in S : (c + NumSeats - from - 1) % NumSeats <= (q + NumSeats - from - 1) % NumSeats
    <2> DEFINE d(s) == (s + NumSeats - from - 1) % NumSeats
               T == {d(s) : s \in S}
    <2>1. \A s \in Seats : d(s) \in Nat
      BY SeatNumbers
    <2>2. T \subseteq Nat /\ T # {}
      BY <2>1
    <2>3. PICK m \in T : \A y \in T : m <= y
      <3> HIDE DEF T
      <3> QED
        BY <2>2, NatMin
    <2>4. \E s \in S : \A y \in S : d(s) <= d(y)
      BY <2>3
    <2> QED
      BY <1>6, <2>4 DEF Clockwise
  <1> QED
    BY <1>1, <1>4, <1>5, <1>6, <1>7

\* The player after the small blind posts the big one, and is somebody else.
LEMMA TwoBlinds ==
  ASSUME NEW t \in TableType
  PROVE  /\ SmallBlindOf(t) # BigBlindOf(t)
         /\ \A p \in t.active : \E q \in t.active : q # p
  <1>1. t.active \in SUBSET Seats /\ Cardinality(t.active) >= 2
    BY DEF TableType
  <1>2. \A p \in t.active : \E q \in t.active : q # p
    <2> TAKE p \in t.active
    <2> SUFFICES ASSUME \A q \in t.active : q = p PROVE FALSE
      OBVIOUS
    <2>1. t.active = {p}
      OBVIOUS
    <2>2. Cardinality(t.active) = 1
      BY <2>1, FS_Singleton
    <2> QED
      BY <1>1, <2>2
  <1>3. BigBlindOf(t) = Clockwise(t.active, SmallBlindOf(t)) /\ SmallBlindOf(t) \in t.active
    BY TableFits DEF BigBlindOf, SmallBlindOf
  <1> QED
    BY <1>1, <1>2, <1>3, ClockwiseOther

\* At most three straddles.
LEMMA StraddlesFit ==
  ASSUME NEW t \in TableType
  PROVE  StraddlesOf(t) \in Seq(Straddle)
  <1>1. PICK utg : utg = Clockwise(t.active, BigBlindOf(t))
    OBVIOUS
  <1>2. utg \in Seats
    BY <1>1, TableFits, ClockwiseIn
  <1>3. PICK all : all = IF t.utg = 0 THEN t.straddles
                         ELSE <<[seat |-> utg, amount |-> t.utg]>> \o PinnedElsewhere(t.straddles, utg)
    OBVIOUS
  <1>4. all \in Seq(Straddle)
    <2>1. t.straddles \in Seq(Straddle) /\ PinnedElsewhere(t.straddles, utg) \in Seq(Straddle)
      BY TableFits, PinnedElsewhereFits
    <2>2. [seat |-> utg, amount |-> t.utg] \in Straddle
      BY <1>2, TableFits DEF Straddle
    <2>3. <<[seat |-> utg, amount |-> t.utg]>> \in Seq(Straddle)
      BY <2>2
    <2> QED
      BY <1>3, <2>1, <2>3
  <1>5. PICK m : m = Min({3, Len(all)})
    OBVIOUS
  <1>6. m \in 0 .. Len(all)
    <2>1. Len(all) \in Nat
      BY <1>4
    <2>2. m = IF 3 <= Len(all) THEN 3 ELSE Len(all)
      BY <1>5, <2>1, MinOf
    <2> QED
      BY <2>1, <2>2
  <1>7. SubSeq(all, 1, m) \in Seq(Straddle)
    BY <1>4, <1>6, SubSeqProperties
  <1> QED
    BY <1>1, <1>3, <1>5, <1>7 DEF StraddlesOf

\* A blind or a straddle is posted.
LEMMA PostFits ==
  ASSUME NEW t \in TableType, NEW e \in EngineType, Chips(e, t), Blinded(e),
         NEW p \in e.players, NEW amount \in Nat, NEW f, f = Put(e, p, amount)
  PROVE  /\ f \in EngineType /\ Chips(f, t) /\ PutIn(e, f, p, IF amount <= e.stack[p] THEN amount ELSE e.stack[p])
         /\ \A q \in Seats : f.committed[q] = f.total[q]
         /\ f.committed[p] <= e.committed[p] + amount
         /\ Live(f) = Live(e)
  <1>1. p \in Seats /\ e.stack[p] \in Nat /\ \A q \in Seats : e.committed[q] \in Nat
    BY DEF EngineType
  <1>2. f \in EngineType /\ Chips(f, t) /\ PutIn(e, f, p, IF amount <= e.stack[p] THEN amount ELSE e.stack[p])
    <2>1. amount \in Int /\ amount + e.committed[p] >= 0 /\ amount >= 0
      BY <1>1
    <2> QED
      BY <2>1, PutFits
  <1>3. PICK put \in Nat : put = (IF amount <= e.stack[p] THEN amount ELSE e.stack[p]) /\ put <= amount
    BY <1>1
  <1>4. PutIn(e, f, p, put)
    BY <1>2, <1>3
  <1>5. Live(f) = Live(e)
    BY <1>4 DEF PutIn, Live
  <1> QED
    BY <1>1, <1>2, <1>3, <1>4, <1>5 DEF PutIn, Blinded

\* Nothing is posted.
LEMMA EmptyFits ==
  ASSUME NEW t \in TableType
  PROVE  EmptyEngine(t) \in EngineType /\ Chips(EmptyEngine(t), t) /\ Blinded(EmptyEngine(t))
  <1>1. PICK e : e = EmptyEngine(t)
    OBVIOUS
  <1>2. e \in EngineType
    <2>1. PICK C, F : C = [p \in Seats |-> 0] /\ F = [p \in Seats |-> NotFolded]
      OBVIOUS
    <2>2. C \in [Seats -> Nat] /\ F \in [Seats -> NotFolded .. River]
      BY <2>1 DEF NotFolded, River
    <2>3. /\ t.active \in SUBSET Seats /\ ButtonOf(t) \in Seats /\ t.ante \in Nat /\ t.ante \in Int
          /\ t.boards \in 1 .. 2 /\ t.stack \in [Seats -> Nat] /\ BigBlind \in Nat
      BY TableFits, SeatNumbers
    <2>4. e = [players |-> t.active, button |-> ButtonOf(t), ante |-> t.ante, boards |-> t.boards,
               stack |-> t.stack, committed |-> C, total |-> C, foldedStreet |-> F, allIn |-> {}, acted |-> {},
               street |-> Preflop, allInStreet |-> NoStreet, currentBet |-> BigBlind,
               minRaise |-> BigBlind, toAct |-> NoOne, pot |-> t.ante, done |-> FALSE,
               winners |-> Undecided, winners2 |-> Undecided]
      BY <1>1, <2>1 DEF EmptyEngine
    <2>5. /\ Preflop \in Preflop .. River /\ NoStreet \in NoStreet .. River
          /\ Undecided \in SUBSET Seats /\ NoOne \in Seats \cup {NoOne}
      BY DEF Preflop, River, NoStreet, Undecided
    <2> QED
      BY ONLY <2>2, <2>3, <2>4, <2>5 DEF EngineType
  <1>3. /\ e.players = t.active /\ e.ante = t.ante /\ e.boards = t.boards /\ e.stack = t.stack
        /\ e.committed = [p \in Seats |-> 0] /\ e.total = [p \in Seats |-> 0] /\ e.pot = t.ante
        /\ e.allIn = {} /\ e.winners = {} /\ e.winners2 = {} /\ e.street = Preflop /\ e.acted = {} /\ ~e.done
        /\ e.minRaise = BigBlind /\ e.currentBet = BigBlind
    BY <1>1 DEF EmptyEngine, Undecided
  <1>4. Totalled(e.total, e.players) = 0
    <2>1. IsFiniteSet(e.players) /\ e.players \subseteq Seats
      BY <1>3, TableFits, SeatNumbers, FS_Subset
    <2>2. \A x \in e.players : e.total[x] = 0
      BY <1>3, <2>1
    <2> QED
      BY <2>1, <2>2, TotalZero
  <1>5. Chips(e, t)
    BY <1>3, <1>4, TableFits DEF Chips
  <1>6. Blinded(e)
    <2>1. \A p \in Seats : e.committed[p] = 0 /\ e.total[p] = 0
      BY <1>3
    <2>2. OneOver(e) /\ UnderBet(e)
      BY <1>2, <1>3, <2>1, SeatNumbers, LiveIn DEF OneOver, UnderBet
    <2> QED
      BY <1>3, <2>1, <2>2, SeatNumbers DEF Blinded, Undecided
  <1> QED
    BY <1>1, <1>2, <1>5, <1>6

\* What is posted, the level to top and the seat that posted last.
PostsOf(t) == {x \in [e : EngineType, level : Nat, from : Seats] :
                 Chips(x.e, t) /\ Blinded(x.e) /\ Staked(x.e)}

\* The two blinds: a small blind above the big one may be over the bet, nobody else.
LEMMA BlindsFit ==
  ASSUME NEW t \in TableType, NEW b,
         b = Put(Put(EmptyEngine(t), SmallBlindOf(t), SmallBlind), BigBlindOf(t), BigBlind)
  PROVE  b \in EngineType /\ Chips(b, t) /\ Blinded(b) /\ Staked(b)
  <1>1. PICK e, a, s, g : e = EmptyEngine(t) /\ s = SmallBlindOf(t) /\ g = BigBlindOf(t) /\ a = Put(e, s, SmallBlind)
    OBVIOUS
  <1>2. b = Put(a, g, BigBlind)
    BY <1>1
  <1>3. e \in EngineType /\ Chips(e, t) /\ Blinded(e)
    BY <1>1, EmptyFits
  <1>4. e.players = t.active /\ s \in t.active /\ g \in t.active /\ SmallBlind \in Nat /\ BigBlind \in Nat
    BY <1>1, <1>3, TableFits, SeatNumbers DEF Chips
  <1>5. s \in Seats /\ g \in Seats /\ s # g /\ e.stack[s] \in Nat /\ t.stack[g] > 0 /\ e.stack[g] = t.stack[g]
       /\ SmallBlind \in Nat /\ BigBlind \in Nat /\ BigBlind > 0
    <2>1. s \in Seats /\ g \in Seats /\ t.stack[g] > 0
      BY <1>4, TableFits
    <2>2. e.stack = t.stack
      BY <1>1 DEF EmptyEngine
    <2> QED
      BY <1>1, <2>1, <2>2, TwoBlinds, TableFits, SeatNumbers
  <1>6. /\ a \in EngineType /\ Chips(a, t) /\ PutIn(e, a, s, IF SmallBlind <= e.stack[s] THEN SmallBlind ELSE e.stack[s])
        /\ \A q \in Seats : a.committed[q] = a.total[q]
        /\ Live(a) = Live(e)
    BY <1>1, <1>3, <1>4, PostFits
  <1>7. e.currentBet = BigBlind /\ \A q \in Seats : e.committed[q] = 0
    BY <1>1 DEF EmptyEngine
  <1>8. /\ a.currentBet = BigBlind /\ \A q \in Seats : q # s => a.committed[q] = 0
        /\ a.street = Preflop /\ a.acted = {} /\ ~a.done /\ a.minRaise >= BigBlind /\ a.players = t.active
        /\ a.winners2 = Undecided
    BY <1>3, <1>4, <1>6, <1>7 DEF PutIn, Blinded
  <1>9. Blinded(a)
    <2>1. OneOver(a)
      BY <1>6, <1>8, LiveIn, SeatNumbers DEF OneOver
    <2>2. UnderBet(a) \/ ~Tame
      <3>1. a.committed[s] <= 0 + SmallBlind
        BY <1>5, <1>6, <1>7 DEF PutIn
      <3>2. \A q \in t.active : q \in Seats /\ a.committed[q] \in Nat
        BY <1>6, TableFits DEF EngineType
      <3>3. \A q \in t.active : Tame => a.committed[q] <= BigBlind
        BY <1>4, <1>8, <3>1, <3>2 DEF Tame
      <3> QED
        BY <1>8, <3>3 DEF UnderBet
    <2>3. a.currentBet > 0
      BY <1>8, SeatNumbers
    <2> QED
      BY <1>6, <1>8, <2>1, <2>2, <2>3 DEF Blinded
  <1>10. /\ b \in EngineType /\ Chips(b, t) /\ PutIn(a, b, g, IF BigBlind <= a.stack[g] THEN BigBlind ELSE a.stack[g])
         /\ \A q \in Seats : b.committed[q] = b.total[q]
         /\ Live(b) = Live(a) /\ b.committed[g] <= a.committed[g] + BigBlind
    <2>1. g \in a.players
      BY <1>4, <1>8
    <2> QED
      BY ONLY <1>2, <1>4, <1>6, <1>9, <2>1, PostFits, t \in TableType
  <1>11. /\ b.currentBet = BigBlind /\ \A q \in Seats : q # s => b.committed[q] <= BigBlind
         /\ b.street = Preflop /\ b.acted = {} /\ ~b.done /\ b.minRaise >= BigBlind /\ b.winners2 = Undecided
    <2>1. ASSUME NEW q \in Seats, q # s PROVE b.committed[q] <= BigBlind
      <3>1. a.committed[q] = 0
        BY <1>8, <2>1
      <3>2. CASE q = g
        BY <1>4, <1>10, <3>1, <3>2
      <3>3. CASE q # g
        BY <1>4, <1>10, <3>1, <3>3 DEF PutIn
      <3> QED
        BY <3>2, <3>3
    <2> QED
      BY <1>8, <1>10, <2>1 DEF PutIn
  <1>12. OneOver(b)
    BY <1>10, <1>11, LiveIn, SeatNumbers DEF OneOver
  <1>13. Staked(b)
    <2>1. a.stack[g] = e.stack[g] /\ a.stack[g] \in Nat /\ a.total[g] \in Nat
      BY <1>6, <1>5 DEF PutIn, EngineType
    <2>2. b.total[g] > 0
      BY <1>10, <1>5, <2>1 DEF PutIn
    <2> QED
      BY <1>4, <1>8, <1>10, <2>2 DEF Staked, PutIn
  <1>14. b.currentBet > 0 /\ b.players = t.active
    BY <1>8, <1>10, <1>11, SeatNumbers DEF PutIn
  <1>15. Tame => UnderBet(b)
    <2>1. b.committed[s] = a.committed[s] /\ s \in a.players
      BY <1>4, <1>8, <1>10, <1>5 DEF PutIn
    <2>2. Tame => b.committed[s] <= BigBlind
      BY <1>8, <1>9, <2>1 DEF Blinded, UnderBet
    <2>3. \A q \in t.active : q \in Seats
      BY TableFits
    <2> QED
      BY <1>11, <1>14, <2>2, <2>3 DEF UnderBet
  <1> QED
    BY <1>10, <1>11, <1>12, <1>13, <1>14, <1>15 DEF Blinded

\* The bet, the least raise, who has acted and who is to act are no chips.
Control(e, bet, raise, A, to) ==
  [e EXCEPT !.currentBet = bet, !.minRaise = raise, !.acted = A, !.toAct = to]
\* What of f is then e's.
Steered(e, f, bet, raise, A, to) ==
  /\ f.currentBet = bet /\ f.minRaise = raise /\ f.acted = A /\ f.toAct = to
  /\ f.players = e.players /\ f.button = e.button /\ f.stack = e.stack /\ f.committed = e.committed
  /\ f.total = e.total /\ f.foldedStreet = e.foldedStreet /\ f.allIn = e.allIn /\ f.street = e.street
  /\ f.done = e.done /\ f.pot = e.pot /\ f.ante = e.ante /\ f.boards = e.boards
  /\ f.winners = e.winners /\ f.winners2 = e.winners2
  /\ Live(f) = Live(e) /\ CanAct(f) = CanAct(e)

\* They may change, and chips, players and folds are what they were.
LEMMA ControlFits ==
  ASSUME NEW e, e \in EngineType, NEW t, Chips(e, t),
         NEW bet, bet \in Nat, NEW raise, raise \in Nat, NEW A, A \in SUBSET Seats, NEW to, to \in Seats \cup {NoOne}
  PROVE  /\ Control(e, bet, raise, A, to) \in EngineType
         /\ Chips(Control(e, bet, raise, A, to), t)
         /\ Steered(e, Control(e, bet, raise, A, to), bet, raise, A, to)
  <1>1. PICK f : f = Control(e, bet, raise, A, to)
    OBVIOUS
  <1>2. f \in EngineType
    BY <1>1 DEF Control, EngineType
  <1>3. /\ f.currentBet = bet /\ f.minRaise = raise /\ f.acted = A /\ f.toAct = to
        /\ f.players = e.players /\ f.button = e.button /\ f.stack = e.stack /\ f.committed = e.committed
        /\ f.total = e.total /\ f.foldedStreet = e.foldedStreet /\ f.allIn = e.allIn /\ f.street = e.street
        /\ f.done = e.done /\ f.pot = e.pot /\ f.ante = e.ante /\ f.boards = e.boards
        /\ f.winners = e.winners /\ f.winners2 = e.winners2
    BY <1>1 DEF Control, EngineType
  <1>4. Live(f) = Live(e) /\ CanAct(f) = CanAct(e)
    BY <1>3 DEF Live, CanAct
  <1>5. Chips(f, t)
    BY <1>3 DEF Chips
  <1>6. Steered(e, f, bet, raise, A, to)
    BY <1>3, <1>4 DEF Steered
  <1> QED
    BY <1>1, <1>2, <1>5, <1>6

\* One straddle more (the loop of buildEngine).
LEMMA StraddleFits ==
  ASSUME NEW t \in TableType, NEW x \in PostsOf(t), NEW s \in Straddle
  PROVE  PostStraddle(x, s) \in PostsOf(t)
  <1>1. PICK e, p, m : e = x.e /\ p = s.seat /\ m = s.amount
    OBVIOUS
  <1>2. /\ e \in EngineType /\ x.level \in Nat /\ Chips(e, t) /\ Blinded(e) /\ p \in Seats /\ m \in Nat
        /\ e.currentBet \in Nat /\ \A q \in Seats : e.committed[q] \in Nat
    BY <1>1 DEF PostsOf, Straddle, EngineType
  <1>3. CASE p \notin e.players
    BY <1>1, <1>3 DEF PostStraddle
  <1>4. CASE p \in e.players
    <2>1. PICK a \in Nat : a = Max({0, m - e.committed[p]}) /\ a = (IF 0 >= m - e.committed[p] THEN 0 ELSE m - e.committed[p])
      BY <1>2, MaxOf
    <2>2. PICK f : f = Put(e, p, a)
      OBVIOUS
    <2>3. /\ f \in EngineType /\ Chips(f, t) /\ PutIn(e, f, p, IF a <= e.stack[p] THEN a ELSE e.stack[p])
          /\ \A q \in Seats : f.committed[q] = f.total[q]
          /\ f.committed[p] <= e.committed[p] + a
          /\ Live(f) = Live(e)
      BY ONLY <1>2, <1>4, <2>2, PostFits, t \in TableType, a \in Nat
    <2>4. /\ f.currentBet = e.currentBet /\ f.street = Preflop /\ f.acted = {} /\ ~f.done /\ f.toAct = e.toAct
          /\ f.winners2 = Undecided
      BY <1>2, <2>3 DEF PutIn, Blinded
    <2>5. PICK bet \in Nat : bet = Max({f.currentBet, m}) /\ bet >= e.currentBet /\ bet >= m
      BY <1>2, <2>4, MaxOf
    <2>6. PICK raise \in Nat : raise = Max({BigBlind, bet - x.level}) /\ raise >= BigBlind
      <3>1. BigBlind \in Nat /\ bet - x.level \in Int
        BY <1>2, SeatNumbers
      <3> QED
        BY <3>1, MaxOf
    <2>7. PICK g : g = [f EXCEPT !.currentBet = bet, !.minRaise = raise]
      OBVIOUS
    <2>8. /\ g \in EngineType /\ Chips(g, t) /\ g.currentBet = bet /\ g.minRaise = raise
          /\ g.acted = {} /\ g.committed = f.committed /\ g.total = f.total /\ g.street = Preflop /\ ~g.done
          /\ Live(g) = Live(f) /\ g.winners2 = Undecided
      <3>1. g = Control(f, bet, raise, f.acted, f.toAct)
        BY <2>3, <2>7 DEF EngineType, Control
      <3>2. f.acted \in SUBSET Seats /\ f.toAct \in Seats \cup {NoOne}
        BY <2>3 DEF EngineType
      <3>3. PICK A, to : A = f.acted /\ to = f.toAct
        OBVIOUS
      <3>4. A \in SUBSET Seats /\ to \in Seats \cup {NoOne} /\ g = Control(f, bet, raise, A, to)
        BY <3>1, <3>2, <3>3
      <3>5. g \in EngineType /\ Chips(g, t) /\ Steered(f, g, bet, raise, A, to)
        BY ONLY <2>3, <3>4, ControlFits, bet \in Nat, raise \in Nat
      <3> QED
        BY <2>4, <3>3, <3>5 DEF Steered
    <2>9. OneOver(g)
      <3>1. \A q \in Seats : q # p => f.committed[q] = e.committed[q]
        BY <2>3 DEF PutIn
      <3>2. f.committed[p] > bet => f.committed[p] <= e.committed[p]
        <4>1. f.committed[p] \in Nat /\ e.committed[p] \in Nat /\ f.committed[p] <= e.committed[p] + a
          BY <1>2, <2>3 DEF EngineType
        <4>2. a = 0 \/ a = m - e.committed[p]
          BY <2>1
        <4> QED
          BY <1>2, <2>5, <4>1, <4>2
      <3>3. \A q \in Seats : g.committed[q] \in Nat
        BY <2>8 DEF EngineType
      <3>4. \A q \in Seats : g.committed[q] > bet => e.committed[q] > e.currentBet
        BY <1>2, <2>5, <2>8, <3>1, <3>2, <3>3
      <3> QED
        <4>1. OneOver(e) /\ Live(g) = Live(e) /\ g.currentBet = bet /\ Live(e) \in SUBSET Seats
          BY <1>2, <2>3, <2>8, LiveIn DEF Blinded
        <4>2. \A q \in Live(e) : ~(g.committed[q] <= bet) => ~(e.committed[q] <= e.currentBet)
          BY <1>2, <3>3, <3>4, <4>1
        <4> QED
          BY <4>1, <4>2 DEF OneOver
    <2>10. PostStraddle(x, s) = [e |-> g, level |-> bet, from |-> p]
      BY <1>1, <1>4, <2>1, <2>2, <2>5, <2>6, <2>7 DEF PostStraddle
    <2>11. g.currentBet > 0 /\ Staked(x.e)
      BY <1>1, <1>2, <2>5, <2>8 DEF PostsOf, Blinded
    <2>12. Tame => UnderBet(g)
      <3>1. g.players = e.players /\ e.players \in SUBSET Seats
        BY <1>2, <2>8, LiveIn DEF Chips
      <3>2. ASSUME Tame, NEW q \in e.players PROVE g.committed[q] <= bet
        <4>1. q \in Seats /\ e.committed[q] <= e.currentBet /\ g.committed[q] = f.committed[q]
          BY <1>2, <2>8, <3>1, <3>2 DEF Blinded, UnderBet
        <4>2. e.committed[q] \in Nat /\ g.committed[q] \in Nat
          BY <1>2, <2>8, <4>1 DEF EngineType
        <4>3. CASE q = p
          <5>1. f.committed[p] <= e.committed[p] + a /\ (a = 0 \/ a = m - e.committed[p])
            BY <1>2, <2>1, <2>3
          <5>2. f.committed[p] \in Nat /\ e.committed[p] \in Nat /\ e.committed[p] <= e.currentBet
            BY <4>1, <4>2, <4>3
          <5>3. f.committed[p] <= bet
            BY <1>2, <2>5, <5>1, <5>2
          <5> QED
            BY <4>1, <4>3, <5>3
        <4>4. CASE q # p
          BY <1>2, <2>3, <2>5, <4>1, <4>2, <4>4 DEF PutIn
        <4> QED
          BY <4>3, <4>4
      <3> QED
        BY <2>8, <3>1, <3>2 DEF UnderBet
    <2>13. Staked(g)
      <3>1. PICK q \in e.players : e.total[q] > 0
        BY <1>1, <2>11 DEF Staked
      <3>2. q \in Seats /\ e.total[q] \in Nat /\ e.total[p] \in Nat /\ e.stack[p] \in Nat
        BY <1>2, <3>1, LiveIn DEF EngineType
      <3>3. PICK put \in Nat : put = IF a <= e.stack[p] THEN a ELSE e.stack[p]
        BY <3>2
      <3>4. f.total[q] = (IF q = p THEN e.total[p] + put ELSE e.total[q]) /\ g.players = e.players
        BY <1>2, <2>3, <2>8, <3>2, <3>3 DEF PutIn, Chips
      <3>5. g.total[q] > 0
        BY <2>8, <3>1, <3>2, <3>4
      <3> QED
        BY <3>1, <3>4, <3>5 DEF Staked
    <2>14. Blinded(g)
      BY <2>3, <2>6, <2>8, <2>9, <2>11, <2>12 DEF Blinded
    <2> QED
      BY <1>2, <2>8, <2>10, <2>13, <2>14 DEF PostsOf
  <1> QED
    BY <1>3, <1>4

\* All that is posted, and whoever is first to act.
LEMMA BuildFits ==
  ASSUME NEW t \in TableType
  PROVE  EngineInv(BuildEngine(t), t) /\ ~BuildEngine(t).done /\ BuildEngine(t).winners2 = Undecided
  <1> DEFINE list == StraddlesOf(t)
             N == Len(list)
             A == PostsOf(t)
             none == [e |-> Put(Put(EmptyEngine(t), SmallBlindOf(t), SmallBlind), BigBlindOf(t), BigBlind),
                      level |-> BigBlind, from |-> BigBlindOf(t)]
             F == [x \in (1 .. N) \X A |-> PostStraddle(x[2], list[x[1]])]
             Eq(g) == g = [n \in 0 .. N |-> IF n = 0 THEN none ELSE PostStraddle(g[n - 1], list[n])]
             h == CHOOSE g : Eq(g)
  <1>1. N \in Nat /\ \A n \in 1 .. N : list[n] \in Straddle
    BY StraddlesFit
  <1>2. none \in A
    <2>1. PICK b : b = Put(Put(EmptyEngine(t), SmallBlindOf(t), SmallBlind), BigBlindOf(t), BigBlind)
      OBVIOUS
    <2>2. b \in EngineType /\ Chips(b, t) /\ Blinded(b) /\ Staked(b)
      BY <2>1, BlindsFit
    <2> QED
      BY <2>1, <2>2, TableFits, SeatNumbers DEF PostsOf
  <1>3. \A n \in 1 .. N, k \in A : PostStraddle(k, list[n]) \in A
    BY <1>1, StraddleFits
  <1>4. F \in [(1 .. N) \X A -> A]
    BY <1>3
  <1>5. BuildEngine(t) = FirstToAct(h[N])
    BY DEF BuildEngine
  <1> HIDE DEF list, A, none
  <1>6. PICK g : g \in [0 .. N -> A] /\ Steps(g, N, none, F)
    <2> HIDE DEF F, N
    <2> QED
      BY <1>1, <1>2, <1>4, StepsExist
  <1>7. Eq(g)
    <2>1. \A n \in 0 .. N : g[n] = IF n = 0 THEN none ELSE PostStraddle(g[n - 1], list[n])
      <3> TAKE n \in 0 .. N
      <3>1. CASE n = 0
        BY <1>6, <3>1 DEF Steps
      <3>2. CASE n # 0
        <4>1. n \in 1 .. N /\ g[n - 1] \in A
          BY <1>1, <1>6, <3>2
        <4>2. g[n] = F[<<n, g[n - 1]>>]
          BY <1>6, <3>2 DEF Steps
        <4> QED
          BY <4>1, <4>2, <3>2
      <3> QED
        BY <3>1, <3>2
    <2> QED
      BY <1>6, <2>1
  <1>8. Eq(h)
    <2> HIDE DEF Eq
    <2> QED
      BY <1>7
  <1>9. h[0] = none /\ \A n \in 1 .. N : h[n] = PostStraddle(h[n - 1], list[n])
    <2> HIDE DEF h, N
    <2> QED
      BY <1>1, <1>8
  <1>10. \A n \in 0 .. N : h[n] \in A
    <2>1. h[0] \in A /\ \A n \in 1 .. N : h[n - 1] \in A => h[n] \in A
      BY <1>1, <1>2, <1>3, <1>9
    <2> HIDE DEF h, N
    <2> QED
      BY <1>1, <2>1, StepsIn
  <1>11. h[N] \in A
    <2>1. N \in 0 .. N
      BY <1>1
    <2> HIDE DEF h, N
    <2> QED
      BY <1>10, <2>1
  <1>12. PICK x, e, to, f : x = h[N] /\ e = x.e /\ to = FirstAfter(CanAct(e), x.from) /\ f = [e EXCEPT !.toAct = to]
    OBVIOUS
  <1>13. BuildEngine(t) = f
    BY <1>5, <1>12 DEF FirstToAct
  <1>14. /\ e \in EngineType /\ Chips(e, t) /\ Blinded(e) /\ Staked(e) /\ x.from \in Seats
         /\ CanAct(e) \in SUBSET Seats
    BY <1>11, <1>12, LiveIn DEF PostsOf, A
  <1>15. /\ to \in Seats \cup {NoOne} /\ (CanAct(e) = {} => to = NoOne) /\ (CanAct(e) # {} => to \in CanAct(e))
    BY <1>12, <1>14, FirstAfterIn
  <1>16. /\ f \in EngineType /\ Chips(f, t) /\ f.minRaise = e.minRaise /\ f.acted = {} /\ f.toAct = to
         /\ f.committed = e.committed /\ f.total = e.total /\ f.street = Preflop /\ f.currentBet = e.currentBet
         /\ Live(f) = Live(e) /\ CanAct(f) = CanAct(e) /\ f.players = e.players /\ f.done = e.done
         /\ f.winners2 = e.winners2
    <2>1. /\ e.currentBet \in Nat /\ e.minRaise \in Nat /\ e.acted \in SUBSET Seats
          /\ e.acted = {} /\ e.street = Preflop
      BY <1>14 DEF EngineType, Blinded
    <2>2. PICK acted, bet, raise : acted = e.acted /\ bet = e.currentBet /\ raise = e.minRaise
      OBVIOUS
    <2>3. f = Control(e, bet, raise, acted, to)
      <3>1. f = [e EXCEPT !.toAct = to] /\ e \in EngineType
        BY <1>12, <1>14
      <3> QED
        BY ONLY <2>2, <3>1 DEF EngineType, Control
    <2>4. acted \in SUBSET Seats /\ bet \in Nat /\ raise \in Nat
      BY <2>1, <2>2
    <2>5. f \in EngineType /\ Chips(f, t) /\ Steered(e, f, bet, raise, acted, to)
      BY ONLY <1>14, <1>15, <2>3, <2>4, ControlFits
    <2> QED
      BY <2>1, <2>2, <2>5 DEF Steered
  <1>17. Round(f)
    <2>1. \A q \in Seats : BehindOf(f, q) = 0
      BY <1>14, <1>16 DEF Blinded, BehindOf, EngineType
    <2>2. Live(f) \subseteq Seats /\ f.players \subseteq Seats /\ f.players = t.active /\ Live(f) \subseteq f.players
      BY <1>14, <1>16, LiveIn DEF Chips
    <2>3. Rivalled(f)
      <3>1. ASSUME NEW p \in Live(f) PROVE \E q \in f.players \ {p} : BehindOf(f, q) >= BehindOf(f, p)
        <4>1. PICK q \in t.active : q # p
          BY <2>2, <3>1, TwoBlinds
        <4>2. BehindOf(f, q) = 0 /\ BehindOf(f, p) = 0 /\ q \in f.players \ {p}
          BY <2>1, <2>2, <3>1, <4>1
        <4> QED
          BY <4>2
      <3> QED
        BY <3>1 DEF Rivalled
    <2>4. BehindAll(f)
      BY <2>1, <2>2 DEF BehindAll
    <2>5. Staked(f) /\ StreetStaked(f) /\ ~f.done
      BY <1>14, <1>16 DEF Blinded, Staked, StreetStaked
    <2>6. OneOver(f) /\ (Tame => UnderBet(f))
      BY <1>14, <1>16 DEF Blinded, OneOver, UnderBet
    <2>7. \A p, q \in Live(f) : BehindOf(f, p) >= BehindOf(f, q)
      BY <2>1, <2>2
    <2>8. f.minRaise >= BigBlind /\ f.acted = {}
      BY <1>14, <1>16 DEF Blinded
    <2> QED
      BY <2>3, <2>4, <2>5, <2>6, <2>7, <2>8 DEF Round, RoundCore
  <1>18. Waits(f)
    BY <1>15, <1>16 DEF Waits
  <1> QED
    BY <1>13, <1>14, <1>16, <1>17, <1>18 DEF EngineInv, Blinded

-----------------------------------------------------------------------------
(* The actions of the panel. *)

\* A player has acted, and nobody has been asked yet.
HasActed(f, t, p) == f \in EngineType /\ Chips(f, t) /\ Round(f) /\ ~f.done /\ f.toAct = p
\* It is p's turn.
Asking(e, t, p) == HasActed(e, t, p) /\ p \in CanAct(e)

\* Who is asked is live and has chips.
LEMMA ActorFits ==
  ASSUME NEW t \in TableType, NEW e, NEW p, Asking(e, t, p)
  PROVE  /\ e \in EngineType /\ Chips(e, t) /\ Round(e) /\ ~e.done /\ e.toAct = p
         /\ p \in e.players /\ p \in Seats /\ p \in Live(e) /\ p \notin e.allIn
         /\ e.stack[p] \in Nat /\ e.stack[p] > 0 /\ e.committed[p] \in Nat /\ e.currentBet \in Nat
         /\ e.minRaise \in Nat /\ e.minRaise > 0
  <1>1. e \in EngineType /\ Chips(e, t) /\ Round(e) /\ ~e.done /\ e.toAct = p /\ p \in CanAct(e)
    BY DEF Asking, HasActed
  <1>2. p \in e.players /\ p \in Live(e) /\ p \notin e.allIn /\ p \in Seats
    BY <1>1 DEF CanAct, Live, EngineType
  <1>3. e.stack[p] \in Nat /\ e.committed[p] \in Nat /\ e.currentBet \in Nat /\ e.minRaise \in Nat
    BY <1>1, <1>2 DEF EngineType
  <1>4. e.stack[p] # 0
    BY <1>1, <1>2 DEF Chips
  <1>5. e.minRaise >= BigBlind
    BY <1>1 DEF Round, RoundCore
  <1> QED
    BY <1>1, <1>2, <1>3, <1>4, <1>5, SeatNumbers

\* Somebody's chips are put in for the bet of h, and whoever owes to it is asked again.
PutOn(e, h, p) ==
  /\ e \in EngineType /\ h \in EngineType /\ Round(e) /\ ~e.done /\ ~h.done /\ p \in CanAct(e)
  /\ h.players = e.players /\ Live(h) = Live(e) /\ CanAct(h) \subseteq CanAct(e) /\ e.allIn \subseteq h.allIn
  /\ \A q \in Seats : BehindOf(h, q) = BehindOf(e, q) /\ h.committed[q] <= h.total[q]
  /\ \A q \in Seats : q # p => h.committed[q] = e.committed[q]
  /\ h.committed[p] > 0 /\ h.committed[p] <= h.currentBet /\ h.currentBet >= e.currentBet /\ h.minRaise >= BigBlind
  /\ \A q \in CanAct(h) : q \in h.acted => h.committed[q] >= h.currentBet

\* It is a betting round still.
LEMMA PutRound ==
  ASSUME NEW e, NEW h, NEW p, PutOn(e, h, p)
  PROVE  Round(h)
  <1>1. /\ e \in EngineType /\ h \in EngineType /\ RoundCore(e) /\ (Tame => BehindAll(e)) /\ ~h.done /\ p \in CanAct(e)
        /\ h.players = e.players /\ Live(h) = Live(e) /\ CanAct(h) \subseteq CanAct(e) /\ e.allIn \subseteq h.allIn
        /\ h.committed[p] > 0 /\ h.committed[p] <= h.currentBet /\ h.currentBet >= e.currentBet /\ h.minRaise >= BigBlind
    BY DEF PutOn, Round
  <1>2. /\ \A q \in Seats : BehindOf(h, q) = BehindOf(e, q) /\ h.committed[q] <= h.total[q]
        /\ \A q \in Seats : q # p => h.committed[q] = e.committed[q]
        /\ \A q \in CanAct(h) : q \in h.acted => h.committed[q] >= h.currentBet
    BY DEF PutOn
  <1>3. /\ Live(e) \in SUBSET Seats /\ CanAct(e) \in SUBSET Seats /\ Live(e) \subseteq e.players /\ e.players \in SUBSET Seats
        /\ p \in Seats /\ p \in e.players /\ p \notin e.allIn /\ p \in Live(e)
    BY <1>1, LiveIn DEF CanAct
  <1>4. /\ \A q \in Seats : e.committed[q] \in Nat /\ h.committed[q] \in Nat /\ h.total[q] \in Nat
        /\ e.currentBet \in Nat /\ h.currentBet \in Nat
    BY <1>1 DEF EngineType
  <1>5. Staked(h) /\ StreetStaked(h)
    <2>1. h.total[p] > 0 /\ h.currentBet > 0
      BY <1>1, <1>2, <1>3, <1>4
    <2> QED
      BY <1>1, <1>3, <2>1 DEF Staked, StreetStaked
  <1>6. Rivalled(h)
    <2>1. Rivalled(e)
      BY <1>1 DEF RoundCore
    <2>2. ASSUME NEW q \in Live(h) PROVE \E r \in h.players \ {q} : BehindOf(h, r) >= BehindOf(h, q)
      <3>1. PICK r \in e.players \ {q} : BehindOf(e, r) >= BehindOf(e, q)
        BY <1>1, <2>1, <2>2 DEF Rivalled
      <3>2. q \in Seats /\ r \in Seats
        BY <1>1, <1>3, <2>2
      <3> QED
        BY <1>1, <1>2, <3>1, <3>2
    <2> QED
      BY <2>2 DEF Rivalled
  <1>7. ASSUME NEW q \in e.players, NEW r \in e.players, h.committed[q] > 0 \/ q \in CanAct(h), Tame
        PROVE  BehindOf(h, q) >= BehindOf(h, r)
    <2>1. q \in Seats /\ r \in Seats /\ (e.committed[q] > 0 \/ q \in CanAct(e))
      BY <1>1, <1>2, <1>3, <1>7
    <2>2. BehindOf(e, q) >= BehindOf(e, r)
      BY <1>1, <1>7, <2>1 DEF BehindAll
    <2> QED
      BY <1>2, <2>1, <2>2
  <1>8. ASSUME NEW q \in e.players, Tame PROVE h.committed[q] <= h.currentBet
    <2>1. q \in Seats /\ e.committed[q] <= e.currentBet
      BY <1>1, <1>3, <1>8 DEF RoundCore, UnderBet
    <2>2. CASE q = p
      BY <1>1, <2>2
    <2>3. CASE q # p
      <3>1. h.committed[q] = e.committed[q] /\ e.committed[q] \in Nat
        BY <1>2, <1>4, <2>1, <2>3
      <3> QED
        BY <1>1, <1>4, <2>1, <3>1
    <2> QED
      BY <2>2, <2>3
  <1>9. ASSUME NEW q \in Live(h), NEW r \in Live(h), q \notin h.allIn \/ h.committed[q] > 0
        PROVE  BehindOf(h, q) >= BehindOf(h, r)
    <2>1. q \in Live(e) /\ r \in Live(e) /\ q \in Seats /\ r \in Seats
      BY <1>1, <1>3, <1>9
    <2>2. q \notin e.allIn \/ e.committed[q] > 0
      BY <1>1, <1>2, <1>3, <1>9, <2>1
    <2>3. BehindOf(e, q) >= BehindOf(e, r)
      BY <1>1, <2>1, <2>2 DEF RoundCore
    <2> QED
      BY <1>2, <2>1, <2>3
  <1>10. ASSUME NEW q \in Live(h), NEW r \in Live(h), q # r
         PROVE  h.committed[q] <= h.currentBet \/ h.committed[r] <= h.currentBet
    <2>1. q \in Live(e) /\ r \in Live(e) /\ q \in Seats /\ r \in Seats
      BY <1>1, <1>3, <1>10
    <2>2. CASE q = p \/ r = p
      BY <1>1, <2>2
    <2>3. CASE q # p /\ r # p
      <3>1. /\ h.committed[q] = e.committed[q] /\ h.committed[r] = e.committed[r]
            /\ e.committed[q] \in Nat /\ e.committed[r] \in Nat
        BY <1>2, <1>4, <2>1, <2>3
      <3>2. e.committed[q] <= e.currentBet \/ e.committed[r] <= e.currentBet
        BY <1>1, <1>10, <2>1 DEF RoundCore, OneOver
      <3> QED
        BY <1>1, <1>4, <3>1, <3>2
    <2> QED
      BY <2>2, <2>3
  <1>11. OneOver(h)
    BY <1>10 DEF OneOver
  <1>12. Tame => UnderBet(h) /\ BehindAll(h)
    BY <1>1, <1>7, <1>8 DEF UnderBet, BehindAll
  <1> QED
    BY <1>1, <1>2, <1>5, <1>6, <1>9, <1>11, <1>12 DEF Round, RoundCore

\* A bet, a raise or an all-in above the bet: everybody else is asked again.
LEMMA PushFits ==
  ASSUME NEW t \in TableType, NEW e, NEW p, Asking(e, t, p),
         NEW to \in Nat, to > e.currentBet, to <= e.committed[p] + e.stack[p]
  PROVE  HasActed(PushAggressive(e, to), t, p)
  <1>1. /\ e \in EngineType /\ Chips(e, t) /\ Round(e) /\ ~e.done /\ e.toAct = p
        /\ p \in e.players /\ p \in Seats /\ p \in Live(e) /\ p \notin e.allIn
        /\ e.stack[p] \in Nat /\ e.committed[p] \in Nat /\ e.currentBet \in Nat
    BY ActorFits
  <1>2. PICK a \in Int : a = to - e.committed[p] /\ a + e.committed[p] = to /\ a <= e.stack[p] /\ a + e.committed[p] >= 0
    BY <1>1
  <1>3. PICK f : f = Put(e, p, a)
    OBVIOUS
  <1>4. f \in EngineType /\ Chips(f, t) /\ PutIn(e, f, p, a)
    <2>1. /\ f \in EngineType /\ Chips(f, t) /\ PutIn(e, f, p, IF a <= e.stack[p] THEN a ELSE e.stack[p])
      BY ONLY <1>1, <1>2, <1>3, PutFits, t \in TableType, a \in Int
    <2> QED
      BY <1>2, <2>1
  <1>5. /\ f.committed[p] = to /\ f.players = e.players /\ f.toAct = p /\ ~f.done /\ f.acted = e.acted
        /\ \A q \in Seats : q # p => f.committed[q] = e.committed[q]
        /\ \A q \in Seats : BehindOf(f, q) = BehindOf(e, q)
    <2>1. f.committed[p] = e.committed[p] + a
      BY <1>1, <1>4 DEF PutIn
    <2>2. \A q \in Seats : e.committed[q] \in Int /\ e.total[q] \in Int
      BY <1>1 DEF EngineType
    <2>3. \A q \in Seats : BehindOf(f, q) = BehindOf(e, q)
      BY <1>4, <2>2 DEF PutIn, BehindOf
    <2> QED
      BY <1>1, <1>2, <1>4, <2>1, <2>3 DEF PutIn
  <1>6. Live(f) = Live(e) /\ CanAct(f) \subseteq CanAct(e)
    BY <1>4 DEF PutIn, Live, CanAct
  <1>7. PICK raise \in Nat : raise = Max({BigBlind, a}) /\ raise >= BigBlind
    BY SeatNumbers, MaxOf
  <1>8. PICK A, g, h : /\ g = [f EXCEPT !.currentBet = to, !.minRaise = raise]
                       /\ A = {p} \cup (e.players \ CanAct(g))
                       /\ h = [g EXCEPT !.acted = A]
    OBVIOUS
  <1>9. PushAggressive(e, to) = h
    BY <1>1, <1>2, <1>3, <1>5, <1>7, <1>8 DEF PushAggressive, BetIs
  <1>10. CanAct(g) = CanAct(f)
    <2>1. g.players = f.players /\ g.allIn = f.allIn /\ g.foldedStreet = f.foldedStreet
      BY <1>4, <1>8 DEF EngineType
    <2> QED
      BY <2>1 DEF CanAct, Live
  <1>11. A \in SUBSET Seats /\ A \cap CanAct(f) \subseteq {p}
    BY <1>1, <1>8, <1>10, LiveIn
  <1>12. h = Control(f, to, raise, A, p)
    <2>1. f.toAct = p /\ f \in EngineType
      BY <1>4, <1>5
    <2>2. h = [[f EXCEPT !.currentBet = to, !.minRaise = raise] EXCEPT !.acted = A]
      BY <1>8
    <2> QED
      BY ONLY <2>1, <2>2 DEF EngineType, Control
  <1>13. h \in EngineType /\ Chips(h, t) /\ Steered(f, h, to, raise, A, p)
    BY ONLY <1>1, <1>4, <1>11, <1>12, ControlFits, to \in Nat, raise \in Nat
  <1>14. /\ Live(h) = Live(e) /\ CanAct(h) = CanAct(f) /\ h.currentBet = to /\ h.acted = A /\ h.minRaise = raise
         /\ h.committed = f.committed /\ h.total = f.total /\ h.allIn = f.allIn /\ h.toAct = p /\ ~h.done
    BY <1>5, <1>6, <1>13 DEF Steered
  <1>15. PutOn(e, h, p)
    <2>1. /\ p \in CanAct(e) /\ CanAct(h) \subseteq CanAct(e) /\ h.players = e.players /\ h.done = f.done
          /\ e.allIn \subseteq h.allIn /\ h.committed[p] > 0
      BY <1>1, <1>4, <1>5, <1>6, <1>13, <1>14 DEF CanAct, PutIn, Steered
    <2>2. \A q \in Seats : BehindOf(h, q) = BehindOf(e, q) /\ h.committed[q] <= h.total[q]
      BY <1>5, <1>13, <1>14 DEF BehindOf, Chips
    <2>3. \A q \in CanAct(h) : q \in h.acted => h.committed[q] >= h.currentBet
      BY <1>5, <1>11, <1>14
    <2>4. /\ \A q \in Seats : q # p => h.committed[q] = e.committed[q]
          /\ h.committed[p] <= h.currentBet /\ h.currentBet >= e.currentBet /\ h.minRaise >= BigBlind
      BY <1>1, <1>5, <1>7, <1>14
    <2> QED
      BY <1>1, <1>5, <1>13, <1>14, <2>1, <2>2, <2>3, <2>4 DEF PutOn
  <1>16. Round(h)
    BY <1>15, PutRound
  <1> QED
    BY <1>9, <1>13, <1>14, <1>16 DEF HasActed

\* The chips of a call.
LEMMA CallFits ==
  ASSUME NEW t \in TableType, NEW e, NEW p, Asking(e, t, p), ToCall(e) > 0
  PROVE  HasActed(Acted(Put(e, p, ToCall(e)), p), t, p)
  <1>1. /\ e \in EngineType /\ Chips(e, t) /\ Round(e) /\ ~e.done /\ e.toAct = p
        /\ p \in e.players /\ p \in Seats /\ p \in Live(e) /\ p \notin e.allIn
        /\ e.stack[p] \in Nat /\ e.stack[p] > 0 /\ e.committed[p] \in Nat /\ e.currentBet \in Nat
    BY ActorFits
  <1>2. PICK a \in Nat : a = ToCall(e) /\ a > 0 /\ e.committed[p] + a = e.currentBet
    BY <1>1 DEF ToCall
  <1>3. PICK f : f = Put(e, p, a)
    OBVIOUS
  <1>4. PICK put \in Nat : put = (IF a <= e.stack[p] THEN a ELSE e.stack[p]) /\ put <= a /\ (put = a \/ put = e.stack[p])
    BY <1>1
  <1>5. f \in EngineType /\ Chips(f, t) /\ PutIn(e, f, p, put)
    <2>1. /\ f \in EngineType /\ Chips(f, t) /\ PutIn(e, f, p, IF a <= e.stack[p] THEN a ELSE e.stack[p])
      <3>1. a \in Int /\ a + e.committed[p] >= 0 /\ a >= 0
        BY <1>1
      <3> QED
        BY ONLY <1>1, <1>3, <3>1, PutFits, t \in TableType
    <2> QED
      BY <1>4, <2>1
  <1>6. /\ f.players = e.players /\ f.toAct = p /\ ~f.done /\ f.acted = e.acted /\ f.currentBet = e.currentBet
        /\ f.minRaise = e.minRaise
        /\ f.committed[p] <= e.currentBet /\ (p \notin f.allIn => f.committed[p] = e.currentBet)
        /\ \A q \in Seats : q # p => f.committed[q] = e.committed[q]
        /\ \A q \in Seats : BehindOf(f, q) = BehindOf(e, q)
    <2>1. f.committed[p] = e.committed[p] + put /\ (p \notin f.allIn => ~(e.stack[p] - put <= 0))
      BY <1>1, <1>5 DEF PutIn
    <2>2. \A q \in Seats : e.committed[q] \in Int /\ e.total[q] \in Int
      BY <1>1 DEF EngineType
    <2>3. \A q \in Seats : BehindOf(f, q) = BehindOf(e, q)
      BY <1>5, <2>2 DEF PutIn, BehindOf
    <2>4. /\ e.committed[p] + put <= e.currentBet
          /\ ~(e.stack[p] - put <= 0) => e.committed[p] + put = e.currentBet
      BY <1>1, <1>2, <1>4
    <2> QED
      BY <1>1, <1>5, <2>1, <2>3, <2>4 DEF PutIn
  <1>7. Live(f) = Live(e) /\ CanAct(f) \subseteq CanAct(e)
    BY <1>5 DEF PutIn, Live, CanAct
  <1>8. PICK A, h : A = f.acted \cup {p} /\ h = [f EXCEPT !.acted = A]
    OBVIOUS
  <1>9. Acted(Put(e, p, ToCall(e)), p) = h
    BY <1>2, <1>3, <1>8 DEF Acted
  <1>10. PICK bet, raise : bet = f.currentBet /\ raise = f.minRaise
    OBVIOUS
  <1>11. A \in SUBSET Seats /\ bet \in Nat /\ raise \in Nat /\ p \in Seats \cup {NoOne}
    BY <1>1, <1>5, <1>8, <1>10 DEF EngineType
  <1>12. h = Control(f, bet, raise, A, p)
    <2>1. f.toAct = p /\ f \in EngineType
      BY <1>5, <1>6
    <2>2. h = [f EXCEPT !.acted = A]
      BY <1>8
    <2> QED
      BY ONLY <1>10, <2>1, <2>2 DEF EngineType, Control
  <1>13. h \in EngineType /\ Chips(h, t) /\ Steered(f, h, bet, raise, A, p)
    BY ONLY <1>5, <1>11, <1>12, ControlFits
  <1>14. /\ Live(h) = Live(e) /\ CanAct(h) = CanAct(f) /\ h.currentBet = e.currentBet /\ h.acted = e.acted \cup {p}
         /\ h.minRaise = e.minRaise
         /\ h.committed = f.committed /\ h.total = f.total /\ h.allIn = f.allIn /\ h.toAct = p /\ ~h.done
    BY <1>6, <1>7, <1>8, <1>10, <1>13 DEF Steered
  <1>15. PutOn(e, h, p)
    <2>1. /\ p \in CanAct(e) /\ CanAct(h) \subseteq CanAct(e) /\ h.players = e.players /\ e.allIn \subseteq h.allIn
      BY <1>1, <1>5, <1>6, <1>7, <1>13, <1>14 DEF CanAct, PutIn, Steered
    <2>2. \A q \in Seats : BehindOf(h, q) = BehindOf(e, q) /\ h.committed[q] <= h.total[q]
      BY <1>6, <1>13, <1>14 DEF BehindOf, Chips
    <2>3. ASSUME NEW q \in CanAct(h), q \in h.acted PROVE h.committed[q] >= h.currentBet
      <3>1. q \in Seats /\ q \in CanAct(e) /\ q \notin f.allIn
        BY <1>1, <1>7, <1>14, <2>3, LiveIn DEF CanAct
      <3>2. CASE q = p
        BY <1>1, <1>6, <1>14, <3>1, <3>2
      <3>3. CASE q # p
        BY <1>1, <1>6, <1>14, <2>3, <3>1, <3>3 DEF Round, RoundCore
      <3> QED
        BY <3>2, <3>3
    <2>4. h.committed[p] > 0
      <3>1. h.committed[p] = e.committed[p] + put
        BY <1>1, <1>5, <1>14 DEF PutIn
      <3> QED
        BY <1>1, <1>2, <1>4, <3>1
    <2>5. /\ \A q \in Seats : q # p => h.committed[q] = e.committed[q]
          /\ h.committed[p] <= h.currentBet /\ h.currentBet >= e.currentBet /\ h.minRaise >= BigBlind
      BY <1>1, <1>6, <1>14 DEF Round, RoundCore
    <2> QED
      BY <1>1, <1>13, <1>14, <2>1, <2>2, <2>3, <2>4, <2>5 DEF PutOn
  <1>16. Round(h)
    BY <1>15, PutRound
  <1> QED
    BY <1>9, <1>13, <1>14, <1>16 DEF HasActed

-----------------------------------------------------------------------------
(* Checks and folds, and a hand that everybody but one folded. *)

\* A check: the player owes nothing.
LEMMA CheckFits ==
  ASSUME NEW t \in TableType, NEW e, NEW p, Asking(e, t, p), ToCall(e) <= 0
  PROVE  HasActed(Acted(e, p), t, p)
  <1>1. /\ e \in EngineType /\ Chips(e, t) /\ Round(e) /\ ~e.done /\ e.toAct = p
        /\ p \in Seats /\ e.committed[p] \in Nat /\ e.currentBet \in Nat /\ e.minRaise \in Nat
    BY ActorFits
  <1>2. PICK A, bet, raise : A = e.acted \cup {p} /\ bet = e.currentBet /\ raise = e.minRaise
    OBVIOUS
  <1>3. PICK h : h = Acted(e, p)
    OBVIOUS
  <1>4. A \in SUBSET Seats /\ bet \in Nat /\ raise \in Nat /\ p \in Seats \cup {NoOne}
    BY <1>1, <1>2 DEF EngineType
  <1>5. h = Control(e, bet, raise, A, p)
    <2>1. h = [e EXCEPT !.acted = A]
      BY <1>2, <1>3 DEF Acted
    <2>2. e \in EngineType /\ e.toAct = p
      BY <1>1
    <2> QED
      BY ONLY <1>2, <2>1, <2>2 DEF EngineType, Control
  <1>6. h \in EngineType /\ Chips(h, t) /\ Steered(e, h, bet, raise, A, p)
    BY ONLY <1>1, <1>4, <1>5, ControlFits
  <1>7. e.committed[p] >= e.currentBet
    BY <1>1 DEF ToCall
  <1>8. Round(h)
    <2>1. /\ h.players = e.players /\ h.total = e.total /\ h.committed = e.committed /\ h.currentBet = e.currentBet
          /\ h.minRaise = e.minRaise /\ h.allIn = e.allIn /\ h.acted = A /\ ~h.done
          /\ Live(h) = Live(e) /\ CanAct(h) = CanAct(e)
      BY <1>1, <1>2, <1>6 DEF Steered
    <2>2. \A q \in CanAct(h) : q \in h.acted => h.committed[q] >= h.currentBet
      BY <1>1, <1>2, <1>7, <2>1 DEF Round, RoundCore
    <2>3. Live(h) \subseteq Live(e)
      BY <2>1
    <2> QED
      BY ONLY <1>1, <2>1, <2>2, <2>3, RoundAlike
  <1> QED
    BY <1>1, <1>3, <1>6, <1>8 DEF HasActed, Steered

\* A fold: the player is no longer live, and his chips stay where they are.
LEMMA FoldFits ==
  ASSUME NEW t \in TableType, NEW e, NEW p, Asking(e, t, p)
  PROVE  HasActed(Acted([e EXCEPT !.foldedStreet[p] = e.street], p), t, p)
  <1>1. /\ e \in EngineType /\ Chips(e, t) /\ Round(e) /\ ~e.done /\ e.toAct = p
        /\ p \in Seats
    BY ActorFits
  <1>2. PICK F, A : F = [e.foldedStreet EXCEPT ![p] = e.street] /\ A = e.acted \cup {p}
    OBVIOUS
  <1>3. PICK h : h = [e EXCEPT !.foldedStreet = F, !.acted = A]
    OBVIOUS
  <1>4. h = Acted([e EXCEPT !.foldedStreet[p] = e.street], p)
    <2>1. e \in EngineType
      BY <1>1
    <2> QED
      BY ONLY <1>2, <1>3, <2>1 DEF Acted, EngineType
  <1>5. F \in [Seats -> NotFolded .. River] /\ A \in SUBSET Seats
    <2>1. e.foldedStreet \in [Seats -> NotFolded .. River] /\ e.street \in Preflop .. River /\ e.acted \in SUBSET Seats
      BY <1>1 DEF EngineType
    <2>2. e.street \in NotFolded .. River
      BY <2>1 DEF Preflop, River, NotFolded
    <2> QED
      BY <1>1, <1>2, <2>1, <2>2
  <1>6. h \in EngineType
    BY <1>1, <1>3, <1>5 DEF EngineType
  <1>7. /\ h.foldedStreet = F /\ h.acted = A
        /\ h.players = e.players /\ h.button = e.button /\ h.stack = e.stack /\ h.committed = e.committed
        /\ h.total = e.total /\ h.currentBet = e.currentBet /\ h.minRaise = e.minRaise /\ h.toAct = e.toAct
        /\ h.allIn = e.allIn /\ h.street = e.street
        /\ h.done = e.done /\ h.pot = e.pot /\ h.ante = e.ante /\ h.boards = e.boards
        /\ h.winners = e.winners /\ h.winners2 = e.winners2
    BY <1>1, <1>3 DEF EngineType
  <1>8. Live(h) = Live(e) \ {p}
    <2>1. e.foldedStreet \in [Seats -> NotFolded .. River] /\ e.street \in Preflop .. River /\ e.players \in SUBSET Seats
      BY <1>1 DEF EngineType
    <2>2. \A q \in Seats : F[q] = IF q = p THEN e.street ELSE e.foldedStreet[q]
      BY <1>2, <2>1
    <2>3. e.street # NotFolded
      BY <2>1 DEF Preflop, River, NotFolded
    <2> QED
      BY <1>7, <2>1, <2>2, <2>3 DEF Live
  <1>9. Chips(h, t)
    BY <1>1, <1>7 DEF Chips
  <1>10. Round(h)
    <2>1. Live(h) \subseteq Live(e) /\ p \notin Live(h) /\ ~h.done
      BY <1>1, <1>7, <1>8
    <2>2. \A q \in CanAct(h) : q \in h.acted => h.committed[q] >= h.currentBet
      <3>1. \A q \in CanAct(h) : q \in CanAct(e) /\ (q \in h.acted => q \in e.acted)
        BY <1>2, <1>7, <1>8 DEF CanAct
      <3> QED
        BY <1>1, <1>7, <3>1 DEF Round, RoundCore
    <2> QED
      BY ONLY <1>1, <1>7, <2>1, <2>2, RoundAlike
  <1> QED
    BY <1>1, <1>4, <1>6, <1>7, <1>9, <1>10 DEF HasActed

\* The buttons of the panel.
Offered(e, kind, to) ==
  \/ kind = "fold"
  \/ kind = "check" /\ ToCall(e) <= 0
  \/ kind = "call" /\ ToCall(e) > 0
  \/ kind = "bet" /\ e.currentBet = 0
  \/ kind = "raise" /\ MinRaiseTo(e) <= to /\ to < MaxTo(e) /\ e.currentBet > 0
  \/ kind = "allin" /\ MaxTo(e) > e.currentBet

\* Every button of the panel leaves a betting round in work (settleAction).
LEMMA PlayedFits ==
  ASSUME NEW t \in TableType, NEW e, NEW p, Asking(e, t, p), NEW kind, NEW to \in Nat, Offered(e, kind, to)
  PROVE  HasActed(Played(e, kind, to), t, p)
  <1>1. /\ e.toAct = p
        /\ e.stack[p] \in Nat /\ e.stack[p] > 0 /\ e.committed[p] \in Nat /\ e.currentBet \in Nat
        /\ e.minRaise \in Nat /\ e.minRaise > 0 /\ BigBlind \in Nat \ {0}
    BY ActorFits, SeatNumbers
  <1>2. PICK top \in Nat : top = MaxTo(e) /\ top = e.committed[p] + e.stack[p] /\ top > 0
    BY <1>1 DEF MaxTo
  <1>3. CASE kind = "fold"
    BY <1>1, <1>3, FoldFits DEF Played
  <1>4. CASE kind = "check"
    BY <1>1, <1>4, CheckFits DEF Played, Offered
  <1>5. CASE kind = "call"
    BY <1>1, <1>5, CallFits DEF Played, Offered
  <1>6. CASE kind = "bet"
    <2>1. e.currentBet = 0
      BY <1>6 DEF Offered
    <2>2. PICK a \in Nat : a = Max({to, e.committed[p] + BigBlind}) /\ a > 0
      <3>1. e.committed[p] + BigBlind \in Nat /\ e.committed[p] + BigBlind > 0
        BY <1>1
      <3>2. Max({to, e.committed[p] + BigBlind}) = IF to >= e.committed[p] + BigBlind THEN to ELSE e.committed[p] + BigBlind
        BY <3>1, MaxOf
      <3> QED
        BY <3>1, <3>2
    <2>3. PICK b \in Nat : b = Min({a, top}) /\ b > 0 /\ b <= top
      <3>1. Min({a, top}) = IF a <= top THEN a ELSE top
        BY MinOf
      <3> QED
        BY <1>2, <2>2, <3>1
    <2>4. HasActed(PushAggressive(e, b), t, p)
      BY <1>2, <2>1, <2>3, PushFits
    <2>5. Played(e, kind, to) = PushAggressive(e, b)
      BY <1>1, <1>2, <1>6, <2>2, <2>3 DEF Played
    <2> QED
      BY <2>4, <2>5
  <1>7. CASE kind = "raise"
    <2>1. MinRaiseTo(e) <= to /\ to < top /\ e.currentBet > 0
      BY <1>2, <1>7 DEF Offered
    <2>2. to > e.currentBet
      <3>1. PICK a \in Nat : a = e.currentBet + (IF e.currentBet = 0 THEN BigBlind ELSE e.minRaise) /\ a > e.currentBet
        BY <1>1, <2>1
      <3>2. MinRaiseTo(e) = IF a <= top THEN a ELSE top
        BY <1>2, <3>1, MinOf DEF MinRaiseTo
      <3> QED
        BY <1>1, <2>1, <3>1, <3>2
    <2>3. Min({to, top}) = to
      BY <2>1, MinOf
    <2>4. HasActed(PushAggressive(e, to), t, p)
      BY <1>2, <2>1, <2>2, PushFits
    <2>5. Played(e, kind, to) = PushAggressive(e, to)
      BY <1>1, <1>2, <1>7, <2>3 DEF Played
    <2> QED
      BY <2>4, <2>5
  <1>8. CASE kind = "allin"
    <2>1. top > e.currentBet
      BY <1>2, <1>8 DEF Offered
    <2>2. HasActed(PushAggressive(e, top), t, p)
      BY <1>2, <2>1, PushFits
    <2>3. Played(e, kind, to) = PushAggressive(e, top)
      BY <1>2, <1>8, <2>1 DEF Played
    <2> QED
      BY <2>2, <2>3
  <1> QED
    BY <1>3, <1>4, <1>5, <1>6, <1>7, <1>8 DEF Offered

\* The summary of a hand does not look at what does not bet.
LEMMA SummedAlike ==
  ASSUME NEW e, NEW f, Summed(e), f.players = e.players, f.total = e.total, f.committed = e.committed,
         f.pot = e.pot, Live(f) = Live(e)
  PROVE  Summed(f)
  <1>1. FinalPot(f) = FinalPot(e)
    BY DEF FinalPot
  <1>2. Unmatched(f) = Unmatched(e)
    BY DEF Unmatched
  <1> QED
    BY <1>1, <1>2 DEF Summed

\* The most that anybody has put in.
LEMMA MostTotal ==
  ASSUME NEW e \in EngineType, NEW S, S \subseteq e.players, NEW q \in S, \A r \in S : e.total[r] <= e.total[q]
  PROVE  Max({e.total[p] : p \in S}) = e.total[q]
  <1>1. \A p \in S : e.total[p] \in Nat
    BY DEF EngineType
  <1>2. PICK T : T = {e.total[p] : p \in S}
    OBVIOUS
  <1>3. T \subseteq Nat /\ e.total[q] \in T /\ \A x \in T : x <= e.total[q]
    BY <1>1, <1>2
  <1>4. Max(T) \in T /\ \A x \in T : x <= Max(T)
    <2>1. T # {} /\ e.total[q] \in Nat
      BY <1>1, <1>3
    <2> QED
      BY ONLY <1>3, <2>1, NatMax
  <1> QED
    BY <1>1, <1>2, <1>3, <1>4

\* Nothing is unmatched if every live player has somebody beside him who put in as much.
LEMMA NoneUnmatched ==
  ASSUME NEW e \in EngineType, \A p \in Live(e) : \E q \in e.players \ {p} : e.total[q] >= e.total[p]
  PROVE  Unmatched(e) = 0
  <1>1. PICK most, top, w, others :
           /\ most = Max({e.total[p] : p \in e.players})
           /\ top = {p \in e.players : e.total[p] = most}
           /\ w = (CHOOSE p \in top : TRUE)
           /\ others = Max({e.total[p] : p \in e.players \ {w}})
    OBVIOUS
  <1>2. Unmatched(e) = IF Cardinality(top) = 1 /\ w \in Live(e) THEN most - others ELSE 0
    BY <1>1 DEF Unmatched
  <1>3. ASSUME Cardinality(top) = 1, w \in Live(e) PROVE FALSE
    <2>1. e.players \in SUBSET Seats /\ top \in SUBSET Seats /\ \A p \in e.players : e.total[p] \in Nat
      BY <1>1, LiveIn DEF EngineType
    <2>2. top = {w}
      <3>1. PICK m : top = {m}
        BY <1>3, <2>1, SeatsFinite
      <3> QED
        BY <1>1, <3>1
    <2>3. PICK m \in e.players : \A x \in e.players : e.total[x] <= e.total[m]
      <3>1. IsFiniteSet(e.players) /\ e.players # {}
        BY <1>1, <2>1, <2>2, SeatNumbers, FS_Subset
      <3> QED
        BY <2>1, <3>1, MostIn
    <2>4. most = e.total[m]
      BY <1>1, <2>3, MostTotal
    <2>5. PICK q \in e.players \ {w} : e.total[q] >= e.total[w]
      BY <1>3
    <2>6. e.total[w] = most /\ w \in e.players
      BY <1>1, <2>2
    <2>7. e.total[q] = most
      BY <2>1, <2>3, <2>4, <2>5, <2>6
    <2> QED
      BY <1>1, <2>2, <2>5, <2>7
  <1> QED
    BY <1>2, <1>3

\* What one live player put in beyond the next is unmatched.
LEMMA OneUnmatched ==
  ASSUME NEW e \in EngineType, NEW w \in Live(e), NEW q \in e.players \ {w},
         \A r \in e.players \ {w} : e.total[r] <= e.total[q], e.total[q] < e.total[w]
  PROVE  Unmatched(e) = e.total[w] - e.total[q]
  <1>1. w \in e.players /\ \A p \in e.players : e.total[p] \in Nat
    BY LiveIn DEF EngineType
  <1>2. \A r \in e.players : r # w => e.total[r] < e.total[w]
    BY <1>1
  <1>3. Max({e.total[p] : p \in e.players}) = e.total[w]
    <2>1. \A r \in e.players : e.total[r] <= e.total[w]
      BY <1>1, <1>2
    <2> QED
      BY <1>1, <2>1, MostTotal
  <1>4. {p \in e.players : e.total[p] = e.total[w]} = {w}
    BY <1>1, <1>2
  <1>5. Max({e.total[p] : p \in e.players \ {w}}) = e.total[q]
    BY MostTotal
  <1>6. (CHOOSE p \in {w} : TRUE) = w
    OBVIOUS
  <1>7. Cardinality({w}) = 1
    BY FS_Singleton
  <1>8. PICK most, top, v, others :
           /\ most = Max({e.total[p] : p \in e.players})
           /\ top = {p \in e.players : e.total[p] = most}
           /\ v = (CHOOSE p \in top : TRUE)
           /\ others = Max({e.total[p] : p \in e.players \ {v}})
    OBVIOUS
  <1>9. top = {w} /\ v = w
    BY <1>3, <1>4, <1>6, <1>8
  <1>10. others = e.total[q] /\ most = e.total[w]
    BY <1>3, <1>5, <1>8, <1>9
  <1>11. Unmatched(e) = IF Cardinality(top) = 1 /\ v \in Live(e) THEN most - others ELSE 0
    BY <1>8 DEF Unmatched
  <1> QED
    BY <1>7, <1>9, <1>10, <1>11

\* A hand that is over keeps its chips.
LEMMA FinishFits ==
  ASSUME NEW t \in TableType, NEW e, e \in EngineType, Chips(e, t), RoundCore(e), Tame => Summed(e)
  PROVE  EngineInv(FinishHand(e), t)
  <1>1. PICK W, W2 : /\ W = (IF Cardinality(Live(e)) = 1 THEN Live(e) ELSE Undecided)
                     /\ W2 = IF e.boards = 2 THEN W ELSE Undecided
    OBVIOUS
  <1>2. PICK f : f = FinishHand(e)
    OBVIOUS
  <1>3. f = [e EXCEPT !.toAct = NoOne, !.done = TRUE, !.winners = W, !.winners2 = W2]
    BY <1>1, <1>2 DEF FinishHand
  <1>4. W \in SUBSET Seats /\ W2 \in SUBSET Seats /\ W \subseteq e.players /\ W2 \subseteq e.players
    BY <1>1, LiveIn DEF Undecided
  <1>5. f \in EngineType
    BY <1>3, <1>4 DEF EngineType
  <1>6. /\ f.winners = W /\ f.winners2 = W2 /\ f.done
        /\ f.players = e.players /\ f.button = e.button /\ f.stack = e.stack /\ f.committed = e.committed
        /\ f.total = e.total /\ f.currentBet = e.currentBet /\ f.minRaise = e.minRaise
        /\ f.allIn = e.allIn /\ f.street = e.street /\ f.foldedStreet = e.foldedStreet /\ f.acted = e.acted
        /\ f.pot = e.pot /\ f.ante = e.ante /\ f.boards = e.boards
    BY <1>3 DEF EngineType
  <1>7. Live(f) = Live(e) /\ CanAct(f) = CanAct(e)
    BY <1>6 DEF Live, CanAct
  <1>8. Chips(f, t)
    BY <1>4, <1>6 DEF Chips
  <1>9. RoundCore(f)
    BY <1>6, <1>7 DEF RoundCore, OneOver, BehindOf, Staked, StreetStaked, Rivalled, UnderBet
  <1>10. Tame => Summed(f)
    BY <1>6, <1>7, SummedAlike
  <1> QED
    BY <1>2, <1>5, <1>6, <1>8, <1>9, <1>10 DEF EngineInv, Round, Waits
\* A hand that everybody but one folded: what his last bet was not matched by is what he
\* put in beyond everybody else over the whole hand, if the small blind is not above the
\* big one.
LEMMA FoldoutSummed ==
  ASSUME NEW t \in TableType, NEW e, e \in EngineType, Chips(e, t), Round(e), ~e.done, Tame,
         Cardinality(Live(e)) = 1
  PROVE  Summed(e)
  <1>1. Live(e) \in SUBSET Seats /\ Live(e) \subseteq e.players /\ e.players \in SUBSET Seats
    BY LiveIn
  <1>2. PICK w : Live(e) = {w}
    BY <1>1, SeatsFinite
  <1>3. \A p \in e.players : /\ p \in Seats /\ e.committed[p] \in Nat /\ e.total[p] \in Nat
                            /\ e.total[p] = BehindOf(e, p) + e.committed[p] /\ BehindOf(e, p) \in Nat
    BY <1>1 DEF EngineType, Chips, BehindOf
  <1>4. w \in e.players /\ w \in Live(e)
    BY <1>1, <1>2
  <1>5. PICK S : S = e.players \ {w}
    OBVIOUS
  <1>6. /\ BehindAll(e) /\ Rivalled(e)
    BY DEF Round, RoundCore
  <1>7. PICK near \in S : BehindOf(e, near) >= BehindOf(e, w)
    BY <1>4, <1>5, <1>6 DEF Rivalled
  <1>8. PICK T : T = {e.committed[p] : p \in S}
    OBVIOUS
  <1>9. PICK m \in S : \A x \in S : e.committed[x] <= e.committed[m]
    <2>1. IsFiniteSet(S) /\ S # {} /\ \A x \in S : e.committed[x] \in Int
      BY <1>1, <1>3, <1>5, <1>7, SeatsFinite, FS_Subset
    <2> QED
      BY ONLY <2>1, MostIn
  <1>10. Max({0} \cup T) = e.committed[m]
    <2>1. e.committed[m] \in Nat /\ {0} \cup T \subseteq Nat /\ e.committed[m] \in T
      BY <1>3, <1>5, <1>8, <1>9
    <2>2. \A x \in {0} \cup T : x <= e.committed[m]
      BY <1>8, <1>9, <2>1
    <2>3. PICK U : U = {0} \cup T
      OBVIOUS
    <2>4. Max(U) \in U /\ \A x \in U : x <= Max(U)
      <3>1. U # {} /\ U \subseteq Nat /\ \A x \in U : x <= e.committed[m]
        BY <2>1, <2>2, <2>3
      <3> QED
        BY ONLY <2>1, <3>1, NatMax
    <2>5. Max(U) <= e.committed[m] /\ e.committed[m] <= Max(U) /\ Max(U) \in Nat
      BY <2>1, <2>2, <2>3, <2>4
    <2> QED
      BY <2>1, <2>3, <2>5
  <1>11. FinalPot(e) = e.pot - Max({0, e.committed[w] - e.committed[m]})
    <2>1. FinalPot(e) = LET v == CHOOSE p \in Live(e) : TRUE
                            matched == Max({0} \cup {e.committed[p] : p \in e.players \ {v}})
                        IN e.pot - Max({0, e.committed[v] - matched})
      BY DEF FinalPot
    <2>2. (CHOOSE p \in Live(e) : TRUE) = w
      BY <1>2
    <2> QED
      BY <1>5, <1>8, <1>10, <2>1, <2>2
  <1>12. PICK d \in Int : d = e.committed[w] - e.committed[m]
    BY <1>3, <1>4, <1>5, <1>9
  <1>13. Max({0, d}) = IF 0 >= d THEN 0 ELSE d
    BY MaxOf
  <1>14. e.pot \in Int
    BY DEF EngineType
  <1>15. CASE d <= 0
    <2>1. \E q \in S : e.total[q] >= e.total[w]
      <3>1. CASE e.committed[m] > 0
        <4>1. BehindOf(e, m) >= BehindOf(e, w)
          BY <1>4, <1>5, <1>6, <1>9, <3>1 DEF BehindAll
        <4>2. m \in e.players
          BY <1>5, <1>9
        <4> QED
          BY <1>3, <1>4, <1>9, <1>12, <1>15, <4>1, <4>2
      <3>2. CASE ~(e.committed[m] > 0)
        <4>1. near \in e.players /\ m \in e.players
          BY <1>5, <1>7, <1>9
        <4> QED
          BY <1>3, <1>4, <1>7, <1>9, <1>12, <1>15, <3>2, <4>1
      <3> QED
        BY <3>1, <3>2
    <2>2. Unmatched(e) = 0
      BY <1>2, <1>5, <2>1, NoneUnmatched
    <2> QED
      BY <1>11, <1>12, <1>13, <1>14, <1>15, <2>2 DEF Summed
  <1>16. CASE d > 0
    <2>1. e.committed[w] > 0
      BY <1>3, <1>4, <1>5, <1>9, <1>12, <1>16
    <2>2. \A r \in e.players : BehindOf(e, w) >= BehindOf(e, r)
      BY <1>4, <1>6, <2>1 DEF BehindAll
    <2>3. PICK q \in S : BehindOf(e, q) >= BehindOf(e, w) /\ e.committed[q] = e.committed[m]
      <3>1. CASE e.committed[m] > 0
        BY <1>4, <1>5, <1>6, <1>9, <3>1 DEF BehindAll
      <3>2. CASE ~(e.committed[m] > 0)
        <4>1. near \in e.players /\ m \in e.players /\ e.committed[near] <= e.committed[m]
          BY <1>5, <1>7, <1>9
        <4>2. e.committed[near] = e.committed[m]
          BY <1>3, <3>2, <4>1
        <4> QED
          BY <1>7, <4>2
      <3> QED
        BY <3>1, <3>2
    <2>4. q \in e.players /\ BehindOf(e, q) = BehindOf(e, w)
      <3>1. q \in e.players
        BY <1>5, <2>3
      <3> QED
        BY <1>3, <1>4, <2>2, <2>3, <3>1
    <2>5. \A r \in S : e.total[r] <= e.total[q]
      <3> TAKE r \in S
      <3>1. r \in e.players /\ e.committed[r] <= e.committed[q] /\ BehindOf(e, r) <= BehindOf(e, q)
        BY <1>3, <1>4, <1>5, <1>9, <2>2, <2>3, <2>4
      <3> QED
        BY <1>3, <2>4, <3>1
    <2>6. e.total[w] - e.total[q] = d /\ e.total[q] < e.total[w]
      BY <1>3, <1>4, <1>12, <1>16, <2>3, <2>4
    <2>7. Unmatched(e) = e.total[w] - e.total[q]
      BY <1>4, <1>5, <2>3, <2>5, <2>6, OneUnmatched
    <2> QED
      BY <1>11, <1>12, <1>13, <1>16, <2>6, <2>7 DEF Summed
  <1> QED
    BY <1>12, <1>15, <1>16

\* A hand that two players or more take to the end: all of the pot was contested.
LEMMA ShowdownSummed ==
  ASSUME NEW e, e \in EngineType, Cardinality(Live(e)) # 1,
         \A p \in Live(e) : \E q \in e.players \ {p} : e.total[q] >= e.total[p]
  PROVE  Summed(e)
  <1>1. Unmatched(e) = 0
    BY NoneUnmatched
  <1>2. FinalPot(e) = e.pot
    BY DEF FinalPot
  <1>3. e.pot \in Int
    BY DEF EngineType
  <1> QED
    BY <1>1, <1>2, <1>3 DEF Summed

-----------------------------------------------------------------------------
(* The end of a betting round. *)

\* A round may be closed: whoever still has chips has put in as much as any live player, and
\* no live player more than everybody else; two who can act have put in as much as anybody.
Matched(e) ==
  /\ \A p, q \in Live(e) : p \notin e.allIn => e.total[p] >= e.total[q]
  /\ Cardinality(Live(e)) # 1 /\ Staked(e)
  /\ \A p \in Live(e) : \E q \in e.players \ {p} : e.total[q] >= e.total[p]
  /\ Tame => \A p, q \in CanAct(e), r \in e.players : p # q => e.total[p] >= e.total[r]
\* Such an engine, of a hand that is not over.
Closed(e, t) == e \in EngineType /\ Chips(e, t) /\ Matched(e) /\ ~e.done

\* What nobody matched goes back to the player who put it in.
LEMMA RefundFits ==
  ASSUME NEW t \in TableType, NEW e, e \in EngineType, Chips(e, t), NEW p, p \in e.players,
         NEW excess, excess \in Nat, excess > 0, excess <= e.committed[p], NEW f, f = Returned(e, p, excess)
  PROVE  /\ f \in EngineType /\ Chips(f, t) /\ Live(f) = Live(e) /\ f.allIn = e.allIn \ {p} /\ f.done = e.done
         /\ \A q \in Seats : f.total[q] = IF q = p THEN e.total[p] - excess ELSE e.total[q]
  <1>1. /\ p \in Seats /\ e.stack[p] \in Nat /\ e.committed[p] \in Nat /\ e.total[p] \in Nat
        /\ e.committed[p] <= e.total[p]
    BY DEF EngineType, Chips
  <1>2. PICK S, C, T : /\ S = [e.stack EXCEPT ![p] = e.stack[p] + excess]
                       /\ C = [e.committed EXCEPT ![p] = e.committed[p] - excess]
                       /\ T = [e.total EXCEPT ![p] = e.total[p] - excess]
    OBVIOUS
  <1>3. PICK A : A = e.allIn \ {p}
    OBVIOUS
  <1>4. f = [e EXCEPT !.stack = S, !.committed = C, !.total = T, !.allIn = A, !.pot = e.pot - excess]
    <2>1. ~(excess <= 0) /\ ~(e.stack[p] + excess <= 0)
      BY <1>1
    <2>2. f = [e EXCEPT !.committed[p] = e.committed[p] - excess, !.stack[p] = e.stack[p] + excess,
                        !.total[p] = e.total[p] - excess, !.allIn = A, !.pot = e.pot - excess]
      BY <1>3, <2>1 DEF Returned
    <2> QED
      BY <1>2, <2>2
  <1>5. /\ S \in [Seats -> Nat] /\ C \in [Seats -> Nat] /\ T \in [Seats -> Nat]
        /\ A \in SUBSET Seats /\ e.pot - excess \in Int
    <2>1. /\ e.stack \in [Seats -> Nat] /\ e.committed \in [Seats -> Nat] /\ e.total \in [Seats -> Nat]
          /\ e.allIn \in SUBSET Seats /\ e.pot \in Int
      BY DEF EngineType
    <2>2. e.stack[p] + excess \in Nat /\ e.committed[p] - excess \in Nat /\ e.total[p] - excess \in Nat
      BY <1>1
    <2>3. S \in [Seats -> Nat]
      BY ONLY <1>1, <1>2, <2>1, <2>2
    <2>4. C \in [Seats -> Nat]
      BY ONLY <1>1, <1>2, <2>1, <2>2
    <2>5. T \in [Seats -> Nat]
      BY ONLY <1>1, <1>2, <2>1, <2>2
    <2>6. A \in SUBSET Seats /\ e.pot - excess \in Int
      BY <1>3, <2>1
    <2> QED
      BY <2>3, <2>4, <2>5, <2>6
  <1>6. f \in EngineType
    BY <1>4, <1>5, ZenonT(60) DEF EngineType
  <1>7. /\ f.stack = S /\ f.committed = C /\ f.total = T /\ f.allIn = A /\ f.pot = e.pot - excess
        /\ f.players = e.players /\ f.ante = e.ante /\ f.foldedStreet = e.foldedStreet
        /\ f.boards = e.boards /\ f.winners = e.winners /\ f.winners2 = e.winners2 /\ f.done = e.done
    BY <1>4 DEF EngineType
  <1>8. \A q \in Seats : /\ f.stack[q] = IF q = p THEN e.stack[p] + excess ELSE e.stack[q]
                         /\ f.committed[q] = IF q = p THEN e.committed[p] - excess ELSE e.committed[q]
                         /\ f.total[q] = IF q = p THEN e.total[p] - excess ELSE e.total[q]
    <2>1. /\ e.stack \in [Seats -> Nat] /\ e.committed \in [Seats -> Nat] /\ e.total \in [Seats -> Nat]
      BY DEF EngineType
    <2> QED
      BY <1>1, <1>2, <1>7, <2>1
  <1>9. Totalled(f.total, e.players) = Totalled(e.total, e.players) - excess /\ Totalled(e.total, e.players) \in Int
    <2>1. IsFiniteSet(e.players) /\ e.players \subseteq Seats
      BY SeatNumbers, FS_Subset DEF EngineType
    <2>2. e.total \in [Seats -> Nat]
      BY DEF EngineType
    <2>3. PICK d \in Int : d = 0 - excess
      OBVIOUS
    <2>4. \A x \in e.players : e.total[x] \in Int /\ f.total[x] = IF x = p THEN e.total[x] + d ELSE e.total[x]
      BY <1>8, <2>1, <2>2, <2>3
    <2>5. PICK P, F, G : P = e.players /\ F = e.total /\ G = f.total
      OBVIOUS
    <2>6. /\ IsFiniteSet(P) /\ p \in P
          /\ \A x \in P : F[x] \in Int /\ G[x] = IF x = p THEN F[x] + d ELSE F[x]
      BY ONLY <2>1, <2>4, <2>5, p \in e.players
    <2>7. Totalled(F, P) \in Int /\ Totalled(G, P) = Totalled(F, P) + d
      BY ONLY <2>6, TotalChange, d \in Int
    <2>8. PICK n \in Int : n = Totalled(F, P)
      BY <2>7
    <2>9. Totalled(G, P) = n - excess
      BY <2>3, <2>7, <2>8
    <2> QED
      BY <2>5, <2>8, <2>9
  <1>10. Chips(f, t)
    <2> USE <1>7
    <2>1. ASSUME NEW q \in Seats PROVE f.stack[q] + f.total[q] = t.stack[q] /\ f.committed[q] <= f.total[q]
      <3>1. e.stack[q] + e.total[q] = t.stack[q] /\ e.committed[q] <= e.total[q]
        BY DEF Chips
      <3>2. e.stack[q] \in Nat /\ e.total[q] \in Nat /\ t.stack[q] \in Nat /\ e.committed[q] \in Nat
        BY DEF EngineType, TableType
      <3> QED
        BY <1>1, <1>8, <3>1, <3>2
    <2>2. ASSUME NEW q \in e.players PROVE q \in A <=> f.stack[q] = 0
      <3>1. q \in Seats /\ (q \in e.allIn <=> e.stack[q] = 0)
        BY DEF EngineType, Chips
      <3> QED
        BY <1>1, <1>3, <1>8, <3>1
    <2>3. f.pot = f.ante + Totalled(f.total, f.players)
      <3>1. e.pot = e.ante + Totalled(e.total, e.players) /\ e.ante \in Int
        BY DEF Chips, EngineType
      <3> QED
        BY <1>9, <3>1
    <2>4. e.players = t.active /\ e.ante = t.ante /\ e.boards = t.boards /\ e.winners \subseteq e.players /\ e.winners2 \subseteq e.players
      BY DEF Chips
    <2> QED
      BY <2>1, <2>2, <2>3, <2>4 DEF Chips
  <1>11. Live(f) = Live(e)
    BY <1>7 DEF Live
  <1> QED
    BY <1>3, <1>6, <1>7, <1>8, <1>10, <1>11

\* Everybody has answered, and what was not called has gone back.
LEMMA ReturnFits ==
  ASSUME NEW t \in TableType, NEW e, e \in EngineType, Chips(e, t), Round(e), ~e.done,
         CanAct(e) \subseteq e.acted, Cardinality(Live(e)) # 1
  PROVE  Closed(ReturnUncalled(e), t)
  <1>1. PICK L : L = Live(e) /\ L \in SUBSET Seats /\ L \subseteq e.players
    BY LiveIn
  <1>2. \A q \in Seats : e.committed[q] \in Nat /\ e.total[q] \in Nat /\ e.committed[q] <= e.total[q]
    BY DEF EngineType, Chips
  <1>3. e.currentBet \in Nat
    BY DEF EngineType
  <1>4. \A p \in L : p \notin e.allIn => e.committed[p] >= e.currentBet
    BY <1>1 DEF Round, RoundCore, CanAct
  <1>5. \A p, q \in L : p # q => e.committed[p] <= e.currentBet \/ e.committed[q] <= e.currentBet
    BY <1>1 DEF Round, RoundCore, OneOver
  <1>6. \A p, q \in L : p \notin e.allIn \/ e.committed[p] > 0 => BehindOf(e, p) >= BehindOf(e, q)
    BY <1>1 DEF Round, RoundCore
  <1>7. /\ Staked(e) /\ StreetStaked(e) /\ Rivalled(e) /\ (Tame => UnderBet(e) /\ BehindAll(e))
        /\ e.players \in SUBSET Seats /\ e.players = t.active
    BY LiveIn DEF Round, RoundCore, Chips
  <1>8. ASSUME Tame, NEW p \in CanAct(e), NEW r \in e.players
        PROVE  e.committed[p] >= e.committed[r] /\ e.total[p] >= e.total[r]
    <2>1. p \in Seats /\ r \in Seats /\ p \in e.players
      BY <1>7, <1>8, LiveIn DEF CanAct
    <2>2. e.committed[p] >= e.currentBet /\ e.committed[r] <= e.currentBet
      BY <1>7, <1>8 DEF Round, RoundCore, UnderBet
    <2>3. e.total[p] - e.committed[p] >= e.total[r] - e.committed[r]
      BY <1>7, <1>8, <2>1 DEF BehindAll, BehindOf
    <2> QED
      BY <1>2, <1>3, <2>1, <2>2, <2>3
  <1>9. PICK top : top = {p \in L : \A q \in L : e.committed[p] >= e.committed[q]}
    OBVIOUS
  <1>10. ReturnUncalled(e) = IF Cardinality(L) < 2 \/ Cardinality(top) # 1 THEN e
                             ELSE ReturnTo(e, CHOOSE p \in top : TRUE)
    BY <1>1, <1>9 DEF ReturnUncalled
  <1>11. CASE Cardinality(L) < 2
    <2>1. L = {}
      <3>1. Cardinality(L) \in Nat /\ IsFiniteSet(L)
        BY <1>1, SeatsFinite
      <3>2. Cardinality(L) = 0
        BY <1>1, <1>11, <3>1
      <3> QED
        BY <3>1, <3>2, FS_EmptySet
    <2>2. Matched(e)
      BY <1>1, <1>7, <2>1 DEF Matched, CanAct
    <2> QED
      BY <1>10, <1>11, <2>2 DEF Closed
  <1>12. CASE ~(Cardinality(L) < 2) /\ Cardinality(top) # 1
    <2>1. L # {} /\ IsFiniteSet(L)
      BY <1>1, <1>12, SeatsFinite, FS_EmptySet
    <2>2. PICK m \in L : \A x \in L : e.committed[x] <= e.committed[m]
      BY <1>1, <1>2, <2>1, MostIn
    <2>3. m \in top /\ top \in SUBSET Seats
      BY <1>1, <1>2, <1>9, <2>2
    <2>4. PICK n \in top : n # m
      BY <1>12, <2>3, SeatsFinite
    <2>5. e.committed[n] = e.committed[m] /\ n \in L
      BY <1>1, <1>2, <1>9, <2>2, <2>4
    <2>6. e.committed[m] <= e.currentBet
      BY <1>5, <2>2, <2>4, <2>5
    <2>7. ASSUME NEW p \in L, NEW q \in L, p \notin e.allIn PROVE e.total[p] >= e.total[q]
      <3>1. e.total[p] - e.committed[p] >= e.total[q] - e.committed[q]
        BY <1>6, <2>7 DEF BehindOf
      <3>2. e.committed[p] >= e.currentBet /\ e.committed[q] <= e.committed[m] /\ p \in Seats /\ q \in Seats /\ m \in Seats
        BY <1>1, <1>4, <2>2, <2>7
      <3> QED
        BY <1>2, <1>3, <2>6, <3>1, <3>2
    <2>8. ASSUME NEW p \in L PROVE \E q \in e.players \ {p} : e.total[q] >= e.total[p]
      <3>1. p \in Seats /\ m \in Seats /\ n \in Seats /\ m \in e.players /\ n \in e.players
        BY <1>1, <2>2, <2>5
      <3>2. CASE e.committed[p] = 0
        <4>1. PICK q \in e.players \ {p} : BehindOf(e, q) >= BehindOf(e, p)
          BY <1>1, <1>7 DEF Rivalled
        <4>2. q \in Seats /\ e.total[q] - e.committed[q] >= e.total[p] - e.committed[p]
          BY <1>7, <4>1 DEF BehindOf
        <4>3. e.total[q] >= e.total[p]
          BY <1>2, <3>1, <3>2, <4>2
        <4> QED
          BY <4>1, <4>3
      <3>3. CASE e.committed[p] > 0
        <4>1. PICK q \in {m, n} : q # p
          BY <2>4
        <4>2. q \in L /\ q \in Seats /\ q \in e.players /\ e.committed[q] = e.committed[m]
          BY <2>2, <2>5, <3>1, <4>1
        <4>3. e.committed[q] >= e.committed[p] /\ e.committed[q] > 0
          BY <1>2, <2>2, <3>1, <3>3, <4>2
        <4>4. e.total[q] - e.committed[q] >= e.total[p] - e.committed[p]
          BY <1>6, <4>2, <4>3 DEF BehindOf
        <4>5. e.total[q] >= e.total[p]
          BY <1>2, <3>1, <4>2, <4>3, <4>4
        <4> QED
          BY <4>1, <4>2, <4>5
      <3> QED
        BY <1>2, <3>1, <3>2, <3>3
    <2>9. Matched(e)
      BY <1>1, <1>7, <1>8, <2>7, <2>8 DEF Matched
    <2> QED
      BY <1>10, <1>12, <2>9 DEF Closed
  <1>13. CASE ~(Cardinality(L) < 2) /\ Cardinality(top) = 1
    <2>1. PICK m : top = {m} /\ m = CHOOSE p \in top : TRUE
      <3>1. top \in SUBSET Seats
        BY <1>1, <1>9
      <3>2. PICK m : top = {m}
        BY <1>13, <3>1, SeatsFinite
      <3> QED
        BY <3>2
    <2>2. m \in L /\ m \in Seats /\ \A q \in L : q # m => e.committed[q] < e.committed[m]
      <3>1. m \in L /\ m \in Seats /\ \A q \in L : e.committed[m] >= e.committed[q]
        BY <1>1, <1>9, <2>1
      <3>2. ASSUME NEW q \in L, q # m PROVE e.committed[q] < e.committed[m]
        <4>1. q \notin top /\ q \in Seats
          BY <1>1, <2>1, <3>2
        <4>2. PICK r \in L : ~(e.committed[q] >= e.committed[r])
          BY <1>9, <4>1
        <4>3. r \in Seats /\ e.committed[r] <= e.committed[m]
          BY <1>1, <3>1
        <4> QED
          BY <1>2, <3>1, <4>1, <4>2, <4>3
      <3> QED
        BY <3>1, <3>2
    <2>3. PICK rest : rest = {e.committed[q] : q \in L \ {m}}
      OBVIOUS
    <2>4. PICK most \in Nat : /\ most = Max({0} \cup rest) /\ most \in {0} \cup rest
                              /\ \A x \in {0} \cup rest : x <= most
      <3>1. {0} \cup rest \subseteq Nat /\ \A x \in {0} \cup rest : x <= e.committed[m]
        BY <1>1, <1>2, <2>2, <2>3
      <3> QED
        BY <1>2, <2>2, <3>1, NatMax
    <2>5. \A q \in L : q # m => e.committed[q] <= most
      BY <2>3, <2>4
    <2>6. L \ {m} # {}
      <3>1. L = {m} => Cardinality(L) = 1
        BY <1>1, SeatsFinite
      <3>2. L # {m}
        BY <1>13, <3>1
      <3> QED
        BY <1>1, <2>2, <3>2, SeatsFinite
    <2>7. most < e.committed[m]
      <3>1. CASE most = 0
        BY <1>1, <1>2, <2>2, <2>6, <3>1
      <3>2. CASE most \in rest
        BY <2>2, <2>3, <3>2
      <3> QED
        BY <2>4, <3>1, <3>2
    <2>8. PICK excess \in Nat : excess = e.committed[m] - most /\ excess > 0 /\ excess <= e.committed[m]
      BY <1>2, <2>2, <2>7
    <2>9. PICK f : f = Returned(e, m, excess)
      OBVIOUS
    <2>10. ReturnUncalled(e) = f
      <3>1. ReturnUncalled(e) = ReturnTo(e, m)
        BY <1>10, <1>13, <2>1
      <3> QED
        BY <1>1, <2>3, <2>4, <2>8, <2>9, <3>1 DEF ReturnTo
    <2>11. m \in e.players
      BY <1>1, <2>2
    <2>12. /\ f \in EngineType /\ Chips(f, t) /\ Live(f) = Live(e) /\ f.allIn = e.allIn \ {m} /\ f.done = e.done
           /\ \A q \in Seats : f.total[q] = IF q = m THEN e.total[m] - excess ELSE e.total[q]
      BY ONLY <2>8, <2>9, <2>11, RefundFits, t \in TableType, e \in EngineType, Chips(e, t)
    <2>13. ASSUME NEW p \in L, NEW q \in L, p \notin f.allIn PROVE f.total[p] >= f.total[q]
      <3>1. p \in Seats /\ q \in Seats
        BY <1>1
      <3>2. CASE p = m
        <4>1. e.committed[m] > 0
          BY <1>2, <2>2, <2>7
        <4>2. e.total[m] - e.committed[m] >= e.total[q] - e.committed[q]
          BY <1>6, <2>2, <4>1 DEF BehindOf
        <4>3. CASE q = m
          BY <1>2, <2>8, <2>12, <3>1, <3>2, <4>3
        <4>4. CASE q # m
          <5>1. f.total[p] = e.total[m] - excess /\ f.total[q] = e.total[q] /\ e.committed[q] <= most
            BY <2>5, <2>12, <3>1, <3>2, <4>4
          <5> QED
            BY <1>2, <2>2, <2>8, <3>1, <4>2, <5>1
        <4> QED
          BY <4>3, <4>4
      <3>3. CASE p # m
        <4>1. p \notin e.allIn
          BY <2>12, <2>13, <3>3
        <4>2. e.committed[p] >= e.currentBet
          BY <1>4, <4>1
        <4>3. f.total[p] = e.total[p]
          BY <2>12, <3>1, <3>3
        <4>4. \A r \in L : e.total[p] - e.committed[p] >= e.total[r] - e.committed[r]
          BY <1>6, <4>1 DEF BehindOf
        <4>5. \A r \in L : r # m => e.committed[r] <= e.committed[p]
          <5> TAKE r \in L
          <5> HAVE r # m
          <5>1. e.committed[m] <= e.currentBet \/ e.committed[r] <= e.currentBet
            BY <1>5, <2>2
          <5>2. r \in Seats /\ e.committed[r] < e.committed[m]
            BY <1>1, <2>2
          <5> QED
            BY <1>2, <1>3, <2>2, <3>1, <4>2, <5>1, <5>2
        <4>6. CASE q = m
          <5>1. most <= e.committed[p]
            <6>1. CASE most = 0
              BY <1>2, <3>1, <6>1
            <6>2. CASE most \in rest
              BY <2>3, <4>5, <6>2
            <6> QED
              BY <2>4, <6>1, <6>2
          <5>2. f.total[q] = e.total[m] - excess
            BY <2>12, <3>1, <4>6
          <5> QED
            BY <1>2, <2>2, <2>8, <3>1, <4>3, <4>4, <5>1, <5>2
        <4>7. CASE q # m
          <5>1. f.total[q] = e.total[q] /\ e.committed[q] <= e.committed[p] /\ e.total[p] - e.committed[p] >= e.total[q] - e.committed[q]
            BY <2>12, <3>1, <4>4, <4>5, <4>7
          <5> QED
            BY <1>2, <3>1, <4>3, <5>1
        <4> QED
          BY <4>6, <4>7
      <3> QED
        BY <3>2, <3>3
    <2>14. /\ f.players = e.players /\ e.committed[m] > 0 /\ f.total[m] = e.total[m] - e.committed[m] + most
           /\ \A q \in Seats : q # m => f.total[q] = e.total[q]
           /\ \A q \in Seats : f.total[q] \in Nat
      BY <1>2, <1>7, <2>2, <2>7, <2>8, <2>12 DEF Chips, EngineType
    <2>15. ASSUME NEW p \in L PROVE \E q \in f.players \ {p} : f.total[q] >= f.total[p]
      <3>1. CASE p = m
        <4>1. PICK q \in e.players \ {m} : e.total[q] >= e.total[m] - e.committed[m] + most
          <5>1. CASE most = 0
            <6>1. PICK q \in e.players \ {m} : BehindOf(e, q) >= BehindOf(e, m)
              BY <1>1, <1>7, <2>2 DEF Rivalled
            <6>2. q \in Seats /\ e.total[q] - e.committed[q] >= e.total[m] - e.committed[m]
              BY <1>7, <6>1 DEF BehindOf
            <6>3. e.total[q] >= e.total[m] - e.committed[m] + most
              BY <1>2, <2>2, <5>1, <6>2
            <6> QED
              BY <6>1, <6>3
          <5>2. CASE most # 0
            <6>1. PICK q \in L \ {m} : e.committed[q] = most
              BY <2>3, <2>4, <5>2
            <6>2. q \in Seats /\ q \in e.players /\ e.committed[q] > 0
              BY <1>1, <5>2, <6>1
            <6>3. e.total[q] - e.committed[q] >= e.total[m] - e.committed[m]
              BY <1>6, <2>2, <6>1, <6>2 DEF BehindOf
            <6>4. e.total[q] >= e.total[m] - e.committed[m] + most
              BY <1>2, <2>2, <6>1, <6>2, <6>3
            <6> QED
              BY <6>1, <6>2, <6>4
          <5> QED
            BY <5>1, <5>2
        <4>2. q \in Seats /\ f.total[q] = e.total[q]
          BY <1>7, <2>14, <4>1
        <4>3. f.total[q] >= f.total[p]
          BY <2>14, <3>1, <4>1, <4>2
        <4> QED
          BY <2>14, <3>1, <4>1, <4>3
      <3>2. CASE p # m
        <4>1. p \in Seats /\ f.total[p] = e.total[p] /\ e.committed[p] <= most
          BY <1>1, <2>5, <2>14, <3>2
        <4>2. e.total[m] - e.committed[m] >= e.total[p] - e.committed[p]
          BY <1>6, <2>2, <2>14 DEF BehindOf
        <4>3. f.total[m] >= f.total[p]
          BY <1>2, <2>2, <2>14, <4>1, <4>2
        <4> QED
          BY <2>11, <2>14, <3>2, <4>3
      <3> QED
        BY <3>1, <3>2
    <2>16. Staked(f)
      <3>1. ASSUME NEW p \in e.players, BehindOf(e, p) > 0 PROVE f.total[p] > 0
        <4>1. p \in Seats /\ e.total[p] - e.committed[p] > 0
          BY <1>7, <3>1 DEF BehindOf
        <4>2. CASE p = m
          BY <1>2, <2>2, <2>14, <4>1, <4>2
        <4>3. CASE p # m
          BY <1>2, <2>14, <4>1, <4>3
        <4> QED
          BY <4>2, <4>3
      <3>2. ASSUME e.currentBet > 0 PROVE \E q \in e.players : f.total[q] > 0
        <4>1. PICK q \in L : q # m
          BY <2>6
        <4>2. q \in Seats /\ q \in e.players /\ q \in t.active /\ f.total[q] = e.total[q]
          BY <1>1, <1>7, <2>14, <4>1
        <4>3. CASE q \in e.allIn
          <5>1. e.stack[q] = 0 /\ e.stack[q] + e.total[q] = t.stack[q] /\ t.stack[q] > 0
            BY <4>2, <4>3, TableFits DEF Chips
          <5> QED
            BY <1>2, <4>2, <5>1
        <4>4. CASE q \notin e.allIn
          <5>1. e.committed[q] >= e.currentBet
            BY <1>4, <4>1, <4>4
          <5>2. e.total[q] > 0
            BY <1>2, <1>3, <3>2, <4>2, <5>1
          <5> QED
            BY <4>2, <5>2
        <4> QED
          BY <4>3, <4>4
      <3> QED
        BY <1>7, <2>14, <3>1, <3>2 DEF Staked, StreetStaked
    <2>17. ASSUME Tame, NEW p \in CanAct(f), NEW q \in CanAct(f), p # q PROVE FALSE
      <3>1. PICK x \in CanAct(f) : x # m
        BY <2>17
      <3>2. x \in CanAct(e) /\ x \in L
        BY <1>1, <2>12, <3>1 DEF CanAct
      <3>3. e.committed[x] >= e.committed[m]
        BY <1>8, <2>11, <2>17, <3>2
      <3>4. e.committed[x] < e.committed[m] /\ x \in Seats
        BY <1>1, <2>2, <3>1, <3>2
      <3> QED
        BY <1>2, <2>2, <3>3, <3>4
    <2>18. Matched(f)
      <3>1. Cardinality(Live(f)) # 1
        BY <2>12
      <3>2. Tame => \A p, q \in CanAct(f), r \in f.players : p # q => f.total[p] >= f.total[r]
        BY <2>17
      <3> QED
        BY <1>1, <2>12, <2>13, <2>15, <2>16, <3>1, <3>2 DEF Matched
    <2> QED
      BY <2>10, <2>12, <2>18 DEF Closed
  <1> QED
    BY <1>11, <1>12, <1>13

-----------------------------------------------------------------------------
(* The next street. *)

\* A street that starts: no bets, nobody has acted.
Cleared(e, t) ==
  /\ Closed(e, t) /\ e.currentBet = 0 /\ e.minRaise = BigBlind /\ e.acted = {}
  /\ \A p \in Seats : e.committed[p] = 0

\* It is a betting round but for who may put in chips, and all of the pot is contested.
LEMMA ClearedRound ==
  ASSUME NEW t, NEW e, Cleared(e, t)
  PROVE  RoundCore(e) /\ Summed(e)
  <1>1. /\ e \in EngineType /\ Chips(e, t) /\ Matched(e) /\ e.currentBet = 0 /\ e.minRaise = BigBlind /\ e.acted = {}
        /\ \A p \in Seats : e.committed[p] = 0 /\ e.total[p] \in Nat
    BY DEF Cleared, Closed, EngineType
  <1>2. Live(e) \in SUBSET Seats /\ e.players \in SUBSET Seats
    BY <1>1, LiveIn
  <1>3. \A p \in Seats : e.committed[p] = 0 /\ BehindOf(e, p) = e.total[p]
    BY <1>1 DEF BehindOf
  <1>4. \A p, q \in Live(e) : p \notin e.allIn \/ e.committed[p] > 0 => BehindOf(e, p) >= BehindOf(e, q)
    BY <1>1, <1>2, <1>3 DEF Matched
  <1>5. Staked(e) /\ StreetStaked(e)
    BY <1>1, <1>2, <1>3 DEF Matched, Staked, StreetStaked
  <1>6. \A p \in Live(e) : \E q \in e.players \ {p} : e.total[q] >= e.total[p]
    BY <1>1 DEF Matched
  <1>7. Rivalled(e)
    BY <1>2, <1>3, <1>6 DEF Rivalled
  <1>8. UnderBet(e) /\ OneOver(e)
    BY <1>1, <1>2, <1>3 DEF UnderBet, OneOver
  <1>9. Summed(e)
    BY <1>1, <1>6, ShowdownSummed DEF Matched
  <1> QED
    BY <1>1, <1>4, <1>5, <1>7, <1>8, <1>9, SeatNumbers DEF RoundCore

\* It is one if two players can act.
LEMMA ClearedWaits ==
  ASSUME NEW t, NEW e, Cleared(e, t), Cardinality(CanAct(e)) >= 2
  PROVE  Round(e)
  <1>1. /\ e \in EngineType /\ Matched(e) /\ ~e.done
        /\ \A p \in Seats : e.committed[p] = 0 /\ e.total[p] \in Nat
    BY DEF Cleared, Closed, EngineType
  <1>2. CanAct(e) \in SUBSET Seats /\ e.players \in SUBSET Seats
    BY <1>1, LiveIn
  <1>3. \A p \in Seats : e.committed[p] = 0 /\ BehindOf(e, p) = e.total[p]
    BY <1>1 DEF BehindOf
  <1>4. ASSUME Tame, NEW p \in CanAct(e), NEW r \in e.players PROVE e.total[p] >= e.total[r]
    <2>1. PICK q \in CanAct(e) : q # p
      <3>1. CanAct(e) # {p}
        BY FS_Singleton
      <3> QED
        BY <1>2, <1>4, <3>1, SeatsFinite
    <2> QED
      BY <1>1, <1>4, <2>1 DEF Matched
  <1>5. ASSUME Tame PROVE BehindAll(e)
    <2>1. ASSUME NEW p \in e.players, e.committed[p] > 0 \/ p \in CanAct(e), NEW q \in e.players
          PROVE  BehindOf(e, p) >= BehindOf(e, q)
      <3>1. p \in Seats /\ q \in Seats /\ p \in CanAct(e)
        BY <1>2, <1>3, <2>1
      <3> QED
        BY <1>3, <1>4, <1>5, <2>1, <3>1
    <2> QED
      BY <2>1 DEF BehindAll
  <1> QED
    BY <1>1, <1>5, ClearedRound DEF Round

\* The bets of a street are collected; nobody's chips change.
LEMMA CollectedFits ==
  ASSUME NEW t \in TableType, NEW e, Closed(e, t)
  PROVE  Cleared(Collected(e), t) /\ Collected(e).street = e.street
  <1>1. e \in EngineType /\ Chips(e, t) /\ Matched(e) /\ ~e.done
    BY DEF Closed
  <1>2. PICK f, s, C : /\ f = Collected(e) /\ C = [p \in Seats |-> 0]
                       /\ f = [e EXCEPT !.allInStreet = s, !.committed = C, !.currentBet = 0,
                                        !.minRaise = BigBlind, !.acted = {}]
                       /\ (s = e.street \/ s = e.allInStreet)
    BY DEF Collected
  <1>3. s \in NoStreet .. River /\ C \in [Seats -> Nat] /\ BigBlind \in Nat
    <2>1. e.street \in Preflop .. River /\ e.allInStreet \in NoStreet .. River
      BY <1>1 DEF EngineType
    <2>2. s \in NoStreet .. River
      BY <1>2, <2>1 DEF Preflop, River, NoStreet
    <2> QED
      BY <1>2, <2>2, SeatNumbers
  <1>4. f \in EngineType
    <2>1. /\ e \in EngineType
          /\ f = [e EXCEPT !.allInStreet = s, !.committed = C, !.currentBet = 0, !.minRaise = BigBlind, !.acted = {}]
      BY <1>1, <1>2
    <2> QED
      BY ONLY <1>3, <2>1 DEF EngineType
  <1>5. /\ f.committed = C /\ f.currentBet = 0 /\ f.minRaise = BigBlind /\ f.acted = {}
        /\ f.players = e.players /\ f.button = e.button /\ f.stack = e.stack
        /\ f.total = e.total /\ f.toAct = e.toAct
        /\ f.allIn = e.allIn /\ f.street = e.street /\ f.foldedStreet = e.foldedStreet
        /\ f.done = e.done /\ f.pot = e.pot /\ f.ante = e.ante /\ f.boards = e.boards
        /\ f.winners = e.winners /\ f.winners2 = e.winners2
    BY <1>1, <1>2 DEF EngineType
  <1>6. \A p \in Seats : f.committed[p] = 0
    BY <1>2, <1>5
  <1>7. Live(f) = Live(e)
    BY <1>5 DEF Live
  <1>8. Chips(f, t)
    <2>1. \A p \in Seats : f.committed[p] <= f.total[p]
      <3>1. \A p \in Seats : e.total[p] \in Nat
        BY <1>1 DEF EngineType
      <3> QED
        BY <1>5, <1>6, <3>1
    <2> QED
      BY <1>1, <1>5, <2>1 DEF Chips
  <1>9. Matched(f)
    BY <1>1, <1>5, <1>7 DEF Matched, Staked, CanAct
  <1> QED
    BY <1>1, <1>2, <1>4, <1>5, <1>6, <1>8, <1>9 DEF Cleared, Closed

\* The street is no chip.
LEMMA StreetFits ==
  ASSUME NEW t \in TableType, NEW e, Cleared(e, t), NEW s \in Preflop .. River
  PROVE  Cleared([e EXCEPT !.street = s], t) /\ [e EXCEPT !.street = s].street = s
  <1>1. e \in EngineType /\ Chips(e, t) /\ Matched(e) /\ ~e.done
    BY DEF Cleared, Closed
  <1>2. PICK f : f = [e EXCEPT !.street = s]
    OBVIOUS
  <1>3. f \in EngineType
    BY <1>1, <1>2 DEF EngineType
  <1>4. /\ f.committed = e.committed /\ f.currentBet = e.currentBet /\ f.minRaise = e.minRaise /\ f.acted = e.acted
        /\ f.players = e.players /\ f.button = e.button /\ f.stack = e.stack
        /\ f.total = e.total /\ f.toAct = e.toAct
        /\ f.allIn = e.allIn /\ f.street = s /\ f.foldedStreet = e.foldedStreet
        /\ f.done = e.done /\ f.pot = e.pot /\ f.ante = e.ante /\ f.boards = e.boards
        /\ f.winners = e.winners /\ f.winners2 = e.winners2
    BY <1>1, <1>2 DEF EngineType
  <1>5. Live(f) = Live(e)
    BY <1>4 DEF Live
  <1>6. Chips(f, t) /\ Matched(f)
    BY <1>1, <1>4, <1>5 DEF Chips, Matched, Staked, CanAct
  <1> QED
    BY <1>1, <1>2, <1>3, <1>4, <1>6 DEF Cleared, Closed

\* The first to act on a new street, if anybody can.
LEMMA FirstFits ==
  ASSUME NEW t \in TableType, NEW e, Cleared(e, t), Cardinality(CanAct(e)) >= 2, NEW p, p \in CanAct(e)
  PROVE  EngineInv([e EXCEPT !.toAct = p], t)
  <1>1. e \in EngineType /\ Chips(e, t) /\ Round(e) /\ p \in Seats /\ ~e.done /\ e.acted = {}
    BY ClearedWaits, LiveIn DEF Cleared, Closed
  <1>2. PICK f : f = [e EXCEPT !.toAct = p]
    OBVIOUS
  <1>3. PICK bet, raise, A : bet = e.currentBet /\ raise = e.minRaise /\ A = e.acted
    OBVIOUS
  <1>4. bet \in Nat /\ raise \in Nat /\ A \in SUBSET Seats /\ p \in Seats \cup {NoOne}
    BY <1>1, <1>3 DEF EngineType
  <1>5. f = Control(e, bet, raise, A, p)
    <2>1. e \in EngineType
      BY <1>1
    <2> QED
      BY ONLY <1>2, <1>3, <2>1 DEF EngineType, Control
  <1>6. f \in EngineType /\ Chips(f, t) /\ Steered(e, f, bet, raise, A, p)
    BY ONLY <1>1, <1>4, <1>5, ControlFits
  <1>7. /\ f.players = e.players /\ f.total = e.total /\ f.committed = e.committed /\ f.currentBet = e.currentBet
        /\ f.minRaise = e.minRaise /\ f.allIn = e.allIn /\ f.acted = {} /\ ~f.done /\ f.toAct = p
        /\ Live(f) = Live(e) /\ CanAct(f) = CanAct(e)
    BY <1>1, <1>3, <1>6 DEF Steered
  <1>8. Round(f)
    <2>1. Live(f) \subseteq Live(e) /\ \A q \in CanAct(f) : q \in f.acted => f.committed[q] >= f.currentBet
      BY <1>7
    <2> QED
      BY ONLY <1>1, <1>7, <2>1, RoundAlike
  <1>9. Waits(f)
    BY <1>7 DEF Waits
  <1> QED
    BY <1>2, <1>6, <1>8, <1>9 DEF EngineInv

\* One street forward.
StreetLed(r, n, t) ==
  \/ r.status # "runout" /\ EngineInv(r.e, t)
  \/ r.status = "runout" /\ Closed(r.e, t) /\ n <= r.e.street /\ r.e.street < River

\* After n + 1 streets the hand waits, is over, or is on street n + 1 at least (stepStreet).
LEMMA StepFits ==
  ASSUME NEW t \in TableType, NEW e, Closed(e, t), NEW n \in Nat, n <= e.street
  PROVE  StreetLed(StepStreet(e), n + 1, t)
  <1>1. PICK f : f = Collected(e)
    OBVIOUS
  <1>2. Cleared(f, t) /\ f.street = e.street
    BY <1>1, CollectedFits
  <1>3. /\ f \in EngineType /\ Chips(f, t) /\ RoundCore(f) /\ Summed(f)
    BY <1>2, ClearedRound DEF Cleared, Closed
  <1>4. e.street \in Preflop .. River
    BY <1>2, <1>3 DEF EngineType
  <1>5. CASE e.street >= River
    <2>1. StepStreet(e) = [e |-> FinishHand(f), status |-> "showdown"]
      BY <1>1, <1>5 DEF StepStreet
    <2>2. EngineInv(FinishHand(f), t)
      BY <1>3, FinishFits
    <2> QED
      BY <2>1, <2>2 DEF StreetLed
  <1>6. CASE ~(e.street >= River)
    <2>1. PICK s : s = e.street + 1
      OBVIOUS
    <2>2. s \in Preflop .. River /\ n + 1 <= s
      BY <1>4, <1>6, <2>1 DEF Preflop, River
    <2>3. PICK g : g = [f EXCEPT !.street = s]
      OBVIOUS
    <2>4. Cleared(g, t) /\ g.street = s
      BY <1>2, <2>2, <2>3, StreetFits
    <2>5. StepStreet(e) = Dealt(g)
      BY <1>1, <1>2, <1>6, <2>1, <2>3 DEF StepStreet
    <2>6. g \in EngineType /\ Chips(g, t) /\ RoundCore(g) /\ Summed(g) /\ Closed(g, t)
      BY <2>4, ClearedRound DEF Cleared, Closed
    <2>7. CASE Cardinality(CanAct(g)) >= 2
      <3>1. PICK p : p = FirstAfter(CanAct(g), g.button)
        OBVIOUS
      <3>2. p \in CanAct(g)
        <4>1. CanAct(g) \in SUBSET Seats /\ g.button \in Seats
          BY <2>6, LiveIn DEF EngineType
        <4>2. CanAct(g) # {}
          BY <2>7, FS_EmptySet
        <4> QED
          BY <3>1, <4>1, <4>2, FirstAfterIn
      <3>3. EngineInv([g EXCEPT !.toAct = p], t)
        BY <2>4, <2>7, <3>2, FirstFits
      <3>4. Dealt(g) = [e |-> [g EXCEPT !.toAct = p], status |-> "betting"]
        BY <2>7, <3>1 DEF Dealt
      <3> QED
        BY <2>5, <3>3, <3>4 DEF StreetLed
    <2>8. CASE ~(Cardinality(CanAct(g)) >= 2) /\ g.street >= River
      <3>1. Dealt(g) = [e |-> FinishHand(g), status |-> "showdown"]
        BY <2>8 DEF Dealt
      <3>2. EngineInv(FinishHand(g), t)
        BY <2>6, FinishFits
      <3> QED
        BY <2>5, <3>1, <3>2 DEF StreetLed
    <2>9. CASE ~(Cardinality(CanAct(g)) >= 2) /\ ~(g.street >= River)
      <3>1. Dealt(g) = [e |-> g, status |-> "runout"]
        BY <2>9 DEF Dealt
      <3>2. g.street < River
        BY <2>2, <2>4, <2>9 DEF Preflop, River
      <3> QED
        BY <2>2, <2>4, <2>5, <2>6, <3>1, <3>2 DEF StreetLed
    <2> QED
      BY <2>7, <2>8, <2>9
  <1> QED
    BY <1>5, <1>6

\* Streets are dealt until somebody can bet or the hand is over.
LEMMA AdvanceFits ==
  ASSUME NEW t \in TableType, NEW e, Closed(e, t)
  PROVE  EngineInv(AdvanceStreet(e), t)
  <1> DEFINE A == {x \in [e : EngineType, status : {"runout", "betting", "showdown"}] :
                     IF x.status = "runout" THEN Closed(x.e, t) ELSE EngineInv(x.e, t)}
             start == [e |-> e, status |-> "runout"]
             next(x) == IF x.status = "runout" THEN StepStreet(x.e) ELSE x
             F == [x \in (1 .. River) \X A |-> next(x[2])]
             Eq(g) == g = [n \in 0 .. River |-> IF n = 0 THEN start ELSE next(g[n - 1])]
             h == CHOOSE g : Eq(g)
             At(r, n) == StreetLed(r, n, t) \/ (n = 0 /\ r = start)
  <1>1. River \in Nat /\ River = 3
    BY DEF River
  <1>2. start \in A
    BY DEF Closed
  <1>3. \A x \in A : next(x) \in A
    <2> TAKE x \in A
    <2>1. CASE x.status # "runout"
      BY <2>1
    <2>2. CASE x.status = "runout"
      <3>1. Closed(x.e, t) /\ next(x) = StepStreet(x.e)
        BY <2>2
      <3>2. PICK r : r = StepStreet(x.e)
        OBVIOUS
      <3>3. StreetLed(r, 1, t)
        <4>1. 0 <= x.e.street /\ 0 + 1 = 1 /\ 0 \in Nat
          BY <3>1 DEF Closed, EngineType, Preflop
        <4> QED
          BY <3>1, <3>2, <4>1, StepFits
      <3>4. r = [e |-> r.e, status |-> r.status] /\ r.status \in {"runout", "betting", "showdown"}
        BY <3>2 DEF StepStreet, Dealt
      <3>5. r.e \in EngineType
        BY <3>3 DEF StreetLed, EngineInv, Closed
      <3>6. IF r.status = "runout" THEN Closed(r.e, t) ELSE EngineInv(r.e, t)
        BY <3>3 DEF StreetLed
      <3>7. r \in [e : EngineType, status : {"runout", "betting", "showdown"}]
        BY <3>4, <3>5
      <3> QED
        BY <3>1, <3>2, <3>6, <3>7
    <2> QED
      BY <2>1, <2>2
  <1>4. F \in [(1 .. River) \X A -> A]
    BY <1>3
  <1>5. AdvanceStreet(e) = h[River].e
    BY DEF AdvanceStreet
  <1> HIDE DEF A, start, next
  <1>6. PICK g : g \in [0 .. River -> A] /\ Steps(g, River, start, F)
    <2> HIDE DEF F
    <2> QED
      BY <1>1, <1>2, <1>4, StepsExist
  <1>7. Eq(g)
    <2>1. \A n \in 0 .. River : g[n] = IF n = 0 THEN start ELSE next(g[n - 1])
      <3> TAKE n \in 0 .. River
      <3>1. CASE n = 0
        BY <1>6, <3>1 DEF Steps
      <3>2. CASE n # 0
        <4>1. n \in 1 .. River /\ g[n - 1] \in A
          BY <1>1, <1>6, <3>2
        <4>2. g[n] = F[<<n, g[n - 1]>>]
          BY <1>6, <3>2 DEF Steps
        <4> QED
          BY <4>1, <4>2, <3>2
      <3> QED
        BY <3>1, <3>2
    <2> QED
      BY <1>6, <2>1
  <1>8. Eq(h)
    <2> HIDE DEF Eq
    <2> QED
      BY <1>7
  <1>9. h[0] = start /\ h[1] = next(h[0]) /\ h[2] = next(h[1]) /\ h[3] = next(h[2])
    <2> HIDE DEF h
    <2> QED
      BY <1>1, <1>8
  <1>10. ASSUME NEW n \in Nat, NEW r, NEW s, At(r, n), s = next(r) PROVE At(s, n + 1)
    <2>1. CASE StreetLed(r, n, t) /\ r.status # "runout"
      BY <1>10, <2>1 DEF StreetLed, next
    <2>2. CASE StreetLed(r, n, t) /\ r.status = "runout"
      <3>1. Closed(r.e, t) /\ n <= r.e.street /\ s = StepStreet(r.e)
        BY <1>10, <2>2 DEF StreetLed, next
      <3> QED
        BY <3>1, StepFits
    <2>3. CASE n = 0 /\ r = start
      <3>1. s = StepStreet(e)
        BY <1>10, <2>3 DEF next, start
      <3>2. n <= e.street
        BY <2>3 DEF Closed, EngineType, Preflop
      <3> QED
        BY <3>1, <3>2, StepFits
    <2> QED
      BY <1>10, <2>1, <2>2, <2>3
  <1>11. At(h[0], 0)
    BY <1>9
  <1>12. At(h[3], 3)
    <2> HIDE DEF At, h
    <2>1. At(h[1], 0 + 1)
      BY <1>9, <1>10, <1>11
    <2>2. At(h[2], 1 + 1)
      <3>1. At(h[1], 1)
        BY <2>1
      <3> QED
        BY <1>9, <1>10, <3>1
    <2>3. At(h[3], 2 + 1)
      <3>1. At(h[2], 2)
        BY <2>2
      <3> QED
        BY <1>9, <1>10, <3>1
    <2> QED
      BY <2>3
  <1>13. EngineInv(h[3].e, t)
    <2> HIDE DEF h
    <2>1. StreetLed(h[3], 3, t)
      BY <1>12
    <2>2. Closed(h[3].e, t) => h[3].e.street \in Int
      BY DEF Closed, EngineType
    <2> QED
      BY <1>1, <2>1, <2>2 DEF StreetLed
  <1> QED
    BY <1>1, <1>5, <1>13

-----------------------------------------------------------------------------
(* What an action leads to, the winners, and the layers of the pot. *)

\* What an action of the panel leads to.
LEMMA ApplyFits ==
  ASSUME NEW t \in TableType, NEW e, NEW p, Asking(e, t, p), NEW kind, NEW to \in Nat, Offered(e, kind, to)
  PROVE  EngineInv(ApplyAction(e, kind, to), t)
  <1>1. e.toAct = p /\ p \in Seats /\ ~e.done /\ p # NoOne
    BY ActorFits, SeatNumbers
  <1>2. PICK f : f = Played(e, kind, to)
    OBVIOUS
  <1>3. HasActed(f, t, p)
    BY <1>2, PlayedFits
  <1>4. f \in EngineType /\ Chips(f, t) /\ Round(f) /\ ~f.done
    BY <1>3 DEF HasActed
  <1>5. PICK next : next = FirstAfter(CanAct(f) \ f.acted, p)
    OBVIOUS
  <1>6. /\ CanAct(f) \ f.acted = {} => next = NoOne
        /\ CanAct(f) \ f.acted # {} => next \in CanAct(f) \ f.acted
    <2>1. CanAct(f) \ f.acted \in SUBSET Seats
      BY <1>4, LiveIn
    <2> QED
      BY <1>1, <1>5, <2>1, FirstAfterIn
  <1>7. SettleAction(e, kind, to) = Closing(f, next)
    BY <1>1, <1>2, <1>5 DEF SettleAction, Asked
  <1>8. CASE Cardinality(Live(f)) = 1
    <2>1. Closing(f, next) = [e |-> f, close |-> "foldout"]
      BY <1>8 DEF Closing
    <2>2. ApplyAction(e, kind, to) = FinishHand(f)
      BY <1>7, <2>1 DEF ApplyAction, Concluded
    <2>3. Tame => Summed(f)
      BY ONLY <1>4, <1>8, FoldoutSummed, t \in TableType
    <2>4. RoundCore(f)
      BY <1>4 DEF Round
    <2> QED
      BY <1>4, <2>2, <2>3, <2>4, FinishFits
  <1>9. CASE Cardinality(Live(f)) # 1 /\ next # NoOne
    <2>1. PICK g : g = [f EXCEPT !.toAct = next]
      OBVIOUS
    <2>2. Closing(f, next) = [e |-> g, close |-> "none"]
      BY <1>9, <2>1 DEF Closing
    <2>3. ApplyAction(e, kind, to) = g
      BY <1>7, <2>2 DEF ApplyAction, Concluded
    <2>4. next \in CanAct(f) /\ next \in Seats \cup {NoOne}
      BY <1>4, <1>6, <1>9, LiveIn
    <2>5. PICK bet, raise, A : bet = f.currentBet /\ raise = f.minRaise /\ A = f.acted
      OBVIOUS
    <2>6. bet \in Nat /\ raise \in Nat /\ A \in SUBSET Seats
      BY <1>4, <2>5 DEF EngineType
    <2>7. g = Control(f, bet, raise, A, next)
      <3>1. f \in EngineType
        BY <1>4
      <3> QED
        BY ONLY <2>1, <2>5, <3>1 DEF EngineType, Control
    <2>8. g \in EngineType /\ Chips(g, t) /\ Steered(f, g, bet, raise, A, next)
      BY ONLY <1>4, <2>4, <2>6, <2>7, ControlFits
    <2>9. Round(g) /\ Waits(g)
      <3>1. /\ g.players = f.players /\ g.total = f.total /\ g.committed = f.committed /\ g.currentBet = f.currentBet
            /\ g.minRaise = f.minRaise /\ g.allIn = f.allIn /\ g.acted = f.acted /\ ~g.done /\ g.toAct = next
            /\ Live(g) = Live(f) /\ CanAct(g) = CanAct(f)
        BY <1>4, <2>5, <2>8 DEF Steered
      <3>2. Live(g) \subseteq Live(f) /\ \A q \in CanAct(g) : q \in g.acted => g.committed[q] >= g.currentBet
        BY <1>4, <3>1 DEF Round, RoundCore
      <3>3. Round(g)
        BY ONLY <1>4, <3>1, <3>2, RoundAlike
      <3> QED
        BY <2>4, <3>1, <3>3 DEF Waits
    <2> QED
      BY <2>3, <2>8, <2>9 DEF EngineInv
  <1>10. CASE Cardinality(Live(f)) # 1 /\ next = NoOne
    <2>1. Closing(f, next) = [e |-> f, close |-> "advance"]
      BY <1>10 DEF Closing
    <2>2. ApplyAction(e, kind, to) = AdvanceStreet(ReturnUncalled(f))
      BY <1>7, <2>1 DEF ApplyAction, Concluded
    <2>3. CanAct(f) \subseteq f.acted
      <3>1. CanAct(f) \in SUBSET Seats
        BY <1>4, LiveIn
      <3> QED
        BY <1>6, <1>10, <3>1, SeatNumbers
    <2>4. Closed(ReturnUncalled(f), t)
      BY <1>4, <1>10, <2>3, ReturnFits
    <2> QED
      BY <2>2, <2>4, AdvanceFits
  <1> QED
    BY <1>8, <1>9, <1>10

\* The winners are picked among the players.
LEMMA WinnersFit ==
  ASSUME NEW t \in TableType, NEW e, EngineInv(e, t), e.done, NEW W, W \subseteq Live(e), NEW board
  PROVE  /\ EngineInv(SetWinners(e, W, board), t) /\ SetWinners(e, W, board).done
         /\ Live(SetWinners(e, W, board)) = Live(e)
  <1>1. e \in EngineType /\ Chips(e, t) /\ Round(e) /\ Waits(e)
    BY DEF EngineInv
  <1>2. W \in SUBSET Seats /\ W \subseteq e.players
    BY <1>1, LiveIn
  <1>3. PICK f, X, Y : /\ f = SetWinners(e, W, board) /\ f = [e EXCEPT !.winners = X, !.winners2 = Y]
                       /\ X \in {W, e.winners} /\ Y \in {W, e.winners2}
    <2>1. PICK f : f = SetWinners(e, W, board)
      OBVIOUS
    <2>2. CASE board = 2
      <3>1. f = [e EXCEPT !.winners = e.winners, !.winners2 = W]
        BY <1>1, <2>1, <2>2 DEF SetWinners, EngineType
      <3> QED
        BY <2>1, <3>1
    <2>3. CASE board # 2
      <3>1. f = [e EXCEPT !.winners = W, !.winners2 = e.winners2]
        BY <1>1, <2>1, <2>3 DEF SetWinners, EngineType
      <3> QED
        BY <2>1, <3>1
    <2> QED
      BY <2>2, <2>3
  <1>4. X \in SUBSET Seats /\ Y \in SUBSET Seats /\ X \subseteq e.players /\ Y \subseteq e.players
    BY <1>1, <1>2, <1>3 DEF Chips, EngineType
  <1>5. f \in EngineType
    <2>1. e \in EngineType /\ f = [e EXCEPT !.winners = X, !.winners2 = Y]
      BY <1>1, <1>3
    <2> QED
      BY ONLY <1>4, <2>1 DEF EngineType
  <1>6. /\ f.winners = X /\ f.winners2 = Y /\ f.done = e.done /\ f.toAct = e.toAct
        /\ f.players = e.players /\ f.button = e.button /\ f.stack = e.stack /\ f.committed = e.committed
        /\ f.total = e.total /\ f.currentBet = e.currentBet /\ f.minRaise = e.minRaise
        /\ f.allIn = e.allIn /\ f.street = e.street /\ f.foldedStreet = e.foldedStreet /\ f.acted = e.acted
        /\ f.pot = e.pot /\ f.ante = e.ante /\ f.boards = e.boards
    BY <1>1, <1>3, ZenonT(60) DEF EngineType
  <1>7. Live(f) = Live(e) /\ CanAct(f) = CanAct(e)
    BY <1>6 DEF Live, CanAct
  <1>8. Chips(f, t)
    BY <1>1, <1>4, <1>6 DEF Chips
  <1>9. RoundCore(f)
    BY <1>1, <1>6, <1>7 DEF Round, RoundCore, OneOver, BehindOf, Staked, StreetStaked, Rivalled, UnderBet
  <1>10. Tame => Summed(f)
    BY <1>1, <1>6, <1>7, SummedAlike DEF Round
  <1>11. Round(f) /\ Waits(f) /\ f.done
    BY <1>6, <1>9, <1>10 DEF Round, Waits
  <1> QED
    BY <1>3, <1>5, <1>7, <1>8, <1>11 DEF EngineInv

\* What a layer takes of each stake.
SliceOf(e, level) == [p \in Seats |-> Max({0, Min({Swept(e)[p], level}) - LevelBelow(e, level)})]
\* The ante is in the lowest layer.
AnteOf(e, level) == IF level = Min(Levels(e)) THEN e.ante ELSE 0

\* The layers are finitely many, reached by somebody who is live, and hold chips.
LEMMA LayersFit ==
  ASSUME NEW e \in EngineType, \A p \in Seats : e.committed[p] <= e.total[p]
  PROVE  /\ Swept(e) \in [Seats -> Nat]
         /\ IsFiniteSet(Levels(e)) /\ Levels(e) \subseteq Nat \ {0}
         /\ \A level \in Levels(e) : \E p \in Live(e) : Swept(e)[p] = level
         /\ \A level \in Levels(e) : /\ SliceOf(e, level) \in [Seats -> Nat]
                                     /\ Layer(e, level).amount = Totalled(SliceOf(e, level), e.players) + AnteOf(e, level)
                                     /\ Layer(e, level).amount \in Nat
                                     /\ Layer(e, level).eligible = {p \in Live(e) : Swept(e)[p] >= level}
  <1>1. PICK S : S = Swept(e)
    OBVIOUS
  <1>2. S \in [Seats -> Nat]
    <2>1. e.total \in [Seats -> Nat] /\ e.committed \in [Seats -> Nat]
      BY DEF EngineType
    <2>2. \A p \in Seats : (IF e.done THEN e.total[p] ELSE e.total[p] - e.committed[p]) \in Nat
      BY <2>1
    <2> QED
      BY <1>1, <2>2 DEF Swept
  <1>3. PICK L : L = {q \in Live(e) : S[q] > 0}
    OBVIOUS
  <1>4. L \in SUBSET Seats /\ IsFiniteSet(L)
    BY <1>3, LiveIn, SeatsFinite
  <1>5. Levels(e) = {S[p] : p \in L}
    BY <1>1, <1>3 DEF Levels
  <1>6. IsFiniteSet(Levels(e)) /\ Levels(e) \subseteq Nat \ {0}
    <2>1. {S[p] : p \in L} \subseteq Nat \ {0}
      BY <1>2, <1>3, <1>4
    <2>2. IsFiniteSet({S[p] : p \in L})
      <3> DEFINE f == [p \in L |-> S[p]]
      <3>1. f \in Surjection(L, {S[p] : p \in L})
        BY DEF Surjection
      <3> HIDE DEF f
      <3> QED
        BY <1>4, <3>1, FS_Surjection
    <2> QED
      BY <1>5, <2>1, <2>2
  <1>7. \A level \in Levels(e) : \E p \in Live(e) : S[p] = level
    BY <1>3, <1>5
  <1>8. ASSUME NEW level \in Levels(e)
        PROVE  /\ SliceOf(e, level) \in [Seats -> Nat]
               /\ Layer(e, level).amount = Totalled(SliceOf(e, level), e.players) + AnteOf(e, level)
               /\ Layer(e, level).amount \in Nat
               /\ Layer(e, level).eligible = {p \in Live(e) : S[p] >= level}
    <2>1. level \in Nat
      BY <1>6
    <2>2. PICK below \in Nat : below = LevelBelow(e, level)
      <3>1. PICK T : T = {0} \cup {l \in Levels(e) : l < level}
        OBVIOUS
      <3>2. T \subseteq Nat /\ T # {} /\ \A x \in T : x <= level
        BY <1>6, <2>1, <3>1
      <3>3. Max(T) \in Nat
        BY <2>1, <3>2, NatMax
      <3> QED
        BY <3>1, <3>3 DEF LevelBelow
    <2>3. PICK slice : slice = [p \in Seats |-> Max({0, Min({S[p], level}) - below})]
      OBVIOUS
    <2>4. slice = SliceOf(e, level)
      BY <1>1, <2>2, <2>3 DEF SliceOf
    <2>5. \A p \in Seats : slice[p] \in Nat
      <3> TAKE p \in Seats
      <3>1. S[p] \in Int /\ level \in Int
        BY <1>2, <2>1
      <3>2. PICK m \in Int : m = Min({S[p], level})
        BY <3>1, MinOf
      <3>3. m - below \in Int
        OBVIOUS
      <3>4. Max({0, m - below}) = IF 0 >= m - below THEN 0 ELSE m - below
        BY ONLY <3>3, MaxOf
      <3> QED
        BY <2>3, <3>2, <3>3, <3>4
    <2>6. Totalled(slice, e.players) \in Nat
      <3>1. e.players \in SUBSET Seats /\ IsFiniteSet(e.players)
        BY LiveIn, SeatsFinite
      <3> QED
        BY <2>5, <3>1, TotalNat
    <2>7. PICK extra \in Nat : extra = AnteOf(e, level)
      BY DEF EngineType, AnteOf
    <2>8. Layer(e, level).amount = Totalled(slice, e.players) + extra
      BY <1>1, <2>2, <2>3, <2>7 DEF Layer, AnteOf
    <2>9. Layer(e, level).eligible = {p \in Live(e) : S[p] >= level}
      BY <1>1 DEF Layer
    <2>10. slice \in [Seats -> Nat]
      BY <2>3, <2>5
    <2> QED
      BY <2>4, <2>6, <2>7, <2>8, <2>9, <2>10
  <1> QED
    BY <1>1, <1>2, <1>6, <1>7, <1>8

-----------------------------------------------------------------------------
(* What the layers hold together. *)

\* How much of the ante is in the layers up to n.
AnteReached(e, n) == IF \E l \in Levels(e) : l <= n THEN e.ante ELSE 0

\* What the layers up to n hold: of every stake what they reach, and the ante.
LEMMA LayersReach ==
  ASSUME NEW e \in EngineType, \A p \in Seats : e.committed[p] <= e.total[p], NEW n \in Nat,
         NEW w, \A l \in Levels(e) : w[l] = IF l <= n THEN Layer(e, l).amount ELSE 0,
         NEW g, \A q \in Seats : g[q] = Lesser(Swept(e)[q], Reached(Levels(e), n))
  PROVE  Totalled(w, Levels(e)) = Totalled(g, e.players) + AnteReached(e, n)
  <1>1. PICK L, S, P : L = Levels(e) /\ S = Swept(e) /\ P = e.players
    OBVIOUS
  <1>2. /\ IsFiniteSet(L) /\ L \subseteq Nat \ {0} /\ S \in [Seats -> Nat]
        /\ \A l \in L : /\ SliceOf(e, l) \in [Seats -> Nat]
                        /\ Layer(e, l).amount = Totalled(SliceOf(e, l), P) + AnteOf(e, l)
    BY ONLY <1>1, LayersFit, e \in EngineType, \A p \in Seats : e.committed[p] <= e.total[p]
  <1>3. IsFiniteSet(P) /\ P \in SUBSET Seats /\ e.ante \in Nat
    BY <1>1, LiveIn, SeatsFinite DEF EngineType
  <1>4. \A l \in L : l \in Nat /\ l > 0
    BY <1>2
  <1>5. IsFiniteSet(L) /\ L \subseteq Nat \ {0}
    BY <1>2
  <1>6. IsFiniteSet(L)
    BY <1>2
  <1>7. IsFiniteSet(P)
    BY <1>3
  <1>8. PICK m, col, A, B, G :
          /\ m = [l \in L |-> [q \in P |-> IF l <= n THEN SliceOf(e, l)[q] ELSE 0]]
          /\ col = [q \in P |-> [l \in L |-> IF l <= n THEN SliceOf(e, l)[q] ELSE 0]]
          /\ A = [l \in L |-> Totalled(m[l], P)]
          /\ B = [l \in L |-> IF l <= n THEN AnteOf(e, l) ELSE 0]
          /\ G = [q \in P |-> Totalled(col[q], L)]
    OBVIOUS
  <1>9. \A l \in L, q \in P : m[l][q] \in Int /\ col[q][l] = m[l][q]
    BY <1>2, <1>3, <1>8
  <1>10. Totalled(A, L) \in Int /\ Totalled(A, L) = Totalled(G, P)
    <2>1. Turned(m, col, L, P) /\ RowSums(A, m, L, P) /\ RowSums(G, col, P, L)
      BY <1>8, <1>9 DEF Turned, RowSums
    <2> QED
      BY ONLY <1>5, <1>7, <2>1, TotalSwap
  <1>11. \A l \in L : AnteOf(e, l) \in Nat
    BY <1>3 DEF AnteOf
  <1>12. ASSUME NEW l \in L PROVE A[l] \in Int /\ B[l] \in Int /\ w[l] = A[l] + B[l]
    <2>1. PICK row, s : row = m[l] /\ s = SliceOf(e, l)
      OBVIOUS
    <2>2. A[l] = Totalled(row, P)
      BY <1>8, <2>1
    <2>3. s \in [Seats -> Nat] /\ Layer(e, l).amount = Totalled(s, P) + AnteOf(e, l)
      BY <1>2, <2>1
    <2>4. CASE l <= n
      <3>1. \A q \in P : s[q] \in Int /\ row[q] = s[q]
        BY <1>3, <1>8, <2>1, <2>3, <2>4
      <3>2. Totalled(row, P) = Totalled(s, P) /\ Totalled(s, P) \in Int
        BY <1>3, <3>1, TotalSame, TotalInt
      <3>3. B[l] = AnteOf(e, l) /\ w[l] = Layer(e, l).amount
        BY <1>1, <1>8, <2>4
      <3>4. B[l] \in Int /\ A[l] = Totalled(s, P) /\ w[l] = Totalled(s, P) + B[l]
        BY <1>11, <2>2, <2>3, <3>2, <3>3
      <3> QED
        BY <3>2, <3>4
    <2>5. CASE ~(l <= n)
      <3>1. \A q \in P : row[q] = 0
        BY <1>8, <2>1, <2>5
      <3>2. Totalled(row, P) = 0
        BY <1>3, <3>1, TotalZero
      <3> QED
        BY <1>1, <1>8, <2>2, <2>5, <3>2
    <2> QED
      BY <2>4, <2>5
  <1>13. Totalled(A, L) \in Int /\ Totalled(B, L) \in Int /\ Totalled(w, L) = Totalled(A, L) + Totalled(B, L)
    BY ONLY <1>5, <1>12, TotalSum
  <1>14. Totalled(B, L) = AnteReached(e, n)
    <2>1. CASE \E l \in L : l <= n
      <3>1. PICK k \in L : \A x \in L : k <= x
        <4>1. L \subseteq Nat /\ L # {}
          BY <1>4, <2>1
        <4> QED
          BY <4>1, NatMin
      <3>2. Min(L) = k
        <4>1. \A x \in L : (\A y \in L : x <= y) => x = k
          <5> TAKE x \in L
          <5>1. x \in Nat /\ k \in Nat
            BY <1>4
          <5> QED
            BY <3>1, <5>1
        <4> QED
          BY <3>1, <4>1 DEF Min
      <3>3. k <= n
        <4>1. PICK l \in L : l <= n
          BY <2>1
        <4>2. k <= l /\ l \in Nat /\ k \in Nat
          BY <1>4, <3>1
        <4> QED
          BY <4>1, <4>2
      <3>4. \A l \in L : B[l] = IF l = k THEN e.ante ELSE 0
        BY <1>1, <1>8, <3>2, <3>3 DEF AnteOf
      <3>5. e.ante \in Int
        BY <1>3
      <3>6. PICK a \in Int : a = e.ante
        BY <3>5
      <3>7. \A l \in L : B[l] = IF l = k THEN a ELSE 0
        BY <3>4, <3>6
      <3>8. Totalled(B, L) = a
        BY ONLY <1>6, <3>7, k \in L, a \in Int, TotalOne
      <3> QED
        BY <1>1, <2>1, <3>6, <3>8 DEF AnteReached
    <2>2. CASE ~\E l \in L : l <= n
      <3>1. \A l \in L : B[l] = 0
        BY <1>8, <2>2
      <3>2. Totalled(B, L) = 0
        BY <1>2, <3>1, TotalZero
      <3> QED
        BY <1>1, <2>2, <3>2 DEF AnteReached
    <2> QED
      BY <2>1, <2>2
  <1>15. \A q \in P : G[q] = g[q] /\ g[q] \in Int
    <2> TAKE q \in P
    <2>1. PICK c, s, slice : c = col[q] /\ s = S[q] /\ slice = [l \in L |-> SliceOf(e, l)[q]]
      OBVIOUS
    <2>2. q \in Seats /\ s \in Nat
      BY <1>2, <1>3, <2>1
    <2>3. Sliced(slice, s, L)
      BY <1>1, <2>1, <2>2 DEF SliceOf, LevelBelow, Sliced
    <2>4. UpTo(c, slice, n, L)
      BY <1>8, <2>1 DEF UpTo
    <2>5. Totalled(c, L) = Lesser(s, Reached(L, n))
      BY ONLY <1>5, <2>2, <2>3, <2>4, n \in Nat, Telescope
    <2>6. G[q] = Totalled(c, L)
      BY <1>8, <2>1
    <2>7. g[q] = Lesser(s, Reached(L, n))
      BY <1>1, <2>1, <2>2
    <2>8. Reached(L, n) \in Nat
      <3>1. L \subseteq Nat
        BY <1>4
      <3> QED
        BY <3>1, ReachedIs
    <2> QED
      BY <2>2, <2>5, <2>6, <2>7, <2>8 DEF Lesser
  <1>16. Totalled(g, P) = Totalled(G, P)
    BY <1>3, <1>15, TotalSame
  <1> QED
    BY <1>1, <1>10, <1>13, <1>14, <1>16

\* Nobody has left the layers behind: nobody who folded has put in more than everyone live.
Kept(e) == \A q \in e.players : \E p \in Live(e) : Swept(e)[q] <= Swept(e)[p]

\* The layers hold the pot that is displayed.
LEMMA PotsHold ==
  ASSUME NEW t \in TableType, NEW e \in EngineType, Chips(e, t), Levels(e) # {}, Kept(e)
  PROVE  PotsTotal(e) = DisplayedPot(e) /\ (e.done => PotsTotal(e) = e.pot)
  <1>1. \A p \in Seats : e.committed[p] <= e.total[p]
    BY DEF Chips
  <1>2. PICK L, S, P : L = Levels(e) /\ S = Swept(e) /\ P = e.players
    OBVIOUS
  <1>3. /\ IsFiniteSet(L) /\ L \subseteq Nat \ {0} /\ S \in [Seats -> Nat]
        /\ \A l \in L : Layer(e, l).amount \in Nat
    BY ONLY <1>1, <1>2, LayersFit, e \in EngineType
  <1>4. IsFiniteSet(P) /\ P \in SUBSET Seats /\ e.ante \in Nat /\ Live(e) \in SUBSET Seats
    BY <1>2, LiveIn, SeatsFinite DEF EngineType
  <1>5. \A l \in L : l \in Nat /\ l > 0
    BY <1>3
  <1>6. PICK n \in L : \A l \in L : l <= n
    <2>1. PICK f : f = [l \in L |-> l]
      OBVIOUS
    <2>2. \A l \in L : f[l] \in Int
      BY <1>5, <2>1
    <2>3. \E m \in L : \A x \in L : f[x] <= f[m]
      BY <1>2, <1>3, <2>2, MostIn
    <2> QED
      BY <2>1, <2>3
  <1>7. n \in Nat /\ Reached(L, n) \in Nat /\ \A l \in L : l <= Reached(L, n)
    <2>1. L \subseteq Nat /\ n \in Nat
      BY <1>5
    <2> QED
      BY <1>6, <2>1, ReachedIs
  <1>8. PICK w, g : /\ w = [l \in L |-> IF l <= n THEN Layer(e, l).amount ELSE 0]
                    /\ g = [q \in Seats |-> Lesser(S[q], Reached(L, n))]
    OBVIOUS
  <1>9. Totalled(w, L) = Totalled(g, P) + e.ante
    <2>1. \A l \in Levels(e) : w[l] = IF l <= n THEN Layer(e, l).amount ELSE 0
      BY <1>2, <1>8
    <2>2. \A q \in Seats : g[q] = Lesser(Swept(e)[q], Reached(Levels(e), n))
      BY <1>2, <1>8
    <2>3. Totalled(w, Levels(e)) = Totalled(g, e.players) + AnteReached(e, n)
      BY ONLY <1>1, <1>7, <2>1, <2>2, LayersReach, e \in EngineType
    <2>4. AnteReached(e, n) = e.ante
      BY <1>2, <1>6 DEF AnteReached
    <2> QED
      BY <1>2, <2>3, <2>4
  <1>10. \A q \in P : S[q] \in Int /\ g[q] = S[q]
    <2> TAKE q \in P
    <2>1. q \in Seats /\ S[q] \in Nat
      BY <1>3, <1>4
    <2>2. PICK p \in Live(e) : S[q] <= S[p]
      BY <1>2 DEF Kept
    <2>3. S[p] <= Reached(L, n) /\ S[p] \in Nat
      <3>1. S[p] \in Nat
        BY <1>3, <1>4
      <3>2. CASE S[p] > 0
        <4>1. S[p] \in L
          BY <1>2, <3>2 DEF Levels
        <4> QED
          BY <1>7, <3>1, <4>1
      <3>3. CASE ~(S[p] > 0)
        BY <1>7, <3>1, <3>3
      <3> QED
        BY <3>2, <3>3
    <2>4. g[q] = Lesser(S[q], Reached(L, n))
      BY <1>8, <2>1
    <2> QED
      BY <1>7, <2>1, <2>2, <2>3, <2>4 DEF Lesser
  <1>11. Totalled(g, P) = Totalled(S, P) /\ Totalled(S, P) \in Int
    BY <1>4, <1>10, TotalSame, TotalInt
  <1>12. PotsTotal(e) = Totalled(w, L)
    <2>1. PICK v : v = [level \in L |-> Layer(e, level).amount]
      OBVIOUS
    <2>2. \A l \in L : v[l] \in Int /\ w[l] = v[l]
      BY <1>3, <1>6, <1>8, <2>1
    <2>3. Totalled(w, L) = Totalled(v, L)
      BY <1>3, <2>2, TotalSame
    <2> QED
      BY <1>2, <2>1, <2>3 DEF PotsTotal
  <1>13. e.pot = e.ante + Totalled(e.total, P)
    BY <1>2 DEF Chips
  <1>14. CASE e.done
    <2>1. \A q \in P : S[q] \in Int /\ e.total[q] = S[q]
      BY <1>2, <1>4, <1>10, <1>14 DEF Swept
    <2>2. PICK T : T = e.total
      OBVIOUS
    <2>3. Totalled(T, P) = Totalled(S, P)
      BY ONLY <1>4, <2>1, <2>2, TotalSame
    <2>4. PotsTotal(e) = e.pot
      BY <1>4, <1>9, <1>11, <1>12, <1>13, <2>2, <2>3
    <2> QED
      BY <1>14, <2>4 DEF DisplayedPot
  <1>15. CASE ~e.done
    <2>1. PICK T, C : T = e.total /\ C = e.committed
      OBVIOUS
    <2>2. \A q \in P : S[q] \in Int /\ C[q] \in Int /\ T[q] = S[q] + C[q]
      <3> TAKE q \in P
      <3>1. q \in Seats /\ T[q] \in Nat /\ C[q] \in Nat
        BY <1>4, <2>1 DEF EngineType
      <3>2. S[q] = T[q] - C[q]
        BY <1>2, <1>15, <2>1, <3>1 DEF Swept
      <3> QED
        BY <3>1, <3>2
    <2>3. Totalled(C, P) \in Int /\ Totalled(T, P) = Totalled(S, P) + Totalled(C, P)
      BY ONLY <1>4, <2>2, TotalSum
    <2>4. Totalled(S, P) \in Nat
      <3>1. \A q \in P : S[q] \in Nat
        BY <1>3, <1>4
      <3> QED
        BY ONLY <1>4, <3>1, TotalNat
    <2>5. PICK a \in Nat, s \in Nat, c \in Int : a = e.ante /\ s = Totalled(S, P) /\ c = Totalled(C, P)
      BY <1>4, <2>3, <2>4
    <2>6. e.pot - Totalled(C, P) = a + s
      BY <1>13, <2>1, <2>3, <2>5
    <2>7. Max({0, a + s}) = a + s
      <3>1. 0 \in Int /\ a + s \in Int /\ a + s >= 0
        OBVIOUS
      <3>2. Max({0, a + s}) = IF 0 >= a + s THEN 0 ELSE a + s
        BY ONLY <3>1, MaxOf
      <3> QED
        BY <3>1, <3>2
    <2>8. DisplayedPot(e) = a + s
      BY <1>2, <1>15, <2>1, <2>6, <2>7 DEF DisplayedPot
    <2>9. PotsTotal(e) = a + s
      BY <1>9, <1>11, <1>12, <2>5
    <2> QED
      BY <1>15, <2>8, <2>9
  <1> QED
    BY <1>14, <1>15

-----------------------------------------------------------------------------
(* Who takes a layer, and how much of it. *)

\* A term is not more than its sum.
LEMMA TotalTerm ==
  ASSUME NEW S, IsFiniteSet(S), NEW f, \A x \in S : f[x] \in Nat, NEW p \in S
  PROVE  f[p] <= Totalled(f, S)
  <1>1. PICK d \in Nat : d = f[p]
    OBVIOUS
  <1>2. PICK g : g = [x \in S |-> IF x = p THEN d ELSE 0]
    OBVIOUS
  <1>3. \A x \in S : g[x] = IF x = p THEN d ELSE 0
    BY <1>2
  <1>4. Totalled(g, S) = d
    <2>1. d \in Int
      OBVIOUS
    <2> QED
      BY ONLY <1>3, <2>1, IsFiniteSet(S), p \in S, TotalOne
  <1>5. \A x \in S : g[x] \in Int /\ f[x] \in Int /\ g[x] <= f[x]
    BY <1>1, <1>3
  <1>6. Totalled(g, S) <= Totalled(f, S)
    BY <1>5, TotalLess
  <1> QED
    BY <1>1, <1>4, <1>6

\* What is known of the hands: nothing, or a rank of every seat on each board.
CardsOK(c) == c.known => c.rank \in [1 .. 2 -> [Seats -> Nat]]

\* Whoever takes a layer has reached it, and somebody does.
LEMMA TakersFit ==
  ASSUME NEW e \in EngineType, \A p \in Seats : e.committed[p] <= e.total[p],
         NEW c, CardsOK(c), NEW b \in 1 .. e.boards, NEW l \in Levels(e),
         NEW W, W = PotWinners(e, c, b, Layer(e, l))
  PROVE  W \in SUBSET Seats /\ W # {} /\ \A p \in W : Swept(e)[p] >= l
  <1>1. PICK E : E = Layer(e, l).eligible
    OBVIOUS
  <1>2. E = {p \in Live(e) : Swept(e)[p] >= l} /\ Swept(e) \in [Seats -> Nat] /\ l \in Nat
        /\ \E p \in Live(e) : Swept(e)[p] = l
    BY <1>1, LayersFit
  <1>3. Live(e) \in SUBSET Seats
    BY LiveIn
  <1>4. E # {} /\ E \in SUBSET Seats
    BY <1>2, <1>3
  <1>5. c.known => Best(E, c.rank[b]) # {}
    <2> SUFFICES ASSUME c.known PROVE Best(E, c.rank[b]) # {}
      OBVIOUS
    <2>1. c.rank \in [1 .. 2 -> [Seats -> Nat]]
      BY DEF CardsOK
    <2>2. b \in 1 .. 2
      BY DEF EngineType
    <2>3. PICK rank : rank = c.rank[b] /\ rank \in [Seats -> Nat]
      BY <2>1, <2>2
    <2>4. PICK T : T = {rank[p] : p \in E}
      OBVIOUS
    <2>5. T \subseteq Nat /\ T # {}
      BY <1>4, <2>3, <2>4
    <2>6. PICK m \in T : \A x \in T : m <= x
      BY <2>5, NatMin
    <2>7. PICK p \in E : rank[p] = m
      BY <2>4, <2>6
    <2>8. p \in Best(E, rank)
      BY <2>4, <2>6, <2>7 DEF Best
    <2> QED
      BY <2>3, <2>8
  <1>6. Best(E, c.rank[b]) \subseteq E
    BY DEF Best
  <1>7. W \subseteq E /\ W # {}
    BY <1>1, <1>4, <1>5, <1>6 DEF PotWinners
  <1> QED
    BY <1>2, <1>4, <1>7

\* The half cents that rounding up may add to a layer.
Odd(e) == IF e.boards = 2 THEN 1 ELSE 0

\* The boards' shares of a layer are the layer, but for the cent that rounding makes.
LEMMA ShareFits ==
  ASSUME NEW e \in EngineType, NEW a \in Nat, NEW s, s = Share(e, a)
  PROVE  s \in Nat /\ a <= e.boards * s /\ e.boards * s <= a + Odd(e)
  <1>1. e.boards \in 1 .. 2
    BY DEF EngineType
  <1>2. CASE e.boards = 2
    <2>1. s = (a + 1) \div 2
      BY <1>2 DEF Share
    <2>2. s \in Nat /\ a <= 2 * s /\ 2 * s <= a + 1
      BY <2>1
    <2> QED
      BY <1>2, <2>2 DEF Odd
  <1>3. CASE e.boards = 1
    BY <1>3 DEF Share, Odd
  <1> QED
    BY <1>1, <1>2, <1>3

\* What a player takes of a layer on a board.
LEMMA TakesFit ==
  ASSUME NEW e \in EngineType, \A p \in Seats : e.committed[p] <= e.total[p],
         NEW c, CardsOK(c), NEW b \in 1 .. e.boards, NEW l \in Levels(e),
         NEW f, \A p \in Seats : f[p] = PotWins(e, c, b, Layer(e, l), p)
  PROVE  /\ Totalled(f, Seats) = Share(e, Layer(e, l).amount)
         /\ Share(e, Layer(e, l).amount) \in Nat
         /\ \A p \in Seats : /\ f[p] \in Nat
                             /\ f[p] <= IF l <= Swept(e)[p] THEN Share(e, Layer(e, l).amount) ELSE 0
  <1>1. PICK W : W = PotWinners(e, c, b, Layer(e, l))
    OBVIOUS
  <1>2. W \in SUBSET Seats /\ W # {} /\ \A p \in W : Swept(e)[p] >= l
    BY <1>1, TakersFit
  <1>3. PICK share : share = Share(e, Layer(e, l).amount)
    OBVIOUS
  <1>4. Layer(e, l).amount \in Nat /\ l \in Nat /\ Swept(e) \in [Seats -> Nat]
    BY LayersFit
  <1>5. share \in Nat
    BY <1>3, <1>4, ShareFits
  <1>6. \A p \in Seats : f[p] = WonOf(share, W, p)
    BY <1>1, <1>3 DEF PotWins
  <1>7. (\A p \in Seats : f[p] \in Nat /\ (p \notin W => f[p] = 0)) /\ Totalled(f, Seats) = share
    BY ONLY <1>2, <1>5, <1>6, SplitSum
  <1>8. \A p \in Seats : f[p] <= share
    <2> TAKE p \in Seats
    <2>1. IsFiniteSet(Seats) /\ \A q \in Seats : f[q] \in Nat
      BY <1>7, SeatNumbers
    <2>2. f[p] <= Totalled(f, Seats)
      BY ONLY <2>1, p \in Seats, TotalTerm
    <2> QED
      BY <1>7, <2>2
  <1>9. ASSUME NEW p \in Seats PROVE f[p] <= IF l <= Swept(e)[p] THEN share ELSE 0
    <2>1. CASE p \in W
      BY <1>2, <1>4, <1>8, <2>1
    <2>2. CASE p \notin W
      BY <1>5, <1>7, <2>2
    <2> QED
      BY <2>1, <2>2
  <1> QED
    BY <1>3, <1>5, <1>7, <1>9

\* The same on every board.
LEMMA TotalConstant ==
  ASSUME NEW e \in EngineType, NEW y \in Int, NEW f, \A b \in 1 .. e.boards : f[b] = y
  PROVE  Totalled(f, 1 .. e.boards) = e.boards * y
  <1>1. e.boards \in Nat /\ e.boards >= 1
    BY DEF EngineType
  <1>2. PICK n \in Nat : n = e.boards /\ n >= 1
    BY <1>1
  <1>3. PICK B : B = 1 .. n
    OBVIOUS
  <1>4. IsFiniteSet(B) /\ Cardinality(B) = n
    <2>1. 1 \in Int /\ n \in Int
      OBVIOUS
    <2>2. IsFiniteSet(1 .. n) /\ Cardinality(1 .. n) = IF 1 > n THEN 0 ELSE n - 1 + 1
      BY ONLY <2>1, FS_Interval
    <2> QED
      BY <1>2, <1>3, <2>2
  <1>5. PICK one : one = [b \in B |-> 1]
    OBVIOUS
  <1>6. Totalled(one, B) = n
    <2>1. B \in SUBSET B /\ \A b \in B : one[b] = IF b \in B THEN 1 ELSE 0
      BY <1>5
    <2> QED
      BY <1>4, <2>1, TotalMembers
  <1>7. Totalled(f, B) = y * Totalled(one, B)
    <2>1. \A b \in B : one[b] \in Int /\ f[b] = y * one[b]
      BY <1>2, <1>3, <1>5
    <2>2. IsFiniteSet(B)
      BY <1>4
    <2> QED
      BY ONLY <2>1, <2>2, y \in Int, TotalTimes
  <1>8. y * n = n * y
    OBVIOUS
  <1> QED
    BY <1>2, <1>3, <1>6, <1>7, <1>8

-----------------------------------------------------------------------------
(* What a hand pays. *)

\* What p takes on a board.
TakenOn(e, c, b, p) == Totalled([level \in Levels(e) |-> PotWins(e, c, b, Layer(e, level), p)], Levels(e))
\* The shares of a board.
Shares(e) == [l \in Levels(e) |-> Share(e, Layer(e, l).amount)]

\* On a board everybody together takes the shares of the layers.
LEMMA BoardPays ==
  ASSUME NEW e \in EngineType, \A p \in Seats : e.committed[p] <= e.total[p],
         NEW c, CardsOK(c), NEW b \in 1 .. e.boards,
         NEW f, \A p \in Seats : f[p] = TakenOn(e, c, b, p)
  PROVE  /\ Totalled(Shares(e), Levels(e)) \in Int
         /\ Totalled(f, Seats) = Totalled(Shares(e), Levels(e))
         /\ \A p \in Seats : f[p] \in Nat
  <1>1. PICK L, share : L = Levels(e) /\ share = Shares(e)
    OBVIOUS
  <1>2. IsFiniteSet(L) /\ IsFiniteSet(Seats)
    BY <1>1, LayersFit, SeatNumbers
  <1>3. PICK m, col : /\ m = [p \in Seats |-> [l \in L |-> PotWins(e, c, b, Layer(e, l), p)]]
                      /\ col = [l \in L |-> [p \in Seats |-> PotWins(e, c, b, Layer(e, l), p)]]
    OBVIOUS
  <1>4. ASSUME NEW l \in L
        PROVE  share[l] = Totalled(col[l], Seats) /\ \A p \in Seats : col[l][p] \in Nat
    <2>1. PICK h : h = col[l]
      OBVIOUS
    <2>2. \A p \in Seats : h[p] = PotWins(e, c, b, Layer(e, l), p)
      BY <1>3, <2>1
    <2>3. l \in Levels(e)
      BY <1>1
    <2>4. Totalled(h, Seats) = Share(e, Layer(e, l).amount) /\ \A p \in Seats : h[p] \in Nat
      BY <2>2, <2>3, TakesFit
    <2> QED
      BY <1>1, <2>1, <2>3, <2>4 DEF Shares
  <1>5. Turned(m, col, Seats, L)
    BY <1>3, <1>4 DEF Turned
  <1>6. RowSums(f, m, Seats, L)
    BY <1>1, <1>3 DEF RowSums, TakenOn
  <1>7. RowSums(share, col, L, Seats)
    BY <1>4 DEF RowSums
  <1>8. Totalled(f, Seats) \in Int /\ Totalled(f, Seats) = Totalled(share, L)
    BY ONLY <1>2, <1>5, <1>6, <1>7, TotalSwap
  <1>9. \A p \in Seats : f[p] \in Nat
    <2> TAKE p \in Seats
    <2>1. PICK h : h = m[p]
      OBVIOUS
    <2>2. \A l \in L : h[l] \in Nat
      BY <1>3, <1>4, <2>1
    <2>3. Totalled(h, L) \in Nat
      BY ONLY <1>2, <2>2, TotalNat
    <2> QED
      BY <1>6, <2>1, <2>3 DEF RowSums
  <1> QED
    BY <1>1, <1>8, <1>9

\* What is won is a number of chips.
LEMMA WinningsFit ==
  ASSUME NEW e \in EngineType, \A p \in Seats : e.committed[p] <= e.total[p], NEW c, CardsOK(c)
  PROVE  Winnings(e, c) \in [Seats -> Nat]
  <1>1. ASSUME NEW p \in Seats
        PROVE  Totalled([b \in 1 .. e.boards |-> TakenOn(e, c, b, p)], 1 .. e.boards) \in Nat
    <2>1. PICK B, f : B = 1 .. e.boards /\ f = [b \in 1 .. e.boards |-> TakenOn(e, c, b, p)]
      OBVIOUS
    <2>2. ASSUME NEW b \in B PROVE f[b] \in Nat
      <3>1. PICK h : h = [q \in Seats |-> TakenOn(e, c, b, q)]
        OBVIOUS
      <3>2. b \in 1 .. e.boards /\ \A q \in Seats : h[q] = TakenOn(e, c, b, q)
        BY <2>1, <3>1
      <3>3. \A q \in Seats : h[q] \in Nat
        BY <3>2, BoardPays
      <3> QED
        BY <2>1, <3>2, <3>3
    <2>3. IsFiniteSet(B)
      <3>1. e.boards \in Int /\ 1 \in Int
        BY DEF EngineType
      <3> QED
        BY <2>1, <3>1, FS_Interval
    <2>4. Totalled(f, B) \in Nat
      BY ONLY <2>2, <2>3, TotalNat
    <2> QED
      BY <2>1, <2>4
  <1>2. PICK g : g = [p \in Seats |-> Totalled([b \in 1 .. e.boards |-> TakenOn(e, c, b, p)], 1 .. e.boards)]
    OBVIOUS
  <1>3. Winnings(e, c) = g
    BY <1>2 DEF Winnings, TakenOn
  <1> QED
    BY <1>1, <1>2, <1>3

\* The boards together pay each the shares of the layers.
LEMMA AllPaid ==
  ASSUME NEW e \in EngineType, \A p \in Seats : e.committed[p] <= e.total[p], NEW c, CardsOK(c)
  PROVE  Totalled(Winnings(e, c), Seats) = e.boards * Totalled(Shares(e), Levels(e))
  <1>1. PICK B, f : B = 1 .. e.boards /\ f = Winnings(e, c)
    OBVIOUS
  <1>2. IsFiniteSet(B) /\ IsFiniteSet(Seats) /\ 1 \in B
    <2>1. e.boards \in Int /\ 1 \in Int /\ e.boards >= 1
      BY DEF EngineType
    <2> QED
      BY <1>1, <2>1, FS_Interval, SeatNumbers
  <1>3. PICK m, col, g : /\ m = [p \in Seats |-> [b \in B |-> TakenOn(e, c, b, p)]]
                         /\ col = [b \in B |-> [p \in Seats |-> TakenOn(e, c, b, p)]]
                         /\ g = [b \in B |-> Totalled(Shares(e), Levels(e))]
    OBVIOUS
  <1>4. ASSUME NEW b \in B
        PROVE  g[b] = Totalled(col[b], Seats) /\ g[b] \in Int /\ \A p \in Seats : col[b][p] \in Nat
    <2>1. PICK h : h = col[b]
      OBVIOUS
    <2>2. \A p \in Seats : h[p] = TakenOn(e, c, b, p)
      BY <1>3, <2>1
    <2>3. b \in 1 .. e.boards
      BY <1>1
    <2>4. /\ Totalled(h, Seats) = Totalled(Shares(e), Levels(e)) /\ Totalled(Shares(e), Levels(e)) \in Int
          /\ \A p \in Seats : h[p] \in Nat
      BY <2>2, <2>3, BoardPays
    <2> QED
      BY <1>3, <2>1, <2>4
  <1>5. Turned(m, col, Seats, B)
    BY <1>3, <1>4 DEF Turned
  <1>6. RowSums(f, m, Seats, B)
    <2>1. \A p \in Seats : f[p] = Totalled([b \in B |-> TakenOn(e, c, b, p)], B)
      BY <1>1 DEF Winnings, TakenOn
    <2> QED
      BY <1>3, <2>1 DEF RowSums
  <1>7. RowSums(g, col, B, Seats)
    BY <1>4 DEF RowSums
  <1>8. Totalled(f, Seats) = Totalled(g, B)
    BY ONLY <1>2, <1>5, <1>6, <1>7, TotalSwap
  <1>9. PICK y \in Int : y = Totalled(Shares(e), Levels(e))
    BY <1>2, <1>3, <1>4
  <1>10. \A b \in 1 .. e.boards : g[b] = y
    BY <1>1, <1>3, <1>9
  <1>11. Totalled(g, 1 .. e.boards) = e.boards * y
    BY ONLY <1>10, e \in EngineType, y \in Int, TotalConstant
  <1> QED
    BY <1>1, <1>8, <1>9, <1>11

\* The boards' shares of some of the layers are what these hold, but for a cent for each.
LEMMA SharesFit ==
  ASSUME NEW e \in EngineType, \A p \in Seats : e.committed[p] <= e.total[p], NEW n \in Nat,
         NEW u, \A l \in Levels(e) : u[l] = IF l <= n THEN Share(e, Layer(e, l).amount) ELSE 0,
         NEW w, \A l \in Levels(e) : w[l] = IF l <= n THEN Layer(e, l).amount ELSE 0
  PROVE  /\ Totalled(u, Levels(e)) \in Nat /\ Totalled(w, Levels(e)) \in Nat
         /\ Totalled(w, Levels(e)) <= e.boards * Totalled(u, Levels(e))
         /\ e.boards * Totalled(u, Levels(e))
              <= Totalled(w, Levels(e)) + (IF e.boards = 2 THEN Cardinality(Levels(e)) ELSE 0)
  <1>1. PICK L : L = Levels(e)
    OBVIOUS
  <1>2. IsFiniteSet(L) /\ L \subseteq Nat \ {0} /\ \A l \in L : Layer(e, l).amount \in Nat
    BY <1>1, LayersFit
  <1>3. PICK k \in 1 .. 2 : k = e.boards
    BY DEF EngineType
  <1>4. PICK o \in 0 .. 1 : o = Odd(e)
    BY DEF Odd
  <1>5. ASSUME NEW l \in L
        PROVE  u[l] \in Nat /\ w[l] \in Nat /\ w[l] <= k * u[l] /\ k * u[l] <= w[l] + o
    <2>1. PICK a, s : a \in Nat /\ a = Layer(e, l).amount /\ s = Share(e, a)
      BY <1>2
    <2>2. s \in Nat /\ a <= k * s /\ k * s <= a + o
      BY <1>3, <1>4, <2>1, ShareFits
    <2>3. CASE l <= n
      BY <1>1, <2>1, <2>2, <2>3
    <2>4. CASE ~(l <= n)
      <3>1. u[l] = 0 /\ w[l] = 0
        BY <1>1, <2>4
      <3> QED
        BY <3>1
    <2> QED
      BY <2>3, <2>4
  <1>6. Totalled(u, L) \in Nat /\ Totalled(w, L) \in Nat
    <2>1. (\A l \in L : u[l] \in Nat) /\ (\A l \in L : w[l] \in Nat)
      BY <1>5
    <2> QED
      BY <1>2, <2>1, TotalNat
  <1>7. PICK v, one, odd, top : /\ v = [l \in L |-> k * u[l]] /\ one = [l \in L |-> 1]
                                /\ odd = [l \in L |-> o * one[l]] /\ top = [l \in L |-> w[l] + odd[l]]
    OBVIOUS
  <1>8. IsFiniteSet(L)
    BY <1>2
  <1>9. Totalled(v, L) = k * Totalled(u, L)
    <2>1. \A l \in L : u[l] \in Int /\ v[l] = k * u[l]
      BY <1>5, <1>7
    <2>2. k \in Int
      OBVIOUS
    <2> QED
      BY ONLY <1>8, <2>1, <2>2, TotalTimes
  <1>10. Totalled(one, L) = Cardinality(L)
    <2>1. L \in SUBSET L /\ \A l \in L : one[l] = IF l \in L THEN 1 ELSE 0
      BY <1>7
    <2> QED
      BY ONLY <1>8, <2>1, TotalMembers
  <1>11. Totalled(odd, L) = o * Totalled(one, L)
    <2>1. \A l \in L : one[l] \in Int /\ odd[l] = o * one[l]
      BY <1>7
    <2>2. o \in Int
      OBVIOUS
    <2> QED
      BY ONLY <1>8, <2>1, <2>2, TotalTimes
  <1>12. Totalled(top, L) = Totalled(w, L) + Totalled(odd, L)
    <2>1. \A l \in L : w[l] \in Int /\ odd[l] \in Int /\ top[l] = w[l] + odd[l]
      BY <1>5, <1>7
    <2> QED
      BY ONLY <1>8, <2>1, TotalSum
  <1>13. Totalled(w, L) <= Totalled(v, L)
    <2>1. \A l \in L : w[l] \in Int /\ v[l] \in Int /\ w[l] <= v[l]
      BY <1>5, <1>7
    <2> QED
      BY ONLY <1>8, <2>1, TotalLess
  <1>14. Totalled(v, L) <= Totalled(top, L)
    <2>1. \A l \in L : v[l] \in Int /\ top[l] \in Int /\ v[l] <= top[l]
      <3> TAKE l \in L
      <3>1. v[l] = k * u[l] /\ top[l] = w[l] + o
        BY <1>7
      <3>2. u[l] \in Nat /\ w[l] \in Nat /\ k * u[l] <= w[l] + o
        BY <1>5
      <3> QED
        BY <3>1, <3>2
    <2> QED
      BY ONLY <1>8, <2>1, TotalLess
  <1>15. Cardinality(L) \in Nat
    BY <1>8, FS_CardinalityType
  <1>16. Totalled(odd, L) = IF e.boards = 2 THEN Cardinality(L) ELSE 0
    <2>1. o = IF e.boards = 2 THEN 1 ELSE 0
      BY <1>4 DEF Odd
    <2> QED
      BY <1>10, <1>11, <1>15, <2>1
  <1> QED
    BY <1>1, <1>3, <1>6, <1>9, <1>12, <1>13, <1>14, <1>16

\* The award of a hand whose layers hold the pot is the pot.
LEMMA AwardFits ==
  ASSUME NEW t \in TableType, NEW e \in EngineType, Chips(e, t), e.done, Levels(e) # {}, Kept(e),
         NEW c, CardsOK(c)
  PROVE  /\ Totalled(Winnings(e, c), Seats) >= e.pot
         /\ Totalled(Winnings(e, c), Seats)
              <= e.pot + (IF e.boards = 2 THEN Cardinality(Levels(e)) ELSE 0)
  <1>1. \A p \in Seats : e.committed[p] <= e.total[p]
    BY DEF Chips
  <1>2. PICK L : L = Levels(e)
    OBVIOUS
  <1>3. IsFiniteSet(L) /\ L \subseteq Nat \ {0} /\ \A l \in L : Layer(e, l).amount \in Nat
    BY <1>1, <1>2, LayersFit
  <1>4. PICK n \in Nat : \A l \in L : l <= n
    <2>1. PICK f : f = [l \in L |-> l]
      OBVIOUS
    <2>2. IsFiniteSet(L) /\ L # {} /\ \A l \in L : f[l] \in Int
      BY <1>2, <1>3, <2>1
    <2>3. PICK m \in L : \A x \in L : f[x] <= f[m]
      BY <2>2, MostIn
    <2>4. m \in Nat /\ \A x \in L : x <= m
      BY <1>3, <2>1, <2>3
    <2> QED
      BY <2>4
  <1>5. PICK u, w, v : /\ u = [l \in L |-> IF l <= n THEN Share(e, Layer(e, l).amount) ELSE 0]
                       /\ w = [l \in L |-> IF l <= n THEN Layer(e, l).amount ELSE 0]
                       /\ v = [level \in L |-> Layer(e, level).amount]
    OBVIOUS
  <1>6. /\ Totalled(u, L) \in Nat /\ Totalled(w, L) \in Nat
        /\ Totalled(w, L) <= e.boards * Totalled(u, L)
        /\ e.boards * Totalled(u, L) <= Totalled(w, L) + (IF e.boards = 2 THEN Cardinality(L) ELSE 0)
    <2>1. /\ \A l \in Levels(e) : u[l] = IF l <= n THEN Share(e, Layer(e, l).amount) ELSE 0
          /\ \A l \in Levels(e) : w[l] = IF l <= n THEN Layer(e, l).amount ELSE 0
      BY <1>2, <1>5
    <2> QED
      BY ONLY <1>1, <1>2, <2>1, e \in EngineType, n \in Nat, SharesFit
  <1>7. u = Shares(e)
    BY <1>2, <1>4, <1>5 DEF Shares
  <1>8. w = v
    BY <1>4, <1>5
  <1>9. Totalled(w, L) = e.pot
    <2>1. PotsTotal(e) = Totalled(v, L)
      BY <1>2, <1>5 DEF PotsTotal
    <2>2. PotsTotal(e) = e.pot
      BY PotsHold
    <2> QED
      BY <1>8, <2>1, <2>2
  <1>10. Totalled(Winnings(e, c), Seats) = e.boards * Totalled(u, L)
    BY <1>1, <1>2, <1>7, AllPaid
  <1> QED
    BY <1>2, <1>6, <1>9, <1>10

\* A player collects at most what he could have matched, the ante, and the half cents.
LEMMA NoneOverpaid ==
  ASSUME NEW t \in TableType, NEW e \in EngineType, Chips(e, t), e.done, NEW c, CardsOK(c),
         NEW p \in Seats, NEW reach, \A q \in Seats : reach[q] = Min({e.total[q], e.total[p]})
  PROVE  Winnings(e, c)[p] <= Totalled(reach, e.players) + e.ante
                              + (IF e.boards = 2 THEN Cardinality(Levels(e)) ELSE 0)
  <1>1. \A q \in Seats : e.committed[q] <= e.total[q]
    BY DEF Chips
  <1>2. PICK L, S, P, n : L = Levels(e) /\ S = Swept(e) /\ P = e.players /\ n = S[p]
    OBVIOUS
  <1>3. IsFiniteSet(L) /\ L \subseteq Nat \ {0} /\ S \in [Seats -> Nat]
    BY <1>1, <1>2, LayersFit
  <1>4. n \in Nat /\ \A q \in Seats : e.total[q] \in Nat /\ S[q] = e.total[q]
    BY <1>2, <1>3 DEF Swept, EngineType
  <1>5. IsFiniteSet(P) /\ P \in SUBSET Seats /\ e.ante \in Nat
    BY <1>2, LiveIn, SeatsFinite DEF EngineType
  <1>6. PICK u, w, g : /\ u = [l \in L |-> IF l <= n THEN Share(e, Layer(e, l).amount) ELSE 0]
                       /\ w = [l \in L |-> IF l <= n THEN Layer(e, l).amount ELSE 0]
                       /\ g = [q \in Seats |-> Lesser(S[q], Reached(L, n))]
    OBVIOUS
  <1>7. /\ Totalled(u, L) \in Nat /\ Totalled(w, L) \in Nat
        /\ e.boards * Totalled(u, L) <= Totalled(w, L) + (IF e.boards = 2 THEN Cardinality(L) ELSE 0)
    <2>1. /\ \A l \in Levels(e) : u[l] = IF l <= n THEN Share(e, Layer(e, l).amount) ELSE 0
          /\ \A l \in Levels(e) : w[l] = IF l <= n THEN Layer(e, l).amount ELSE 0
      BY <1>2, <1>6
    <2>2. n \in Nat
      BY <1>4
    <2> QED
      BY ONLY <1>1, <1>2, <2>1, <2>2, e \in EngineType, SharesFit
  <1>8. Totalled(w, L) = Totalled(g, P) + AnteReached(e, n)
    <2>1. /\ \A l \in Levels(e) : w[l] = IF l <= n THEN Layer(e, l).amount ELSE 0
          /\ \A q \in Seats : g[q] = Lesser(Swept(e)[q], Reached(Levels(e), n))
      BY <1>2, <1>6
    <2>2. n \in Nat
      BY <1>4
    <2>3. Totalled(w, Levels(e)) = Totalled(g, e.players) + AnteReached(e, n)
      BY ONLY <1>1, <2>1, <2>2, e \in EngineType, LayersReach
    <2> QED
      BY <1>2, <2>3
  <1>9. AnteReached(e, n) \in Nat /\ AnteReached(e, n) <= e.ante
    BY <1>5 DEF AnteReached
  <1>10. Totalled(g, P) \in Int /\ Totalled(reach, P) \in Int /\ Totalled(g, P) <= Totalled(reach, P)
    <2>1. ASSUME NEW q \in P PROVE g[q] \in Int /\ reach[q] \in Int /\ g[q] <= reach[q]
      <3>1. q \in Seats
        BY <1>5
      <3>2. PICK r \in Nat : r = Reached(L, n) /\ r <= n
        <4>1. L \subseteq Nat
          BY <1>3
        <4> QED
          BY <1>4, <4>1, ReachedIs
      <3>3. PICK a \in Nat, b \in Nat : a = e.total[q] /\ b = e.total[p]
        BY <1>4, <3>1
      <3>4. S[q] = a /\ n = b
        BY <1>2, <1>4, <3>1, <3>3
      <3>5. g[q] = Lesser(a, r)
        BY <1>6, <3>1, <3>2, <3>4
      <3>6. reach[q] = IF a <= b THEN a ELSE b
        <4>1. reach[q] = Min({a, b})
          BY <3>1, <3>3
        <4>2. Min({a, b}) = IF a <= b THEN a ELSE b
          BY ONLY a \in Nat, b \in Nat, MinOf
        <4> QED
          BY <4>1, <4>2
      <3> QED
        BY <3>2, <3>4, <3>5, <3>6 DEF Lesser
    <2>2. IsFiniteSet(P)
      BY <1>5
    <2> QED
      BY ONLY <2>1, <2>2, TotalLess
  <1>11. Winnings(e, c)[p] <= e.boards * Totalled(u, L)
    <2>1. PICK B, f, z : /\ B = 1 .. e.boards /\ f = [b \in B |-> TakenOn(e, c, b, p)]
                         /\ z = [b \in B |-> Totalled(u, L)]
      OBVIOUS
    <2>2. Winnings(e, c)[p] = Totalled(f, B)
      BY <2>1 DEF Winnings, TakenOn
    <2>3. ASSUME NEW b \in B PROVE f[b] \in Int /\ z[b] \in Int /\ f[b] <= z[b]
      <3>1. PICK h : h = [level \in L |-> PotWins(e, c, b, Layer(e, level), p)]
        OBVIOUS
      <3>2. f[b] = Totalled(h, L)
        BY <1>2, <2>1, <3>1 DEF TakenOn
      <3>3. ASSUME NEW l \in L PROVE h[l] \in Int /\ u[l] \in Int /\ h[l] <= u[l]
        <4>1. PICK y : y = [q \in Seats |-> PotWins(e, c, b, Layer(e, l), q)]
          OBVIOUS
        <4>2. \A q \in Seats : y[q] = PotWins(e, c, b, Layer(e, l), q)
          BY <4>1
        <4>3. b \in 1 .. e.boards /\ l \in Levels(e)
          BY <1>2, <2>1
        <4>4. /\ Share(e, Layer(e, l).amount) \in Nat
              /\ \A q \in Seats : /\ y[q] \in Nat
                                  /\ y[q] <= IF l <= Swept(e)[q] THEN Share(e, Layer(e, l).amount) ELSE 0
          BY ONLY <1>1, <4>2, <4>3, e \in EngineType, CardsOK(c), TakesFit
        <4>5. h[l] = y[p]
          BY <3>1, <4>1
        <4> QED
          BY <1>2, <1>6, <4>4, <4>5
      <3>4. IsFiniteSet(L)
        BY <1>3
      <3>5. Totalled(h, L) \in Int /\ Totalled(h, L) <= Totalled(u, L)
        BY ONLY <3>3, <3>4, TotalLess
      <3>6. z[b] = Totalled(u, L)
        BY <2>1
      <3> QED
        BY <1>7, <3>2, <3>5, <3>6
    <2>4. IsFiniteSet(B)
      <3>1. e.boards \in Int /\ 1 \in Int
        BY DEF EngineType
      <3> QED
        BY <2>1, <3>1, FS_Interval
    <2>5. Totalled(f, B) <= Totalled(z, B)
      BY ONLY <2>3, <2>4, TotalLess
    <2>6. Totalled(z, B) = e.boards * Totalled(u, L)
      <3>1. PICK y \in Int : y = Totalled(u, L)
        BY <1>7
      <3>2. \A b \in 1 .. e.boards : z[b] = y
        BY <2>1, <3>1
      <3>3. Totalled(z, 1 .. e.boards) = e.boards * y
        BY ONLY <3>2, e \in EngineType, y \in Int, TotalConstant
      <3> QED
        BY <2>1, <3>1, <3>3
    <2> QED
      BY <2>2, <2>5, <2>6
  <1>12. Winnings(e, c)[p] \in Nat
    BY <1>1, WinningsFit
  <1> QED
    <2>1. PICK a \in Nat, b \in Int, d \in Nat, r \in Int, x \in Nat, k \in Nat :
             /\ a = Totalled(w, L) /\ b = Totalled(g, P) /\ d = AnteReached(e, n) /\ r = Totalled(reach, P)
             /\ x = Winnings(e, c)[p] /\ k = e.ante
      BY <1>5, <1>7, <1>9, <1>10, <1>12
    <2>2. PICK o \in Nat : o = IF e.boards = 2 THEN Cardinality(L) ELSE 0
      <3>1. Cardinality(L) \in Nat
        BY <1>3, FS_CardinalityType
      <3> QED
        BY <3>1
    <2>3. PICK s \in Int : s = e.boards * Totalled(u, L)
      <3>1. e.boards \in Nat /\ Totalled(u, L) \in Nat
        BY <1>7 DEF EngineType
      <3> QED
        BY <3>1
    <2>4. x <= s /\ s <= a + o /\ a = b + d /\ d <= k /\ b <= r
      BY <1>7, <1>8, <1>9, <1>10, <1>11, <2>1, <2>2, <2>3
    <2>5. x <= r + k + o
      BY ONLY <2>4, a \in Nat, b \in Int, d \in Nat, r \in Int, x \in Nat, k \in Nat, o \in Nat, s \in Int
    <2> QED
      BY <1>2, <2>1, <2>2, <2>5

-----------------------------------------------------------------------------
(* The invariant holds, and what follows. *)

\* A hand starts from the results of the last one at a table that is set up.
LEMMA NextTableFits ==
  ASSUME NEW t \in TableType, NEW e, e \in EngineType, Chips(e, t), NEW c, CardsOK(c),
         Cardinality(NextTable(t, e, c).active) >= 2
  PROVE  NextTable(t, e, c) \in TableType
  <1>1. e \in EngineType
    OBVIOUS
  <1>2. PICK won : won = Winnings(e, c) /\ won \in [Seats -> Nat]
    <2>1. \A p \in Seats : e.committed[p] <= e.total[p]
      BY DEF Chips
    <2> QED
      BY <1>1, <2>1, WinningsFit
  <1>3. PICK stack : stack = [p \in Seats |-> IF p \in e.players THEN e.stack[p] + won[p] ELSE t.stack[p]]
    OBVIOUS
  <1>4. stack \in [Seats -> Nat]
    <2>1. e.stack \in [Seats -> Nat] /\ t.stack \in [Seats -> Nat]
      BY <1>1, TableFits DEF EngineType
    <2>2. \A p \in Seats : (IF p \in e.players THEN e.stack[p] + won[p] ELSE t.stack[p]) \in Nat
      BY <1>2, <2>1
    <2> QED
      BY <1>3, <2>2
  <1>5. PICK A : A = {p \in t.active : stack[p] > 0}
    OBVIOUS
  <1>6. PICK n : n = TableWith(t, stack, A)
    OBVIOUS
  <1>7. NextTable(t, e, c) = n
    BY <1>2, <1>3, <1>5, <1>6 DEF NextTable, Paid, Seated
  <1>8. PICK b : b = (IF A = {} THEN t.button ELSE Clockwise(A, t.button))
    OBVIOUS
  <1>9. n = [t EXCEPT !.stack = stack, !.active = A, !.button = b, !.straddles = <<>>, !.boards = 1]
    BY <1>6, <1>8 DEF TableWith
  <1>10. /\ A \in SUBSET Seats /\ t.button \in Seats /\ t.ante \in Nat /\ t.utg \in Nat
    BY <1>5, TableFits
  <1>11. PICK Q : Q = Seq([seat : Seats, amount : Nat])
    OBVIOUS
  <1>12. PICK C : C = [Seats -> Nat]
    OBVIOUS
  <1>13. t \in [active : SUBSET Seats, button : Seats, stack : C, ante : Nat,
                utg : Nat, straddles : Q, boards : 1 .. 2]
    BY <1>11, <1>12 DEF TableType
  <1>14. n.active = A /\ n.button = b /\ n.stack = stack
    BY <1>9, <1>13
  <1>15. A # {}
    BY <1>7, <1>14, FS_EmptySet
  <1>16. b \in A /\ b \in Seats
    BY <1>8, <1>10, <1>15, ClockwiseIn
  <1>17. n \in [active : SUBSET Seats, button : Seats, stack : C, ante : Nat,
                utg : Nat, straddles : Q, boards : 1 .. 2]
    <2>1. stack \in C /\ A \in SUBSET Seats /\ b \in Seats /\ 1 \in 1 .. 2
      BY <1>4, <1>10, <1>16, <1>12
    <2>2. <<>> \in Q
      <3>1. <<>> \in Seq([seat : Seats, amount : Nat])
        OBVIOUS
      <3> QED
        BY <1>11, <3>1
    <2> QED
      BY ONLY <1>9, <1>13, <2>1, <2>2
  <1>18. Cardinality(n.active) >= 2
    BY <1>7
  <1> QED
    BY <1>5, <1>7, <1>14, <1>16, <1>17, <1>18, <1>11, <1>12 DEF TableType

\* The hand at the table and the table it was built from.
RecorderInv == /\ setup \in TableType /\ EngineInv(engine, setup) /\ CardsOK(cards)
               /\ hands \in 1 .. MaxHands

\* The invariant holds of the first hand.
LEMMA InitInv == Init => RecorderInv
  <1> SUFFICES ASSUME Init PROVE RecorderInv
    OBVIOUS
  <1>1. setup \in TableType
    BY TableAssumption DEF Init
  <1>2. EngineInv(engine, setup)
    BY <1>1, BuildFits DEF Init
  <1> QED
    BY <1>1, <1>2, EngineAssumption DEF Init, RecorderInv, CardsOK, NoCards

\* A hand that waits for somebody waits for a player who can act.
LEMMA WaitingAsks ==
  ASSUME NEW t \in TableType, NEW e, EngineInv(e, t), ~e.done, e.toAct # NoOne
  PROVE  Asking(e, t, e.toAct)
  BY DEF EngineInv, Waits, Asking, HasActed

\* Every step of the recorder keeps the invariant.
LEMMA NextInv == RecorderInv /\ [Next]_vars => RecorderInv'
  <1> SUFFICES ASSUME RecorderInv, [Next]_vars PROVE RecorderInv'
    OBVIOUS
  <1>1. /\ setup \in TableType /\ EngineInv(engine, setup) /\ hands \in 1 .. MaxHands /\ engine \in EngineType
        /\ CardsOK(cards)
    BY DEF RecorderInv, EngineInv
  <1>2. ASSUME ToAct, NEW kind, NEW to \in Nat, Offered(engine, kind, to), Play(kind, to)
        PROVE  RecorderInv'
    <2>1. Asking(engine, setup, engine.toAct)
      BY <1>1, <1>2, WaitingAsks DEF ToAct
    <2>2. EngineInv(ApplyAction(engine, kind, to), setup)
      BY <1>1, <1>2, <2>1, ApplyFits
    <2> QED
      BY <1>1, <1>2, <2>2 DEF Play, RecorderInv
  <1>3. ASSUME ToAct
        PROVE  /\ engine.stack[engine.toAct] \in Nat /\ engine.committed[engine.toAct] \in Nat /\ engine.currentBet \in Nat
               /\ engine.minRaise \in Nat /\ BigBlind \in Nat
               /\ MaxTo(engine) \in Nat /\ MinRaiseTo(engine) \in Nat
    <2>1. PICK p : p = engine.toAct /\ Asking(engine, setup, p)
      BY <1>1, <1>3, WaitingAsks DEF ToAct
    <2>2. /\ engine.stack[p] \in Nat /\ engine.committed[p] \in Nat /\ engine.currentBet \in Nat
          /\ engine.minRaise \in Nat /\ BigBlind \in Nat
      BY <1>1, <2>1, ActorFits, SeatNumbers
    <2>3. MaxTo(engine) \in Nat
      BY <2>1, <2>2 DEF MaxTo
    <2>4. PICK a \in Nat : a = engine.currentBet + (IF engine.currentBet = 0 THEN BigBlind ELSE engine.minRaise)
      BY <2>2
    <2>5. MinRaiseTo(engine) = IF a <= MaxTo(engine) THEN a ELSE MaxTo(engine)
      BY <2>3, <2>4, MinOf DEF MinRaiseTo
    <2>6. MinRaiseTo(engine) \in Nat
      BY <2>3, <2>4, <2>5
    <2> QED
      BY <2>1, <2>2, <2>3, <2>6
  <1>4. CASE Fold
    BY <1>2, <1>4 DEF Fold, Offered
  <1>5. CASE Check
    BY <1>2, <1>5 DEF Check, Offered
  <1>6. CASE Call
    BY <1>2, <1>6 DEF Call, Offered
  <1>7. CASE Bet
    <2>1. PICK to \in Sizes \ {MaxTo(engine)} : Play("bet", to)
      BY <1>7 DEF Bet
    <2>2. ToAct /\ engine.currentBet = 0
      BY <1>7 DEF Bet, CanBet
    <2>3. to \in Nat
      BY <1>3, <2>1, <2>2 DEF Sizes
    <2>4. Offered(engine, "bet", to)
      BY <2>2 DEF Offered
    <2> QED
      BY <1>2, <2>1, <2>2, <2>3, <2>4
  <1>8. CASE Raise
    <2>1. PICK to \in Sizes \ {MaxTo(engine)} : Play("raise", to)
      BY <1>8 DEF Raise
    <2>2. ToAct /\ engine.currentBet > 0
      BY <1>8 DEF Raise, CanRaise
    <2>3. to \in Nat /\ MinRaiseTo(engine) <= to /\ to < MaxTo(engine)
      BY <1>3, <2>1, <2>2 DEF Sizes
    <2>4. Offered(engine, "raise", to)
      BY <2>2, <2>3 DEF Offered
    <2> QED
      BY <1>2, <2>1, <2>2, <2>3, <2>4
  <1>9. CASE AllIn
    <2>1. ToAct /\ (CanBet \/ CanRaise) /\ Play("allin", 0)
      BY <1>9 DEF AllIn
    <2>2. MaxTo(engine) > engine.currentBet
      <3>1. PICK s, k, b \in Nat : s = engine.stack[engine.toAct] /\ k = engine.committed[engine.toAct] /\ b = engine.currentBet
        BY <1>3, <2>1
      <3>2. (b = 0 /\ s > 0) \/ s > b - k
        BY <2>1, <3>1 DEF CanBet, CanRaise, ToCall
      <3>3. MaxTo(engine) = k + s
        BY <3>1 DEF MaxTo
      <3> QED
        BY <3>1, <3>2, <3>3
    <2>3. Offered(engine, "allin", 0)
      BY <2>2 DEF Offered
    <2> QED
      BY <1>2, <2>1, <2>3
  <1>10. CASE Showdown
    <2>1. PICK W, W2 \in (SUBSET Live(engine)) \ {{}} :
               engine' = IF engine.boards = 2 THEN SetWinners(SetWinners(engine, W, 1), W2, 2)
                         ELSE SetWinners(engine, W, 1)
      BY <1>10 DEF Showdown
    <2>2. PICK f : f = SetWinners(engine, W, 1)
      OBVIOUS
    <2>3. EngineInv(f, setup) /\ f.done /\ Live(f) = Live(engine)
      <3>1. engine.done
        BY <1>10 DEF Showdown
      <3> QED
        BY <1>1, <2>2, <3>1, WinnersFit
    <2>4. EngineInv(SetWinners(f, W2, 2), setup)
      BY <1>1, <2>3, WinnersFit
    <2>5. EngineInv(engine', setup)
      BY <2>1, <2>2, <2>3, <2>4
    <2>6. CardsOK(cards')
      <3>1. cards' \in Hands
        BY <1>10 DEF Showdown
      <3>2. [1 .. 2 -> [Seats -> 1 .. 2]] \subseteq [1 .. 2 -> [Seats -> Nat]]
        OBVIOUS
      <3> QED
        BY <3>1, <3>2 DEF Hands, CardsOK
    <2> QED
      BY <1>1, <1>10, <2>5, <2>6 DEF Showdown, RecorderInv
  <1>11. CASE RecordAnother
    <2>1. PICK next : next = NextTable(setup, engine, cards)
      OBVIOUS
    <2>2. /\ engine.done /\ Cardinality(next.active) >= 2 /\ setup' = next /\ engine' = BuildEngine(next)
          /\ hands < MaxHands /\ hands' = hands + 1 /\ cards' = NoCards
      BY <1>11, <2>1 DEF RecordAnother, Resolved
    <2>3. next \in TableType
      <3>1. engine \in EngineType /\ Chips(engine, setup)
        BY <1>1 DEF EngineInv
      <3> QED
        BY <1>1, <2>1, <2>2, <3>1, NextTableFits
    <2>4. EngineInv(BuildEngine(next), next)
      BY <2>3, BuildFits
    <2>5. hands + 1 \in 1 .. MaxHands
      BY <1>1, <2>2, EngineAssumption
    <2> QED
      BY <2>2, <2>3, <2>4, <2>5 DEF RecorderInv, CardsOK, NoCards
  <1>12. CASE UNCHANGED vars
    BY <1>12 DEF vars, RecorderInv
  <1> QED
    BY <1>4, <1>5, <1>6, <1>7, <1>8, <1>9, <1>10, <1>11, <1>12 DEF Next

\* In every hand, the chips are accounted for, the bets of the round stand as they should and
\* the hand waits for somebody who can act, at a table that can be dealt at.
THEOREM RecorderInvariant == Spec => []RecorderInv
  <1>1. Init => RecorderInv
    BY InitInv
  <1>2. RecorderInv /\ [Next]_vars => RecorderInv'
    BY NextInv
  <1> QED
    BY <1>1, <1>2, PTL DEF Spec

\* No street is closed over a player who has chips and has not matched the bet, and a hand that
\* is not over waits for somebody who can act, unless the forced bets took everybody's chips
\* (settleAction, nextToAct, returnUncalled, stepStreet): for any number of seats, any blinds,
\* antes and straddles, any stacks, and any number of hands in a row.
THEOREM BettingIsSound == Spec => []BettingSound
  <1>1. RecorderInv => BettingSound
    <2> SUFFICES ASSUME RecorderInv PROVE BettingSound
      OBVIOUS
    <2>1. engine \in EngineType /\ Chips(engine, setup) /\ Round(engine) /\ Waits(engine)
      BY DEF RecorderInv, EngineInv
    <2>2. BetsMatched
      BY <2>1 DEF BetsMatched, Round, RoundCore, Behind, BehindOf
    <2>3. HandCanGoOn
      <3>1. CASE engine.done
        BY <3>1 DEF HandCanGoOn
      <3>2. CASE engine.toAct \in CanAct(engine)
        <4>1. engine.toAct \in Live(engine) /\ engine.toAct \notin engine.allIn /\ engine.toAct \in engine.players
          BY <3>2 DEF CanAct, Live
        <4>2. engine.stack[engine.toAct] \in Nat /\ engine.stack[engine.toAct] # 0
          BY <2>1, <4>1 DEF EngineType, Chips
        <4> QED
          BY <4>1, <4>2 DEF HandCanGoOn
      <3>3. CASE engine.toAct = NoOne /\ CanAct(engine) = {} /\ engine.street = Preflop /\ engine.acted = {}
        <4>1. \A p \in Live(engine) : p \in engine.players /\ p \in engine.allIn
          BY <3>3 DEF CanAct, Live
        <4>2. AllInBlind
          BY <2>1, <3>3, <4>1 DEF Chips, AllInBlind
        <4> QED
          BY <4>2 DEF HandCanGoOn
      <3> QED
        BY <2>1, <3>1, <3>2, <3>3 DEF Waits
    <2> QED
      BY <2>2, <2>3 DEF BettingSound
  <1> QED
    BY <1>1, RecorderInvariant, PTL

\* What a player has and has put in is what he sat down with, and the pot is what the players
\* have put in and the ante, through refunds, short all-ins and streets dealt at once.
THEOREM ChipsAreKept == Spec => []ChipsKept
  <1>1. RecorderInv => ChipsKept
    BY DEF RecorderInv, EngineInv, Chips, ChipsKept, SeatChipsKept
  <1> QED
    BY <1>1, RecorderInvariant, PTL

\* Every field of the engine keeps its type: no stack, bet or total is ever negative.
THEOREM EngineTyped == Spec => []TypeOK
  <1>1. RecorderInv => TypeOK
    <2> SUFFICES ASSUME RecorderInv PROVE TypeOK
      OBVIOUS
    <2>1. engine \in EngineType /\ Chips(engine, setup) /\ hands \in 1 .. MaxHands
      BY DEF RecorderInv, EngineInv
    <2>2. engine.pot \in Nat
      <3>1. IsFiniteSet(engine.players) /\ engine.players \subseteq Seats
        BY <2>1, LiveIn, SeatsFinite
      <3>2. \A p \in engine.players : engine.total[p] \in Nat
        BY <2>1, <3>1 DEF EngineType
      <3>3. Totalled(engine.total, engine.players) \in Nat
        BY <3>1, <3>2, TotalNat
      <3> QED
        BY <2>1, <3>3 DEF Chips, EngineType
    <2>3. engine.winners \subseteq engine.players /\ engine.winners2 \subseteq engine.players
      BY <2>1 DEF Chips
    <2> QED
      BY <2>1, <2>2, <2>3 DEF TypeOK, EngineType
  <1> QED
    BY <1>1, RecorderInvariant, PTL

\* If nobody who folded had put in more than everybody live, everyone's stake is reached by
\* somebody who is live.
LEMMA NotDeserted ==
  ASSUME RecorderInv, ~Deserted
  PROVE  Kept(engine)
  <1>1. engine \in EngineType /\ \A p \in Seats : engine.committed[p] <= engine.total[p]
    BY DEF RecorderInv, EngineInv, Chips
  <1>2. Swept(engine) \in [Seats -> Nat] /\ engine.players \in SUBSET Seats /\ Live(engine) \subseteq engine.players
    BY <1>1, LayersFit, LiveIn
  <1>3. ASSUME NEW q \in engine.players PROVE \E p \in Live(engine) : Swept(engine)[q] <= Swept(engine)[p]
    <2>1. q \in Seats /\ Swept(engine)[q] \in Nat
      BY <1>2
    <2>2. CASE q \in Live(engine)
      BY <2>1, <2>2
    <2>3. CASE q \notin Live(engine)
      <3>1. PICK p \in Live(engine) : ~(Swept(engine)[q] > Swept(engine)[p])
        BY <2>3 DEF Deserted
      <3>2. Swept(engine)[p] \in Nat
        BY <1>2
      <3> QED
        BY <2>1, <3>1, <3>2
    <2> QED
      BY <2>2, <2>3
  <1> QED
    BY <1>3 DEF Kept

\* The layers sum to what is displayed, and who is awarded what in a hand that is over.
LEMMA AwardHolds ==
  ASSUME RecorderInv
  PROVE  PotsAreThePot /\ AwardIsThePot /\ NobodyOverpaid
  <1>1. /\ setup \in TableType /\ engine \in EngineType /\ Chips(engine, setup) /\ Round(engine) /\ CardsOK(cards)
    BY DEF RecorderInv, EngineInv
  <1>2. PotsAreThePot
    <2>1. ASSUME Levels(engine) # {}, ~Deserted PROVE PotsTotal(engine) = DisplayedPot(engine)
      BY <1>1, <2>1, NotDeserted, PotsHold
    <2> QED
      BY <2>1 DEF PotsAreThePot, PotsSumToDisplay
  <1>3. ASSUME Resolved(engine), ~Deserted
        PROVE  /\ Totalled(Winnings(engine, cards), Seats) >= engine.pot
               /\ Totalled(Winnings(engine, cards), Seats)
                    <= engine.pot + (IF engine.boards = 2 THEN Cardinality(Levels(engine)) ELSE 0)
    <2>1. engine.done /\ Kept(engine)
      BY <1>3, NotDeserted DEF Resolved
    <2>2. Levels(engine) # {}
      <3>1. PICK q \in engine.players : engine.total[q] > 0
        BY <1>1 DEF Round, RoundCore, Staked
      <3>2. PICK p \in Live(engine) : Swept(engine)[q] <= Swept(engine)[p]
        BY <2>1, <3>1 DEF Kept
      <3>3. p \in Seats /\ q \in Seats /\ engine.total \in [Seats -> Nat]
        BY <1>1, <3>1, <3>2, LiveIn DEF EngineType
      <3>4. Swept(engine)[q] = engine.total[q] /\ Swept(engine)[p] = engine.total[p]
        BY <2>1, <3>3 DEF Swept
      <3>5. Swept(engine)[p] > 0
        BY <3>1, <3>2, <3>3, <3>4
      <3> QED
        BY <3>2, <3>5 DEF Levels
    <2> QED
      BY <1>1, <2>1, <2>2, AwardFits
  <1>4. AwardIsThePot
    BY <1>3 DEF AwardIsThePot
  <1>5. ASSUME Resolved(engine), NEW p \in engine.players,
               NEW reach, reach = [q \in Seats |-> Min({engine.total[q], engine.total[p]})]
        PROVE  Winnings(engine, cards)[p]
                 <= Totalled(reach, engine.players) + engine.ante
                    + (IF engine.boards = 2 THEN Cardinality(Levels(engine)) ELSE 0)
    <2>1. engine.done /\ p \in Seats
      BY <1>1, <1>5, LiveIn DEF Resolved
    <2>2. \A q \in Seats : reach[q] = Min({engine.total[q], engine.total[p]})
      BY <1>5
    <2> QED
      BY ONLY <1>1, <2>1, <2>2, NoneOverpaid
  <1>6. NobodyOverpaid
    BY <1>5 DEF NobodyOverpaid
  <1> QED
    BY <1>2, <1>4, <1>6

\* What the summary calls the final pot is what was contested.
LEMMA SummaryHolds ==
  ASSUME RecorderInv, SmallBlind <= BigBlind
  PROVE  SummaryPotContested
  <1>1. engine.done => Summed(engine)
    BY DEF RecorderInv, EngineInv, Round, Tame
  <1> QED
    BY <1>1 DEF Summed, Unmatched, SummaryPotContested

\* The layers of the pot sum to what is on display, the award of a hand hands out the whole
\* pot (and one cent for an odd layer on two boards at the most), and nobody collects more
\* than he could have matched (potBreakdown, splitAmounts, computeWinnings): for any stakes,
\* any hands that are shown and any winners that are picked.
THEOREM PotIsAwarded == Spec => [](PotsAreThePot /\ AwardIsThePot /\ NobodyOverpaid)
  <1>1. RecorderInv => PotsAreThePot /\ AwardIsThePot /\ NobodyOverpaid
    BY AwardHolds
  <1> QED
    BY <1>1, RecorderInvariant, PTL

\* With a small blind that is not above the big one, the summary's pot is what was contested
\* too: from the blinds to the award, every chip is somewhere and goes where it may
\* (buildHandSummary beside computeWinnings and potBreakdown).
THEOREM ChipsAreAccounted ==
  ASSUME SmallBlind <= BigBlind
  PROVE  Spec => []ChipsAccounted
  <1>1. RecorderInv => ChipsAccounted
    <2>1. RecorderInv => SummaryPotContested
      BY SummaryHolds
    <2>2. RecorderInv => ChipsKept
      BY DEF RecorderInv, EngineInv, Chips, ChipsKept, SeatChipsKept
    <2> QED
      BY <2>1, <2>2, AwardHolds DEF ChipsAccounted, AwardSound
  <1> QED
    BY <1>1, RecorderInvariant, PTL
=============================================================================
