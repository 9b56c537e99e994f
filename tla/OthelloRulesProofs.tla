------------------------- MODULE OthelloRulesProofs -------------------------
(***************************************************************************)
(* Lemmas about the rules of OthelloRules.tla, for every board size: what  *)
(* the walks of get_valid_loc() and adjust_game() find, and what a move    *)
(* does to the numbers of discs.                                           *)
(***************************************************************************)
EXTENDS OthelloRules, FiniteSetTheorems, TLAPS

LEMMA LeastExists ==
  ASSUME NEW S, S \subseteq Nat, S # {}
  PROVE  \E m \in S : \A k \in S : m <= k
<1> DEFINE R == {ss \in Nat \X Nat : ss[1] < ss[2]}
<1>1. IsWellFoundedOn(R, Nat)
  BY NatLessThanWellFounded DEF OpToRel
<1>2. \A k, m \in Nat : k < m => <<k, m>> \in R
  OBVIOUS
<1> HIDE DEF R
<1>3. PICK m \in S : \A k \in S : ~ (<<k, m>> \in R)
  BY <1>1, WFMin
<1>4. \A k \in S : ~(k < m)
  BY <1>2, <1>3
<1> QED BY <1>4

LEMMA OtherPlayer ==
  ASSUME NEW p \in Players
  PROVE  /\ Other(p) \in Players /\ Other(p) # p /\ Other(Other(p)) = p
         /\ p # 0 /\ Other(p) # 0
         /\ \A q \in Players : q = p \/ q = Other(p)
BY DEF Players, Other, PLAYER1, PLAYER2

-----------------------------------------------------------------------------
(* Walking over the board.                                                 *)

\* k steps from coordinate a in a direction that changes it by e.
Moved(a, e, k) == IF e = 1 THEN a + k ELSE IF e = -1 THEN a - k ELSE a

LEMMA MovedIs ==
  ASSUME NEW a \in Int, NEW e \in {-1, 0, 1}, NEW k \in Int
  PROVE  a + k * e = Moved(a, e, k) /\ Moved(a, e, k) \in Int
<1>1. CASE e = -1
  BY <1>1 DEF Moved
<1>2. CASE e = 0
  BY <1>2 DEF Moved
<1>3. CASE e = 1
  BY <1>3 DEF Moved
<1> QED BY <1>1, <1>2, <1>3

Cells == Int \X Int

LEMMA ShiftIs ==
  ASSUME NEW l \in Cells, NEW d \in Steps, NEW k \in Int
  PROVE  /\ Shift(l, d, k) = <<Moved(l[1], d[1], k), Moved(l[2], d[2], k)>>
         /\ Shift(l, d, k) \in Cells
<1>1. l[1] \in Int /\ l[2] \in Int /\ d[1] \in {-1, 0, 1} /\ d[2] \in {-1, 0, 1}
  BY DEF Cells, Steps
<1>2. /\ l[1] + k * d[1] = Moved(l[1], d[1], k) /\ Moved(l[1], d[1], k) \in Int
      /\ l[2] + k * d[2] = Moved(l[2], d[2], k) /\ Moved(l[2], d[2], k) \in Int
  BY <1>1, MovedIs
<1> QED BY <1>2 DEF Shift, Cells

LEMMA LocsAreCells ==
  ASSUME NEW l \in Locs
  PROVE  l \in Cells /\ l[1] \in Index /\ l[2] \in Index
BY BoardSizeAssumption DEF Locs, Index, Cells

\* The way back.
Back(d) == <<-d[1], -d[2]>>

LEMMA BackIs ==
  ASSUME NEW d \in Steps
  PROVE  Back(d) \in Steps /\ Back(Back(d)) = d
BY DEF Back, Steps

LEMMA ShiftBack ==
  ASSUME NEW l \in Cells, NEW d \in Steps, NEW n \in Int, NEW j \in Int
  PROVE  Shift(Shift(l, d, n), Back(d), j) = Shift(l, d, n - j)
<1>1. /\ l[1] \in Int /\ l[2] \in Int
      /\ d[1] \in {-1, 0, 1} /\ d[2] \in {-1, 0, 1}
      /\ Back(d)[1] = -d[1] /\ Back(d)[2] = -d[2] /\ Back(d) \in Steps /\ n - j \in Int
  BY BackIs DEF Cells, Steps, Back
<1>2. \A a \in Int, e \in {-1, 0, 1} : Moved(Moved(a, e, n), -e, j) = Moved(a, e, n - j)
  BY DEF Moved
<1>3. /\ Shift(l, d, n) = <<Moved(l[1], d[1], n), Moved(l[2], d[2], n)>>
      /\ Shift(l, d, n) \in Cells
  BY ShiftIs
<1>4. Shift(Shift(l, d, n), Back(d), j)
        = <<Moved(Moved(l[1], d[1], n), -d[1], j), Moved(Moved(l[2], d[2], n), -d[2], j)>>
  BY <1>1, <1>3, ShiftIs
<1>5. Shift(l, d, n - j) = <<Moved(l[1], d[1], n - j), Moved(l[2], d[2], n - j)>>
  BY <1>1, ShiftIs
<1> QED BY <1>1, <1>2, <1>4, <1>5

LEMMA ShiftNone ==
  ASSUME NEW l \in Cells, NEW d \in Steps
  PROVE  Shift(l, d, 0) = l /\ \A j \in Int : j # 0 => Shift(l, d, j) # l
<1>1. /\ l[1] \in Int /\ l[2] \in Int /\ l = <<l[1], l[2]>>
      /\ d[1] \in {-1, 0, 1} /\ d[2] \in {-1, 0, 1} /\ ~(d[1] = 0 /\ d[2] = 0)
  BY DEF Cells, Steps
<1>2. \A a \in Int, e \in {-1, 0, 1} : Moved(a, e, 0) = a
  BY DEF Moved
<1>3. \A a \in Int, e \in {-1, 0, 1}, j \in Int :
        j # 0 /\ e # 0 => Moved(a, e, j) # a
  BY DEF Moved
<1>4. Shift(l, d, 0) = l
  BY <1>1, <1>2, ShiftIs
<1>5. \A j \in Int : j # 0 => Shift(l, d, j) # l
  BY <1>1, <1>3, ShiftIs
<1> QED BY <1>4, <1>5

\* A walk is off the board after BOARDSZ steps.
LEMMA WalkLeaves ==
  ASSUME NEW l \in Locs, NEW d \in Steps
  PROVE  ~(Shift(l, d, BOARDSZ)[1] \in Index /\ Shift(l, d, BOARDSZ)[2] \in Index)
<1>1. /\ l \in Cells /\ l[1] \in Index /\ l[2] \in Index
      /\ d[1] \in {-1, 0, 1} /\ d[2] \in {-1, 0, 1} /\ ~(d[1] = 0 /\ d[2] = 0)
      /\ BOARDSZ \in Int
  BY LocsAreCells, BoardSizeAssumption DEF Steps
<1>2. \A a \in Index, e \in {-1, 0, 1} : e # 0 => Moved(a, e, BOARDSZ) \notin Index
  BY BoardSizeAssumption DEF Moved, Index
<1>3. Shift(l, d, BOARDSZ) = <<Moved(l[1], d[1], BOARDSZ), Moved(l[2], d[2], BOARDSZ)>>
  BY <1>1, ShiftIs
<1> QED BY <1>1, <1>2, <1>3

-----------------------------------------------------------------------------
(* The length of a run.                                                    *)

\* k cells of target lie between l and the cell at which the walk stops.
IsRun(b, l, d, target, k) ==
  /\ \A j \in 1 .. k : OnTarget(b, Shift(l, d, j), target)
  /\ ~OnTarget(b, Shift(l, d, k + 1), target)

LEMMA RunIsUnique ==
  ASSUME NEW b, NEW l, NEW d, NEW target, NEW i \in Nat, NEW k \in Nat,
         IsRun(b, l, d, target, i), IsRun(b, l, d, target, k)
  PROVE  i = k
<1>1. ~(i < k)
  <2>1. i < k => i + 1 \in 1 .. k
    OBVIOUS
  <2> QED BY <2>1 DEF IsRun
<1>2. ~(k < i)
  <2>1. k < i => k + 1 \in 1 .. i
    OBVIOUS
  <2> QED BY <2>1 DEF IsRun
<1> QED BY <1>1, <1>2

\* There is a run from every cell of the board.
LEMMA RunExists ==
  ASSUME NEW b, NEW l \in Locs, NEW d \in Steps, NEW target
  PROVE  \E k \in 0 .. BOARDSZ : IsRun(b, l, d, target, k)
<1> DEFINE Ends(k) == ~OnTarget(b, Shift(l, d, k + 1), target)
           S == {k \in Nat : Ends(k)}
<1>1. BOARDSZ \in Nat \ {0} /\ BOARDSZ - 1 \in Nat /\ (BOARDSZ - 1) + 1 = BOARDSZ
  BY BoardSizeAssumption
<1>2. BOARDSZ - 1 \in S
  BY <1>1, WalkLeaves DEF OnTarget
<1>3. PICK k \in S : \A i \in S : k <= i
  <2> HIDE DEF S
  <2>1. S \subseteq Nat
    BY DEF S
  <2> QED BY <1>2, <2>1, LeastExists
<1>4. k \in Nat /\ k <= BOARDSZ - 1 /\ Ends(k)
  BY <1>2, <1>3
<1>5. \A j \in 1 .. k : OnTarget(b, Shift(l, d, j), target)
  <2>1. SUFFICES ASSUME NEW j \in 1 .. k, ~OnTarget(b, Shift(l, d, j), target)
                 PROVE  FALSE
    OBVIOUS
  <2>2. j - 1 \in Nat /\ (j - 1) + 1 = j /\ ~(k <= j - 1)
    BY <1>4
  <2>3. j - 1 \in S
    BY <2>1, <2>2
  <2> QED BY <1>3, <2>2, <2>3
<1>6. IsRun(b, l, d, target, k)
  BY <1>4, <1>5 DEF IsRun
<1>7. k \in 0 .. BOARDSZ
  BY <1>1, <1>4
<1> QED BY <1>6, <1>7

LEMMA RunLengthIs ==
  ASSUME NEW b, NEW l, NEW d, NEW target, NEW k \in 0 .. BOARDSZ,
         IsRun(b, l, d, target, k)
  PROVE  RunLength(b, l, d, target) = k
<1>1. \A i \in 0 .. BOARDSZ : IsRun(b, l, d, target, i) => i = k
  BY RunIsUnique, BoardSizeAssumption
<1>2. RunLength(b, l, d, target) = CHOOSE i \in 0 .. BOARDSZ : IsRun(b, l, d, target, i)
  BY DEF RunLength, IsRun
<1> QED BY <1>1, <1>2

LEMMA RunLengthFits ==
  ASSUME NEW b, NEW l \in Locs, NEW d \in Steps, NEW target
  PROVE  /\ RunLength(b, l, d, target) \in 0 .. BOARDSZ
         /\ IsRun(b, l, d, target, RunLength(b, l, d, target))
<1>1. PICK k \in 0 .. BOARDSZ : IsRun(b, l, d, target, k)
  BY RunExists
<1>2. RunLength(b, l, d, target) = k
  BY <1>1, RunLengthIs
<1> QED BY <1>1, <1>2

\* Seen from the cell where a walk stops, the run is the same one.
LEMMA RunBack ==
  ASSUME NEW b, NEW l \in Locs, NEW d \in Steps, NEW target,
         ~OnTarget(b, l, target)
  PROVE  /\ RunLength(b, StopCell(b, l, d, target), Back(d), target)
              = RunLength(b, l, d, target)
         /\ StopCell(b, StopCell(b, l, d, target), Back(d), target) = l
<1> DEFINE k == RunLength(b, l, d, target)
           m == StopCell(b, l, d, target)
<1>1. k \in 0 .. BOARDSZ /\ IsRun(b, l, d, target, k) /\ l \in Cells
  BY RunLengthFits, LocsAreCells
<1>2. m = Shift(l, d, k + 1) /\ k \in Int /\ k + 1 \in Int
  BY <1>1, BoardSizeAssumption DEF StopCell
<1> HIDE DEF k, m
<1>3. \A j \in Int : Shift(m, Back(d), j) = Shift(l, d, k + 1 - j)
  BY <1>1, <1>2, ShiftBack
<1>4. \A j \in 1 .. k : OnTarget(b, Shift(m, Back(d), j), target)
  <2>1. SUFFICES ASSUME NEW j \in 1 .. k
                 PROVE  OnTarget(b, Shift(m, Back(d), j), target)
    OBVIOUS
  <2>2. j \in Int /\ k + 1 - j \in 1 .. k
    BY <1>2
  <2> QED BY <1>1, <1>3, <2>2 DEF IsRun
<1>5. Shift(m, Back(d), k + 1) = l
  <2>1. k + 1 - (k + 1) = 0
    BY <1>2
  <2>2. Shift(m, Back(d), k + 1) = Shift(l, d, k + 1 - (k + 1))
    BY <1>2, <1>3
  <2> QED BY <1>1, <2>1, <2>2, ShiftNone
<1>6. IsRun(b, m, Back(d), target, k)
  BY <1>4, <1>5 DEF IsRun
<1>7. RunLength(b, m, Back(d), target) = k
  BY <1>1, <1>6, RunLengthIs
<1>8. StopCell(b, m, Back(d), target) = l
  BY <1>5, <1>7 DEF StopCell
<1> QED BY <1>7, <1>8 DEF k, m

-----------------------------------------------------------------------------
(* The cells offered and the discs turned.                                 *)

\* The discs a move at l turns in direction d.
TurnedIn(b, p, l, d) == {Shift(l, d, j) : j \in 1 .. RunLength(b, l, d, Other(p))}

LEMMA TurnedByDirection ==
  ASSUME NEW b, NEW p, NEW l
  PROVE  Turned(b, p, l) =
           UNION {TurnedIn(b, p, l, d) :
                    d \in {e \in Steps : OnTarget(b, StopCell(b, l, e, Other(p)), p)}}
BY DEF Turned, TurnedIn

\* Turned discs are the opponent's.
LEMMA TurnedCells ==
  ASSUME NEW b, NEW p, NEW l \in Locs
  PROVE  Turned(b, p, l) \subseteq {m \in Locs : At(b, m) = Other(p)}
<1>1. SUFFICES ASSUME NEW d \in Steps, NEW j \in 1 .. RunLength(b, l, d, Other(p))
               PROVE  Shift(l, d, j) \in {m \in Locs : At(b, m) = Other(p)}
  BY TurnedByDirection DEF TurnedIn
<1>2. RunLength(b, l, d, Other(p)) \in 0 .. BOARDSZ /\ l \in Cells /\ j \in Int
  BY RunLengthFits, LocsAreCells, BoardSizeAssumption
<1>3. OnTarget(b, Shift(l, d, j), Other(p))
  BY RunLengthFits DEF IsRun
<1>4. Shift(l, d, j) \in Locs
  <2>1. Shift(l, d, j) \in Cells
    BY <1>2, ShiftIs
  <2> QED BY <1>3, <2>1 DEF OnTarget, Locs, Cells
<1> QED BY <1>3, <1>4 DEF OnTarget

\* get_valid_loc() from the disc and adjust_game() from the cell walk over the
\* same discs, in opposite directions: the test of the one is the test of the
\* other, on every board, also on those no game reaches.
LEMMA OfferedIffTurns ==
  ASSUME NEW b, NEW p \in Players
  PROVE  GetValidLoc(b, p) = {l \in Locs : At(b, l) = 0 /\ Turned(b, p, l) # {}}
<1> DEFINE t == Other(p)
<1>1. t # 0 /\ p # t /\ p # 0
  BY OtherPlayer
<1>2. ASSUME NEW m \in GetValidLoc(b, p)
      PROVE  m \in Locs /\ At(b, m) = 0 /\ Turned(b, p, m) # {}
  <2>1. PICK l \in Locs, d \in Steps :
          /\ At(b, l) = p
          /\ RunLength(b, l, d, t) > 0
          /\ m = StopCell(b, l, d, t)
    BY <1>2 DEF GetValidLoc
  <2>2. m \in Locs /\ At(b, m) = 0
    BY <1>2 DEF GetValidLoc
  <2>3. ~OnTarget(b, l, t) /\ OnTarget(b, l, p)
    BY <1>1, <2>1, LocsAreCells DEF OnTarget
  <2> HIDE DEF t
  <2>4. RunLength(b, m, Back(d), t) = RunLength(b, l, d, t)
        /\ StopCell(b, m, Back(d), t) = l
    BY <2>1, <2>3, RunBack
  <2>5. Back(d) \in Steps
    BY BackIs
  <2>6. RunLength(b, l, d, t) \in 0 .. BOARDSZ
    BY RunLengthFits
  <2>7. 1 \in 1 .. RunLength(b, m, Back(d), t)
    BY <2>1, <2>4, <2>6, BoardSizeAssumption
  <2>8. TurnedIn(b, p, m, Back(d)) # {}
    BY <2>7 DEF TurnedIn, t
  <2>9. OnTarget(b, StopCell(b, m, Back(d), Other(p)), p)
    BY <2>3, <2>4 DEF t
  <2> QED BY <2>2, <2>5, <2>8, <2>9, TurnedByDirection
<1>3. ASSUME NEW m \in Locs, At(b, m) = 0, Turned(b, p, m) # {}
      PROVE  m \in GetValidLoc(b, p)
  <2>1. PICK d \in Steps : OnTarget(b, StopCell(b, m, d, t), p) /\ TurnedIn(b, p, m, d) # {}
    BY <1>3, TurnedByDirection
  <2> DEFINE l == StopCell(b, m, d, t)
  <2>2. ~OnTarget(b, m, t)
    BY <1>1, <1>3 DEF OnTarget
  <2>3. RunLength(b, l, Back(d), t) = RunLength(b, m, d, t)
        /\ StopCell(b, l, Back(d), t) = m
    BY <2>2, RunBack
  <2>4. RunLength(b, m, d, t) \in 0 .. BOARDSZ /\ m \in Cells
    BY RunLengthFits, LocsAreCells
  <2>5. RunLength(b, m, d, t) > 0
    <3>1. PICK j \in 1 .. RunLength(b, m, d, t) : TRUE
      BY <2>1 DEF TurnedIn
    <3> QED BY <2>4, <3>1, BoardSizeAssumption
  <2>6. l \in Locs /\ At(b, l) = p
    <3>1. RunLength(b, m, d, t) + 1 \in Int
      BY <2>4, BoardSizeAssumption
    <3>2. l \in Cells
      BY <2>4, <3>1, ShiftIs DEF StopCell
    <3> QED BY <2>1, <3>2 DEF OnTarget, Cells, Locs
  <2>7. Back(d) \in Steps
    BY BackIs
  <2> HIDE DEF l
  <2>8. <<l, Back(d)>> \in {s \in {k \in Locs : At(b, k) = p} \X Steps :
                              RunLength(b, s[1], s[2], t) > 0}
    BY <2>3, <2>5, <2>6, <2>7
  <2> QED BY <1>3, <2>3, <2>8 DEF GetValidLoc
<1> QED BY <1>2, <1>3

LEMMA OfferedIs ==
  ASSUME NEW b, NEW p \in Players, NEW l \in GetValidLoc(b, p)
  PROVE  l \in Locs /\ At(b, l) = 0 /\ Turned(b, p, l) # {}
BY OfferedIffTurns

-----------------------------------------------------------------------------
(* What a move does to the board.                                          *)

LEMMA AtIs ==
  ASSUME NEW b \in Boards, NEW l \in Locs
  PROVE  At(b, l) \in Players \cup {0}
BY LocsAreCells DEF At, Boards

\* The disc that is put is not in its own way.
LEMMA TurnedAfterPut ==
  ASSUME NEW b \in Boards, NEW p \in Players, NEW l \in Locs
  PROVE  Turned([b EXCEPT ![l[2]][l[1]] = p], p, l) = Turned(b, p, l)
<1> DEFINE c == [b EXCEPT ![l[2]][l[1]] = p]
           t == Other(p)
<1>1. l[1] \in Index /\ l[2] \in Index /\ l \in Cells /\ l = <<l[1], l[2]>>
  BY LocsAreCells DEF Locs
<1>2. \A x, y \in Index : <<x, y>> # l => c[y][x] = b[y][x]
  BY <1>1 DEF Boards
<1>3. ASSUME NEW d \in Steps, NEW j \in Int, j # 0, NEW q
      PROVE  OnTarget(c, Shift(l, d, j), q) <=> OnTarget(b, Shift(l, d, j), q)
  <2> DEFINE m == Shift(l, d, j)
  <2>1. m # l /\ m = <<m[1], m[2]>>
    BY <1>1, <1>3, ShiftNone, ShiftIs
  <2> HIDE DEF m, c
  <2> QED BY <1>2, <2>1 DEF OnTarget, At, m
<1> HIDE DEF c
<1>4. ASSUME NEW d \in Steps
      PROVE  RunLength(c, l, d, t) = RunLength(b, l, d, t)
  <2> DEFINE k == RunLength(b, l, d, t)
  <2>1. k \in 0 .. BOARDSZ /\ IsRun(b, l, d, t, k)
    BY RunLengthFits
  <2> HIDE DEF k, t
  <2>2. \A j \in 1 .. k + 1 : j \in Int /\ j # 0
    BY <2>1, BoardSizeAssumption
  <2>3. k + 1 \in 1 .. k + 1 /\ \A j \in 1 .. k : j \in 1 .. k + 1
    BY <2>1, BoardSizeAssumption
  <2>4. IsRun(c, l, d, t, k)
    BY <1>3, <2>1, <2>2, <2>3 DEF IsRun
  <2> QED BY <2>1, <2>4, RunLengthIs DEF k
<1>5. ASSUME NEW d \in Steps
      PROVE  /\ TurnedIn(c, p, l, d) = TurnedIn(b, p, l, d)
             /\ OnTarget(c, StopCell(c, l, d, t), p) <=> OnTarget(b, StopCell(b, l, d, t), p)
  <2>1. TurnedIn(c, p, l, d) = TurnedIn(b, p, l, d)
    BY <1>4 DEF TurnedIn
  <2>2. RunLength(b, l, d, t) + 1 \in Int /\ RunLength(b, l, d, t) + 1 # 0
    BY RunLengthFits, BoardSizeAssumption
  <2>3. StopCell(c, l, d, t) = Shift(l, d, RunLength(b, l, d, t) + 1)
        /\ StopCell(b, l, d, t) = Shift(l, d, RunLength(b, l, d, t) + 1)
    BY <1>4 DEF StopCell
  <2> QED BY <1>3, <2>1, <2>2, <2>3
<1>6. Turned(c, p, l) = Turned(b, p, l)
  BY <1>5, TurnedByDirection
<1> QED BY <1>6 DEF c

LEMMA PlaceAt ==
  ASSUME NEW b \in Boards, NEW p \in Players, NEW l \in Locs, NEW m \in Locs
  PROVE  At(Place(b, p, l), m) = IF m = l \/ m \in Turned(b, p, l) THEN p ELSE At(b, m)
<1> DEFINE c == [b EXCEPT ![l[2]][l[1]] = p]
<1>1. /\ l[1] \in Index /\ l[2] \in Index /\ l = <<l[1], l[2]>>
      /\ m[1] \in Index /\ m[2] \in Index /\ m = <<m[1], m[2]>>
  BY LocsAreCells DEF Locs
<1>2. At(c, m) = IF m = l THEN p ELSE At(b, m)
  BY <1>1 DEF At, Boards
<1>3. Turned(c, p, l) = Turned(b, p, l)
  BY TurnedAfterPut
<1> HIDE DEF c
<1>4. At(AdjustGame(c, p, l), m) = IF m \in Turned(b, p, l) THEN p ELSE At(c, m)
  BY <1>1, <1>3 DEF AdjustGame, At
<1>5. Place(b, p, l) = AdjustGame(c, p, l)
  BY DEF Place, c
<1> QED BY <1>2, <1>4, <1>5

LEMMA PlaceType ==
  ASSUME NEW b \in Boards, NEW p \in Players, NEW l \in Locs
  PROVE  Place(b, p, l) \in Boards
<1> DEFINE c == [b EXCEPT ![l[2]][l[1]] = p]
<1>1. c \in Boards
  BY DEF Boards, Locs
<1>2. AdjustGame(c, p, l) \in Boards
  BY <1>1 DEF AdjustGame, Boards
<1> QED BY <1>2 DEF Place

LEMMA LocsFinite == IsFiniteSet(Locs)
<1>1. 0 \in Int /\ BOARDSZ - 1 \in Int
  BY BoardSizeAssumption
<1>2. IsFiniteSet(Index)
  BY <1>1, FS_Interval DEF Index
<1> QED BY <1>2, FS_Product DEF Locs

LEMMA FiniteCells ==
  ASSUME NEW S \in SUBSET Locs
  PROVE  IsFiniteSet(S) /\ Cardinality(S) \in Nat
BY LocsFinite, FS_Subset, FS_CardinalityType

\* A move adds one disc to the board; what the mover gains beyond its own disc
\* is what the opponent loses, and that is something.
LEMMA MoveCounts ==
  ASSUME NEW b \in Boards, NEW p \in Players, NEW l \in GetValidLoc(b, p)
  PROVE  /\ Discs(Place(b, p, l)) = Discs(b) + 1
         /\ Score(Place(b, p, l), p) >= Score(b, p) + 2
         /\ Score(Place(b, p, l), p) - Score(b, p) - 1
              = Score(b, Other(p)) - Score(Place(b, p, l), Other(p))
         /\ Discs(b) \in Nat
<1> DEFINE a == Place(b, p, l)
           o == Other(p)
           T == Turned(b, p, l)
           Own == {m \in Locs : At(b, m) = p}
           Opp == {m \in Locs : At(b, m) = o}
           All == {m \in Locs : At(b, m) # 0}
<1>1. l \in Locs /\ At(b, l) = 0 /\ T # {} /\ T \subseteq Opp
  BY OfferedIs, TurnedCells
<1>2. p # o /\ p # 0 /\ o # 0
  BY OtherPlayer
<1>3. \A m \in Locs : At(a, m) = IF m = l \/ m \in T THEN p ELSE At(b, m)
  BY <1>1, PlaceAt
<1> HIDE DEF a, o, T
<1>4. {m \in Locs : At(a, m) # 0} = All \cup {l} /\ l \notin All
  BY <1>1, <1>2, <1>3
<1>5. /\ {m \in Locs : At(a, m) = p} = (Own \cup {l}) \cup T
      /\ l \notin Own /\ (Own \cup {l}) \cap T = {}
  BY <1>1, <1>2, <1>3
<1>6. {m \in Locs : At(a, m) = o} = Opp \ T /\ Opp \cap T = T
  BY <1>1, <1>2, <1>3
<1>7. /\ IsFiniteSet(All) /\ IsFiniteSet(Own) /\ IsFiniteSet(Opp) /\ IsFiniteSet(T)
      /\ Cardinality(All) \in Nat /\ Cardinality(Own) \in Nat
      /\ Cardinality(Opp) \in Nat /\ Cardinality(T) \in Nat
  <2>1. All \in SUBSET Locs /\ Own \in SUBSET Locs /\ Opp \in SUBSET Locs /\ T \in SUBSET Locs
    BY <1>1
  <2> HIDE DEF All, Own, Opp
  <2> QED BY <2>1, FiniteCells
<1>8. Cardinality(T) >= 1
  BY <1>1, <1>7, FS_EmptySet
<1> DEFINE A2 == {m \in Locs : At(a, m) # 0}
           P2 == {m \in Locs : At(a, m) = p}
           O2 == {m \in Locs : At(a, m) = o}
<1>9. /\ Discs(b) = Cardinality(All) /\ Discs(a) = Cardinality(A2)
      /\ Score(b, p) = Cardinality(Own) /\ Score(a, p) = Cardinality(P2)
      /\ Score(b, o) = Cardinality(Opp) /\ Score(a, o) = Cardinality(O2)
  BY DEF Discs, Score
<1> HIDE DEF All, Own, Opp, A2, P2, O2
<1>10. Cardinality(A2) = Cardinality(All) + 1
  BY <1>4, <1>7, FS_AddElement DEF A2
<1>11. IsFiniteSet(Own \cup {l}) /\ Cardinality(Own \cup {l}) = Cardinality(Own) + 1
  BY <1>5, <1>7, FS_AddElement
<1>12. Cardinality(P2) = Cardinality(Own) + 1 + Cardinality(T)
  <2>1. Cardinality(P2) = Cardinality(Own \cup {l}) + Cardinality(T) - Cardinality({})
    BY <1>5, <1>7, <1>11, FS_Union DEF P2
  <2>2. Cardinality({}) = 0
    BY FS_EmptySet
  <2> QED BY <1>7, <1>11, <2>1, <2>2
<1>13. Cardinality(O2) = Cardinality(Opp) - Cardinality(T)
  BY <1>6, <1>7, FS_Difference DEF O2
<1> QED BY <1>7, <1>8, <1>9, <1>10, <1>12, <1>13 DEF a, o

-----------------------------------------------------------------------------
(* The opening: player 1 can move, unless the board is too small for moves.*)

LEMMA OpeningIs ==
  ASSUME NEW x \in Index, NEW y \in Index
  PROVE  At(InitBoard, <<x, y>>) =
           IF x \notin Middle \/ y \notin Middle THEN 0
           ELSE IF x = y THEN PLAYER1 ELSE PLAYER2
BY DEF At, InitBoard

LEMMA FirstMove == IsMyTurnValid(InitBoard, PLAYER1) \/ IsTimeToEnd(InitBoard)
<1> DEFINE h == BOARDSZ \div 2
<1>1. h \in Nat \ {0} /\ BOARDSZ = 2 * h
  BY BoardSizeAssumption
<1> HIDE DEF h
<1>2. Middle = {h - 1, h} /\ Index = 0 .. 2 * h - 1
  BY <1>1 DEF Middle, Index, h
<1>3. CASE h = 1
  <2>1. \A x, y \in Index : At(InitBoard, <<x, y>>) # 0
    BY <1>2, <1>3, OpeningIs DEF PLAYER1, PLAYER2
  <2>2. \A m \in Locs : At(InitBoard, m) # 0
    BY <2>1 DEF Locs
  <2> QED BY <2>2, OfferedIffTurns DEF IsTimeToEnd
<1>4. CASE h # 1
  <2> DEFINE l == <<h, h>>
             d == <<-1, 0>>
             m == <<h - 2, h>>
  <2>1. h \in Index /\ h - 1 \in Index /\ h - 2 \in Index /\ h - 2 \notin Middle /\ h - 1 # h
    BY <1>1, <1>2, <1>4
  <2>2. l \in Locs /\ m \in Locs /\ d \in Steps /\ l \in Cells
    BY <1>1, <2>1 DEF Locs, Steps, Cells
  <2>3. At(InitBoard, l) = PLAYER1 /\ At(InitBoard, <<h - 1, h>>) = PLAYER2
        /\ At(InitBoard, m) = 0
    BY <1>2, <2>1, OpeningIs
  <2>4. Other(PLAYER1) = PLAYER2 /\ PLAYER2 # 0 /\ PLAYER1 \in Players
    BY DEF Other, Players, PLAYER1, PLAYER2
  <2>5. Shift(l, d, 1) = <<h - 1, h>> /\ Shift(l, d, 2) = m
    BY <1>1 DEF Shift
  <2> HIDE DEF l, d
  <2>6. OnTarget(InitBoard, Shift(l, d, 1), PLAYER2)
        /\ ~OnTarget(InitBoard, Shift(l, d, 2), PLAYER2)
    BY <2>1, <2>3, <2>4, <2>5 DEF OnTarget
  <2>7. IsRun(InitBoard, l, d, PLAYER2, 1)
    <3>1. \A j \in 1 .. 1 : j = 1
      OBVIOUS
    <3>2. 1 + 1 = 2
      OBVIOUS
    <3> QED BY <2>6, <3>1, <3>2 DEF IsRun
  <2>8. RunLength(InitBoard, l, d, PLAYER2) = 1
    <3>1. 1 \in 0 .. BOARDSZ
      BY BoardSizeAssumption
    <3> QED BY <2>7, <3>1, RunLengthIs
  <2>9. StopCell(InitBoard, l, d, PLAYER2) = m
    <3>1. 1 + 1 = 2
      OBVIOUS
    <3> QED BY <2>5, <2>8, <3>1 DEF StopCell
  <2>10. m \in GetValidLoc(InitBoard, PLAYER1)
    <3>1. <<l, d>> \in {s \in {k \in Locs : At(InitBoard, k) = PLAYER1} \X Steps :
                          RunLength(InitBoard, s[1], s[2], PLAYER2) > 0}
      <4>1. 1 > 0
        OBVIOUS
      <4> QED BY <2>2, <2>3, <2>8, <4>1
    <3> HIDE DEF m
    <3> QED BY <2>2, <2>3, <2>4, <2>9, <3>1 DEF GetValidLoc
  <2> QED BY <2>10 DEF IsMyTurnValid
<1> QED BY <1>3, <1>4
=============================================================================
