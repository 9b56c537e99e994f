---------------------------- MODULE OthelloRules ----------------------------
(***************************************************************************)
(* The rules of the Othello game of HW_4 as pure operators: the board, the *)
(* moves get_valid_loc() finds, the discs adjust_game() turns over, and    *)
(* the tests the play loop makes with them.                                *)
(*                                                                         *)
(* A board is indexed as in the code, board[y][x]; a cell is <<x, y>>.      *)
(* The code fixes BOARDSZ to 8; here it is a parameter, and the four       *)
(* opening discs stand on the two middle rows and columns.                 *)
(***************************************************************************)
EXTENDS Integers, FiniteSets

CONSTANT BOARDSZ

ASSUME BoardSizeAssumption == BOARDSZ \in Nat \ {0} /\ BOARDSZ % 2 = 0

PLAYER1 == 1
PLAYER2 == -1
Players == {PLAYER1, PLAYER2}

\* Seeded fault: nobody is player 2's opponent.
OtherOfFirst(p) == IF p = PLAYER1 THEN PLAYER2 ELSE 0

\* The opponent of player p: the "target" the code computes before each scan.
Other(p) == IF p = PLAYER1 THEN PLAYER2 ELSE PLAYER1

Index  == 0 .. (BOARDSZ - 1)
Locs   == Index \X Index
Boards == [Index -> [Index -> Players \cup {0}]]

\* The board before init_board(): a zero-initialised C array.
EmptyBoard == [y \in Index |-> [x \in Index |-> 0]]

Middle == {(BOARDSZ \div 2) - 1, BOARDSZ \div 2}

InitBoard == [y \in Index |-> [x \in Index |->
                IF x \notin Middle \/ y \notin Middle THEN 0
                ELSE IF x = y THEN PLAYER1 ELSE PLAYER2]]

\* The disc, or 0, on cell l.
At(b, l) == b[l[2]][l[1]]

Steps == ({-1, 0, 1} \X {-1, 0, 1}) \ {<<0, 0>>}

Shift(l, d, k) == <<l[1] + k * d[1], l[2] + k * d[2]>>

-----------------------------------------------------------------------------
(* The while loop both scans are made of: walk from l in direction d as    *)
(* long as the cell is on the board and holds a disc of target.            *)

OnTarget(b, l, target) == l[1] \in Index /\ l[2] \in Index /\ At(b, l) = target

RunLength(b, l, d, target) ==
  CHOOSE k \in 0 .. BOARDSZ :
    /\ \A j \in 1 .. k : OnTarget(b, Shift(l, d, j), target)
    /\ ~OnTarget(b, Shift(l, d, k + 1), target)

\* The cell at which the walk stops; it may be off the board.
StopCell(b, l, d, target) == Shift(l, d, RunLength(b, l, d, target) + 1)

\* Seeded fault for the tests of the model: is_candidate is never required.
GetValidLocNoCandidate(b, player) ==
  {m \in Locs : /\ At(b, m) = 0
                /\ \E l \in Locs, d \in Steps :
                     At(b, l) = player /\ m = StopCell(b, l, d, Other(player))}

\* get_valid_loc: from every own disc outwards, over at least one opposing
\* disc, to an empty cell.
GetValidLoc(b, player) ==
  LET Scans == {s \in {l \in Locs : At(b, l) = player} \X Steps :
                  RunLength(b, s[1], s[2], Other(player)) > 0}
      Ends  == {StopCell(b, s[1], s[2], Other(player)) : s \in Scans}
  IN  {m \in Ends \cap Locs : At(b, m) = 0}

\* Seeded fault: the walk to the next own disc runs over empty cells, too.
TurnedAcrossGaps(b, player, l) ==
  {m \in Locs : \E d \in Steps, k \in 2 .. BOARDSZ :
     OnTarget(b, Shift(l, d, k), player) /\ \E j \in 1 .. k - 1 : m = Shift(l, d, j)}

\* The cells adjust_game() walks back over: runs that end on an own disc.
Turned(b, player, l) ==
  LET target == Other(player)
      Closed == {d \in Steps : OnTarget(b, StopCell(b, l, d, target), player)}
  IN  UNION {{Shift(l, d, j) : j \in 1 .. RunLength(b, l, d, target)} : d \in Closed}

AdjustGame(b, player, l) ==
  LET turned == Turned(b, player, l)
  IN  [y \in Index |-> [x \in Index |->
                          IF <<x, y>> \in turned THEN player ELSE b[y][x]]]

\* board[y][x] = player; adjust_game(player, x, y): a move, local or remote.
Place(b, player, l) == AdjustGame([b EXCEPT ![l[2]][l[1]] = player], player, l)

IsMyTurnValid(b, player) == GetValidLoc(b, player) # {}

\* Seeded fault: the game ends only on a full board.
IsTimeToEndFull(b) == \A l \in Locs : At(b, l) # 0

IsTimeToEnd(b) == \A p \in Players : GetValidLoc(b, p) = {}

Score(b, player) == Cardinality({l \in Locs : At(b, l) = player})
Discs(b)         == Cardinality({l \in Locs : At(b, l) # 0})
=============================================================================
