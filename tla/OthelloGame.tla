----------------------------- MODULE OthelloGame ----------------------------
(***************************************************************************)
(* What the two programs of HW_4 promise to play together: ONE game, with  *)
(* one board and one player to move.  Othello.tla, in which each program   *)
(* has a board and a turn of its own, is shown to implement this.          *)
(***************************************************************************)
EXTENDS OthelloRules

VARIABLES
  board,   \* the board both players should see
  turn     \* the player to move

vars == <<board, turn>>

Init == board = InitBoard /\ turn = PLAYER1

Put(p) ==
  /\ turn = p
  /\ turn' = Other(p)
  /\ \E l \in GetValidLoc(board, p) : board' = Place(board, p, l)

Skip(p) ==
  /\ turn = p
  /\ turn' = Other(p)
  /\ UNCHANGED board
  /\ ~IsMyTurnValid(board, p)
  /\ ~IsTimeToEnd(board)

Next == \E p \in Players : Put(p) \/ Skip(p)

Spec == Init /\ [][Next]_vars

-----------------------------------------------------------------------------
(* The board is a board and the turn a player's.                            *)
TypeOK == board \in Boards /\ turn \in Players

(* get_valid_loc() scans outwards from the discs of a player, adjust_game() *)
(* from the cell played.  The two agree on every board a game reaches: a    *)
(* cell is offered exactly when it is empty and playing it turns a disc.    *)
ValidIffTurns ==
  \A p \in Players :
    GetValidLoc(board, p) = {l \in Locs : At(board, l) = 0 /\ Turned(board, p, l) # {}}

(* A move adds one disc to the board and never gives the opponent one: what *)
(* the mover gains beyond its own disc is exactly what the opponent loses.  *)
MoveGains ==
  [][board' # board =>
       /\ Discs(board') = Discs(board) + 1
       /\ Score(board', turn) >= Score(board, turn) + 2
       /\ Score(board', turn) - Score(board, turn) - 1
            = Score(board, turn') - Score(board', turn')]_vars

(* A player is skipped only if the other one can move: two skips in a row,  *)
(* which would let the programs pass the turn for ever, do not happen.      *)
SkipIsFollowedByMove ==
  [][board' = board => IsMyTurnValid(board', turn')]_vars
=============================================================================
