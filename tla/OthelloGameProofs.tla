------------------------- MODULE OthelloGameProofs --------------------------
(***************************************************************************)
(* Proofs about OthelloGame.tla: the game as it is played, on a board of   *)
(* any size.                                                               *)
(***************************************************************************)
EXTENDS OthelloGame, OthelloRulesProofs

LEMMA GameTypeInit == Init => TypeOK
BY DEF Init, TypeOK, InitBoard, Boards, Players

\* Put replaces the board by one with a move on it.
LEMMA PutIs ==
  ASSUME TypeOK, NEW p \in Players, Put(p)
  PROVE  /\ p = turn /\ turn' = Other(p)
         /\ \E l \in GetValidLoc(board, p) : l \in Locs /\ board' = Place(board, p, l)
BY OfferedIs DEF Put

LEMMA GameTypeStep == TypeOK /\ [Next]_vars => TypeOK'
<1> SUFFICES ASSUME TypeOK, [Next]_vars
             PROVE  TypeOK'
  OBVIOUS
<1>1. CASE UNCHANGED vars
  BY <1>1 DEF vars, TypeOK
<1>2. ASSUME NEW p \in Players, Put(p)
      PROVE  TypeOK'
  BY <1>2, PutIs, PlaceType, OtherPlayer DEF TypeOK
<1>3. ASSUME NEW p \in Players, Skip(p)
      PROVE  TypeOK'
  BY <1>3, OtherPlayer DEF Skip, TypeOK
<1> QED BY <1>1, <1>2, <1>3 DEF Next

(* The board always holds discs of the two players only, and the turn is    *)
(* always one of theirs.                                                    *)
THEOREM GameTypeCorrect == Spec => []TypeOK
BY GameTypeInit, GameTypeStep, PTL DEF Spec

(* A cell is offered to a player exactly when it is empty and playing it    *)
(* turns a disc: get_valid_loc() and adjust_game() agree on every board.    *)
THEOREM OfferedCellsTurnDiscs == Spec => []ValidIffTurns
<1>1. ValidIffTurns
  BY OfferedIffTurns DEF ValidIffTurns
<1> QED BY <1>1, PTL

(* A move adds one disc and takes none from the mover: its gain beyond its  *)
(* own disc is the loss of the other side.                                  *)
THEOREM MovesOnlyGain == Spec => MoveGains
<1>1. TypeOK /\ [Next]_vars
        => [board' # board =>
              /\ Discs(board') = Discs(board) + 1
              /\ Score(board', turn) >= Score(board, turn) + 2
              /\ Score(board', turn) - Score(board, turn) - 1
                   = Score(board, turn') - Score(board', turn')]_vars
  <2> SUFFICES ASSUME TypeOK, Next, board' # board
               PROVE  /\ Discs(board') = Discs(board) + 1
                      /\ Score(board', turn) >= Score(board, turn) + 2
                      /\ Score(board', turn) - Score(board, turn) - 1
                           = Score(board, turn') - Score(board', turn')
    OBVIOUS
  <2>1. PICK p \in Players : Put(p)
    BY DEF Next, Skip
  <2>2. PICK l \in GetValidLoc(board, p) : board' = Place(board, p, l)
    BY <2>1, PutIs
  <2>3. p = turn /\ turn' = Other(p) /\ board \in Boards
    BY <2>1, PutIs DEF TypeOK
  <2> QED BY <2>2, <2>3, MoveCounts
<1> QED BY <1>1, GameTypeCorrect, PTL DEF Spec, MoveGains

(* Nobody is skipped in favour of a player who cannot move either, so the   *)
(* programs never pass the turn to and fro.                                 *)
THEOREM SkipsAreAnswered == Spec => SkipIsFollowedByMove
<1>1. TypeOK /\ [Next]_vars => [board' = board => IsMyTurnValid(board', turn')]_vars
  <2> SUFFICES ASSUME TypeOK, Next, board' = board
               PROVE  IsMyTurnValid(board', turn')
    OBVIOUS
  <2>1. ASSUME NEW p \in Players, Put(p)
        PROVE  FALSE
    <3>1. PICK l \in GetValidLoc(board, p) : l \in Locs /\ board' = Place(board, p, l)
      BY <2>1, PutIs
    <3>2. At(board, l) = 0 /\ p # 0
      BY <3>1, OfferedIs, OtherPlayer
    <3>3. board \in Boards /\ l \in Locs
      BY <3>1 DEF TypeOK
    <3>4. At(Place(board, p, l), l) = p
      BY <3>3, PlaceAt
    <3>5. At(board', l) = p
      BY <3>1, <3>4
    <3> QED BY <3>2, <3>5
  <2>2. PICK p \in Players : Skip(p)
    BY <2>1 DEF Next
  <2>3. PICK q \in Players : GetValidLoc(board, q) # {}
    BY <2>2 DEF Skip, IsTimeToEnd
  <2>4. q = Other(p) /\ turn' = q
    BY <2>2, <2>3, OtherPlayer DEF Skip, IsMyTurnValid
  <2> QED BY <2>3, <2>4 DEF IsMyTurnValid
<1> QED BY <1>1, GameTypeCorrect, PTL DEF Spec, SkipIsFollowedByMove
=============================================================================
