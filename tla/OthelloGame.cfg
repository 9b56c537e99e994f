\* Every game on a 4x4 board, to its end.
SPECIFICATION Spec
CONSTANT BOARDSZ = 4
INVARIANTS TypeOK ValidIffTurns
PROPERTIES MoveGains 
\* A game ends when nobody can move.
CHECK_DEADLOCK FALSE
