------------------------------ MODULE OthelloMC -----------------------------
(***************************************************************************)
(* Values of Restarts for the runs of Othello.tla: who presses R, and      *)
(* whose turn that user's screen shows at the time.                        *)
(***************************************************************************)
EXTENDS Othello

Never        == {}
AnyTime      == Players \X Players
OnClientTurn == {<<PLAYER2, PLAYER2>>}
=============================================================================
