------------------------------- MODULE Othello ------------------------------
(***************************************************************************)
(* The two othello processes of HW_4: the server (player 1) and the client *)
(* (player 2).  Each has two threads, the main thread ("Net..." actions),  *)
(* which sets the connection up and then reads the socket, and play_game   *)
(* ("Play..." actions), which owns the board and the keyboard.  They share *)
(* the game_comm record comm.  The processes share nothing but a TCP       *)
(* connection, one FIFO of messages per direction.                         *)
(*                                                                         *)
(* A step of a thread runs from one lock section or unlocked access to a   *)
(* shared field to the next, so the threads interleave wherever they can   *)
(* see each other; a section under play_lock or conn_lock is one step.     *)
(***************************************************************************)
EXTENDS OthelloRules, Sequences

CONSTANTS
  Restarts,   \* <<p, q>>: p's user presses R while p's program shows q's turn
  Quits,      \* do users press Q?
  EarlyKeys,  \* may a key be typed before the main thread stored targetFD?
  Coalesce,   \* may one read() return several messages?
  SendBuf,    \* messages a socket buffers before write() says EAGAIN
  MaxDiscs    \* bound of a run: nobody plays a move on a board this full

ASSUME RestartsAssumption  == Restarts \subseteq Players \X Players
ASSUME QuitsAssumption     == Quits \in BOOLEAN
ASSUME EarlyKeysAssumption == EarlyKeys \in BOOLEAN
ASSUME CoalesceAssumption  == Coalesce \in BOOLEAN
ASSUME SendBufAssumption   == SendBuf \in Nat \ {0}
ASSUME MaxDiscsAssumption  == MaxDiscs \in Nat

VARIABLES
  board,     \* board[p]: the global array of p's process
  comm,      \* comm[p]: the game_comm record its two threads share
  targetFD,  \* targetFD[p]: "stdin" (the global's initial 0) or "sock"
  playPc,    \* where p's play_game thread is
  netPc,     \* where p's main thread is
  chan,      \* chan[p]: messages written to p and not read yet
  closed     \* closed[p]: "no", or how p's kernel ended the connection:
             \* "fin", or "rst" if p had not read everything

vars == <<board, comm, targetFD, playPc, netPc, chan, closed>>

NoLoc == <<0, 0>>

Comms == [is_start : BOOLEAN, lost_con : BOOLEAN, player : Players \cup {0},
          pos : Locs, need_update : BOOLEAN, need_restart : BOOLEAN,
          need_quit : BOOLEAN]

\* A command as written on the wire; the fields it does not use are zero.
Messages ==      [kind : {"MOVE"}, player : Players, loc : Locs]
            \cup [kind : {"SKIP"}, player : Players, loc : {NoLoc}]
            \cup [kind : {"RESTART", "QUIT"}, player : {0}, loc : {NoLoc}]

\* Seeded fault: the wire counts cells from one.
MoveFromOne(p, l) == [kind |-> "MOVE", player |-> p, loc |-> <<l[1] + 1, l[2] + 1>>]

Move(p, l)   == [kind |-> "MOVE", player |-> p, loc |-> l]
SkipTo(next) == [kind |-> "SKIP", player |-> next, loc |-> NoLoc]
RestartCmd   == [kind |-> "RESTART", player |-> 0, loc |-> NoLoc]
QuitCmd      == [kind |-> "QUIT", player |-> 0, loc |-> NoLoc]

LoopPcs  == {"conn", "update", "flags", "eval", "skip", "key"}
SetupPcs == {"none", "wait", "restart"}
DeadPcs  == {"refused", "segv", "sigpipe"}
PlayPcs  == SetupPcs \cup LoopPcs \cup {"quit", "done"} \cup DeadPcs
NetPcs   == {"boot", "accept", "connect", "start", "target",
             "check", "read", "close", "join"} \cup DeadPcs

Init ==
  /\ board = [p \in Players |-> EmptyBoard]
  /\ comm  = [p \in Players |->
       [is_start |-> FALSE, lost_con |-> FALSE, player |-> 0, pos |-> NoLoc,
        need_update |-> FALSE, need_restart |-> FALSE, need_quit |-> FALSE]]
  /\ targetFD = [p \in Players |-> "stdin"]
  /\ playPc   = [p \in Players |-> "none"]
  /\ netPc    = [p \in Players |-> "boot"]
  /\ chan     = [p \in Players |-> <<>>]
  /\ closed   = [p \in Players |-> "no"]

Close(p) == closed' = [closed EXCEPT ![p] = IF chan[p] = <<>> THEN "fin" ELSE "rst"]

\* p's whole process ends: both threads stop and the kernel closes the socket.
Die(p, how) ==
  /\ playPc' = [playPc EXCEPT ![p] = how]
  /\ netPc'  = [netPc EXCEPT ![p] = how]
  /\ Close(p)

NetGoto(p, pc)  == netPc' = [netPc EXCEPT ![p] = pc]
PlayGoto(p, pc) == playPc' = [playPc EXCEPT ![p] = pc]

-----------------------------------------------------------------------------
(* Setting the connection up: server_connect() and client_connect().       *)

NetListen ==
  /\ netPc[PLAYER1] = "boot"
  /\ NetGoto(PLAYER1, "accept")
  /\ UNCHANGED <<board, comm, targetFD, playPc, chan, closed>>

\* accept() returns once the client's connect() has succeeded.
NetAccept ==
  /\ netPc[PLAYER1] = "accept"
  /\ netPc[PLAYER2] \notin {"boot", "connect", "refused"}
  /\ comm' = [comm EXCEPT ![PLAYER1].player = PLAYER1]
  /\ PlayGoto(PLAYER1, "wait")
  /\ NetGoto(PLAYER1, "start")
  /\ UNCHANGED <<board, targetFD, chan, closed>>

\* The client creates its play_game thread before it connects.
NetCreateThread ==
  /\ netPc[PLAYER2] = "boot"
  /\ PlayGoto(PLAYER2, "wait")
  /\ NetGoto(PLAYER2, "connect")
  /\ UNCHANGED <<board, comm, targetFD, chan, closed>>

NetConnect ==
  /\ netPc[PLAYER2] = "connect"
  /\ UNCHANGED <<board, comm, targetFD, chan>>
  /\ IF netPc[PLAYER1] = "boot"
       THEN Die(PLAYER2, "refused")
       ELSE NetGoto(PLAYER2, "target") /\ UNCHANGED <<playPc, closed>>

\* comm.is_start = 1: before the server stores targetFD, after the client does.
NetStart(p) ==
  /\ netPc[p] = "start"
  /\ comm' = [comm EXCEPT ![p].is_start = TRUE]
  /\ NetGoto(p, IF p = PLAYER1 THEN "target" ELSE "check")
  /\ UNCHANGED <<board, targetFD, playPc, chan, closed>>

NetTarget(p) ==
  /\ netPc[p] = "target"
  /\ targetFD' = [targetFD EXCEPT ![p] = "sock"]
  /\ NetGoto(p, IF p = PLAYER1 THEN "check" ELSE "start")
  /\ UNCHANGED <<board, comm, playPc, chan, closed>>

-----------------------------------------------------------------------------
(* The read loop of the main thread.                                       *)

\* Seeded faults: the move is stored but not announced; a restart is ignored.
UpdateUnannounced(c, m) ==
  IF m.kind = "MOVE" /\ ~c.need_quit THEN [c EXCEPT !.player = m.player, !.pos = m.loc]
                                     ELSE c
UpdateNoRestart(c, m) ==
  IF m.kind # "MOVE" \/ c.need_quit THEN c
  ELSE [c EXCEPT !.player = m.player, !.pos = m.loc, !.need_update = TRUE]

\* update(): what one parsed command does to the shared record.
Update(c, m) ==
  IF c.need_quit THEN c
  ELSE CASE m.kind = "RESTART" -> [c EXCEPT !.need_restart = TRUE]
         [] m.kind = "QUIT"    -> [c EXCEPT !.need_quit = TRUE]
         [] m.kind = "SKIP"    -> [c EXCEPT !.player = m.player]
         [] m.kind = "MOVE"    -> [c EXCEPT !.player = m.player, !.pos = m.loc,
                                            !.need_update = TRUE]

NetCheck(p) ==
  /\ netPc[p] = "check"
  /\ NetGoto(p, IF comm[p].lost_con THEN "close" ELSE "read")
  /\ UNCHANGED <<board, comm, targetFD, playPc, chan, closed>>

\* One read() takes n messages off the stream, but strtok() and sscanf() stop
\* at the end of the first: the other n - 1 are lost.
NetReadData(p) ==
  /\ netPc[p] = "read"
  /\ chan[p] # <<>>
  /\ \E n \in 1 .. (IF Coalesce THEN Len(chan[p]) ELSE 1) :
       chan' = [chan EXCEPT ![p] = SubSeq(@, n + 1, Len(@))]
  /\ comm' = [comm EXCEPT ![p] = Update(@, Head(chan[p]))]
  /\ NetGoto(p, "check")
  /\ UNCHANGED <<board, targetFD, playPc, closed>>

\* EAGAIN: no data, connection open.
NetReadNothing(p) ==
  /\ netPc[p] = "read"
  /\ chan[p] = <<>>
  /\ closed[Other(p)] = "no"
  /\ NetGoto(p, "check")
  /\ UNCHANGED <<board, comm, targetFD, playPc, chan, closed>>

\* read() returns 0 and update("") runs: it returns at once if the peer's quit
\* has been seen, and otherwise compares the NULL that strtok() returned.
NetReadEof(p) ==
  /\ netPc[p] = "read"
  /\ chan[p] = <<>>
  /\ closed[Other(p)] = "fin"
  /\ IF comm[p].need_quit
       THEN NetGoto(p, "check") /\ UNCHANGED <<playPc, closed>>
       ELSE Die(p, "segv")
  /\ UNCHANGED <<board, comm, targetFD, chan>>

\* Data of ours reached a peer that never read it: the connection was reset.
NetReadError(p) ==
  /\ netPc[p] = "read"
  /\ chan[p] = <<>>
  /\ closed[Other(p)] # "no" /\ chan[Other(p)] # <<>>
  /\ comm' = [comm EXCEPT ![p].lost_con = TRUE]
  /\ NetGoto(p, "close")
  /\ UNCHANGED <<board, targetFD, playPc, chan, closed>>

\* Close the socket, leave server_connect()/client_connect(), join the thread.
NetClose(p) ==
  /\ netPc[p] = "close"
  /\ Close(p)
  /\ NetGoto(p, "join")
  /\ UNCHANGED <<board, comm, targetFD, playPc, chan>>

Net(p) ==
  \/ p = PLAYER1 /\ (NetListen \/ NetAccept)
  \/ p = PLAYER2 /\ (NetCreateThread \/ NetConnect)
  \/ NetStart(p) \/ NetTarget(p) \/ NetCheck(p) \/ NetReadData(p)
  \/ NetReadNothing(p) \/ NetReadEof(p) \/ NetReadError(p) \/ NetClose(p)

-----------------------------------------------------------------------------
(* sock_write() by p's play thread, which leaves its shared record as c    *)
(* and goes on at pc.  A write to a peer that has closed is swallowed,     *)
(* refused or fatal (SIGPIPE); one that finds the buffer full (EAGAIN) or  *)
(* goes to file descriptor 0 is lost without a trace.                      *)

WriteOutcomes(p) ==
  IF targetFD[p] = "stdin" THEN {"lost"}
  ELSE IF closed[p] # "no" THEN {"failed"}
  ELSE IF closed[Other(p)] # "no" THEN {"sent", "failed", "killed"}
  ELSE {"sent"}

Enqueue(q, m) ==
  IF Len(chan[q]) < SendBuf THEN [chan EXCEPT ![q] = Append(@, m)] ELSE chan

SockWrite(p, m, c, pc) ==
  \E outcome \in WriteOutcomes(p) :
    /\ chan' = IF outcome = "sent" THEN Enqueue(Other(p), m) ELSE chan
    /\ comm' = [comm EXCEPT ![p] =
                  IF outcome = "failed" THEN [c EXCEPT !.lost_con = TRUE] ELSE c]
    /\ IF outcome = "killed" THEN Die(p, "sigpipe")
                             ELSE PlayGoto(p, pc) /\ UNCHANGED <<netPc, closed>>

-----------------------------------------------------------------------------
(* The play_game thread.                                                   *)

PlayWait(p) ==
  /\ playPc[p] = "wait"
  /\ comm[p].is_start
  /\ PlayGoto(p, "restart")
  /\ UNCHANGED <<board, comm, targetFD, netPc, chan, closed>>

\* Seeded fault: who restarts a game begins it.
PlayRestartBegins(p) ==
  /\ playPc[p] = "restart"
  /\ comm'  = [comm EXCEPT ![p].player = p, ![p].need_restart = FALSE]
  /\ board' = [board EXCEPT ![p] = InitBoard]
  /\ PlayGoto(p, "conn")
  /\ UNCHANGED <<targetFD, netPc, chan, closed>>

\* The restart label: need_update, and a move it announces, are left alone.
PlayRestart(p) ==
  /\ playPc[p] = "restart"
  /\ comm'  = [comm EXCEPT ![p].player = PLAYER1, ![p].need_restart = FALSE]
  /\ board' = [board EXCEPT ![p] = InitBoard]
  /\ PlayGoto(p, "conn")
  /\ UNCHANGED <<targetFD, netPc, chan, closed>>

PlayConn(p) ==
  /\ playPc[p] = "conn"
  /\ PlayGoto(p, IF comm[p].lost_con THEN "quit" ELSE "update")
  /\ UNCHANGED <<board, comm, targetFD, netPc, chan, closed>>

\* Seeded fault: the peer's disc is put down in my colour.
ReceivedInMyColour(p, b) == Place(b, p, comm[p].pos)

\* The board b once the move in p's shared record is on it.
Received(p, b) == Place(b, comm[p].player, comm[p].pos)

\* Apply the peer's move, if there is one, and take the turn.
PlayUpdate(p) ==
  /\ playPc[p] = "update"
  /\ IF comm[p].need_update
       THEN /\ board' = [board EXCEPT ![p] = Received(p, @)]
            /\ comm'  = [comm EXCEPT ![p].need_update = FALSE, ![p].player = p]
       ELSE UNCHANGED <<board, comm>>
  /\ PlayGoto(p, "flags")
  /\ UNCHANGED <<targetFD, netPc, chan, closed>>

\* Seeded fault: only the quit flag is looked at.
PlayFlagsQuitOnly(p) ==
  /\ playPc[p] = "flags"
  /\ PlayGoto(p, IF comm[p].need_quit THEN "quit" ELSE "eval")
  /\ UNCHANGED <<board, comm, targetFD, netPc, chan, closed>>

PlayFlags(p) ==
  /\ playPc[p] = "flags"
  /\ PlayGoto(p, CASE comm[p].need_restart -> "restart"
                   [] ~comm[p].need_restart /\ comm[p].need_quit -> "quit"
                   [] OTHER -> "eval")
  /\ UNCHANGED <<board, comm, targetFD, netPc, chan, closed>>

\* The second look at need_quit, then: end of game, skip my turn, or play.
PlayEval(p) ==
  /\ playPc[p] = "eval"
  /\ PlayGoto(p, CASE comm[p].need_quit -> "quit"
                   [] /\ ~comm[p].need_quit
                      /\ comm[p].player = p
                      /\ ~IsMyTurnValid(board[p], p)
                      /\ ~IsTimeToEnd(board[p]) -> "skip"
                   [] OTHER -> "key")
  /\ UNCHANGED <<board, comm, targetFD, netPc, chan, closed>>

\* Seeded fault: the mover does not give its turn up.
KeepTurn(p) == comm[p]

\* The mover's shared record says whose turn is next.
PassTurn(p) == [comm[p] EXCEPT !.player = Other(p)]

PlaySkip(p) ==
  /\ playPc[p] = "skip"
  /\ SockWrite(p, SkipTo(Other(p)), PassTurn(p), "conn")
  /\ UNCHANGED <<board, targetFD>>

\* getch() timed out, or the key moved the cursor or did nothing.
PlayIdle(p) ==
  /\ playPc[p] = "key"
  /\ PlayGoto(p, "conn")
  /\ UNCHANGED <<board, comm, targetFD, netPc, chan, closed>>

\* Seeded fault: any empty cell will do.
EmptyLocs(p) == {l \in Locs : At(board[p], l) = 0}

\* The cells is_valid_loc() accepts.
ValidLocs(p) == GetValidLoc(board[p], p)

KeyTyped(p) ==
  /\ playPc[p] = "key"
  /\ EarlyKeys \/ targetFD[p] = "sock"

\* Space (server) or Return (client) with the cursor on a valid cell.
PlayPut(p) ==
  /\ KeyTyped(p)
  /\ comm[p].player = p
  /\ Discs(board[p]) < MaxDiscs
  /\ \E l \in ValidLocs(p) :
       /\ board' = [board EXCEPT ![p] = Place(@, p, l)]
       /\ SockWrite(p, Move(p, l), PassTurn(p), "conn")
  /\ UNCHANGED targetFD

PlayPressRestart(p) ==
  /\ KeyTyped(p)
  /\ <<p, comm[p].player>> \in Restarts
  /\ SockWrite(p, RestartCmd, comm[p], "restart")
  /\ UNCHANGED <<board, targetFD>>

PlayPressQuit(p) ==
  /\ KeyTyped(p)
  /\ Quits
  /\ SockWrite(p, QuitCmd, comm[p], "quit")
  /\ UNCHANGED <<board, targetFD>>

\* Seeded fault: the play thread leaves without telling the main thread.
PlayQuitSilently(p) ==
  /\ playPc[p] = "quit"
  /\ PlayGoto(p, "done")
  /\ UNCHANGED <<board, comm, targetFD, netPc, chan, closed>>

\* The quit label.
PlayQuit(p) ==
  /\ playPc[p] = "quit"
  /\ comm' = [comm EXCEPT ![p].lost_con = TRUE]
  /\ PlayGoto(p, "done")
  /\ UNCHANGED <<board, targetFD, netPc, chan, closed>>

Play(p) ==
  \/ PlayWait(p) \/ PlayRestart(p) \/ PlayConn(p) \/ PlayUpdate(p)
  \/ PlayFlags(p) \/ PlayEval(p) \/ PlaySkip(p) \/ PlayIdle(p)
  \/ PlayPut(p) \/ PlayPressRestart(p) \/ PlayPressQuit(p) \/ PlayQuit(p)

-----------------------------------------------------------------------------
Next == \E p \in Players : Net(p) \/ Play(p)

Spec == Init /\ [][Next]_vars

\* The system schedules both threads of both processes; no key is ever owed.
Fairness == \A p \in Players : WF_vars(Net(p)) /\ WF_vars(Play(p))

FairSpec == Spec /\ Fairness

-----------------------------------------------------------------------------
(* Type invariant.                                                         *)
TypeOK ==
  /\ board \in [Players -> Boards]
  /\ comm \in [Players -> Comms]
  /\ targetFD \in [Players -> {"stdin", "sock"}]
  /\ playPc \in [Players -> PlayPcs]
  /\ netPc \in [Players -> NetPcs]
  /\ chan \in [Players -> Seq(Messages)]
  /\ closed \in [Players -> {"no", "fin", "rst"}]

\* p's program would let p's user move now.
HasTurn(p) == playPc[p] \in LoopPcs /\ comm[p].player = p

\* A command that will give p the turn is on its way or in p's shared record.
InFlight(p) ==
  \/ comm[p].need_update
  \/ \E i \in DOMAIN chan[p] : chan[p][i].kind \in {"MOVE", "SKIP"}

(* The turn is in one place: with one of the two play loops, or on its way  *)
(* to one of them.  The two comm.player fields never make both users think  *)
(* it is their turn, whatever the interleaving of the four threads.         *)
OneTurn ==
  \A p \in Players :
    /\ HasTurn(p) => ~InFlight(p)
    /\ HasTurn(p) \/ InFlight(p) => ~HasTurn(Other(p)) /\ ~InFlight(Other(p))

\* What p's user sees, or is about to see when play_game gets to init_board().
View(p) == IF playPc[p] \in SetupPcs THEN InitBoard ELSE board[p]

\* p's view once the move on its way to p, if there is one, is on the board.
ViewToBe(p) ==
  IF comm[p].need_update THEN Received(p, View(p))
  ELSE IF chan[p] # <<>> /\ Head(chan[p]).kind = "MOVE"
    THEN Place(View(p), Head(chan[p]).player, Head(chan[p]).loc)
  ELSE View(p)

Playing(p) == playPc[p] \in LoopPcs /\ ~comm[p].lost_con

(* While both users play, their boards are the same up to the one move that *)
(* may be under way: what was validated and turned over on one side is      *)
(* turned over identically on the other (update, main loop, adjust_game).   *)
SameView ==
  (\A p \in Players : Playing(p) \/ playPc[p] \in SetupPcs)
    => ViewToBe(PLAYER1) = ViewToBe(PLAYER2)

\* Both play, and everything that was sent has been read and acted on.
AtRest ==
  \A p \in Players : /\ Playing(p)
                      /\ chan[p] = <<>>
                      /\ ~comm[p].need_update
                      /\ ~comm[p].need_restart

(* "Ensure the both two players have the same view of game board"           *)
(* (HW_4/README.md:30): when everything sent has been read and acted on,    *)
(* the two boards are equal.                                                *)
SameViewAtRest == AtRest => board[PLAYER1] = board[PLAYER2]

(* After a restart, too, one user has the turn: neither both nor nobody.    *)
OneTurnAtRest == AtRest => (HasTurn(PLAYER1) <=> ~HasTurn(PLAYER2))

Exited(p) == playPc[p] \in DeadPcs \/ (playPc[p] = "done" /\ netPc[p] = "join")

(* A turn handed over arrives: the command is read, the move is applied and *)
(* the receiver may play, without any help of the users (unless one quits). *)
TurnArrives ==
  \A p \in Players :
    InFlight(p) ~> \/ HasTurn(p)
                   \/ \E q \in Players : playPc[q] \in {"quit", "done"} \cup DeadPcs

(* Once a user quits, both processes end, threads and all: by the quit      *)
(* command, by the closed connection or, failing that, by a signal.         *)
QuitEndsBoth ==
  \A p \in Players : playPc[p] = "quit" ~> \A q \in Players : Exited(q)

(* A restart command that was read is not lost between the threads: play    *)
(* goes back to the opening position, unless the program ends first.        *)
RestartHonoured ==
  \A p \in Players :
    comm[p].need_restart ~> \/ playPc[p] = "conn" /\ board[p] = InitBoard
                            \/ playPc[p] \in {"done"} \cup DeadPcs

-----------------------------------------------------------------------------
(* Refinement: the two boards and turns together play the one game of       *)
(* OthelloGame.  A move happens when it is sent, so the game's board is the *)
(* fuller of the two views.                                                 *)

LeadingView ==
  IF Discs(View(PLAYER2)) > Discs(View(PLAYER1)) THEN View(PLAYER2) ELSE View(PLAYER1)

Game == INSTANCE OthelloGame
          WITH board <- LeadingView,
               turn  <- IF HasTurn(PLAYER2) \/ InFlight(PLAYER2) THEN PLAYER2 ELSE PLAYER1

(* The programs implement the game: every step is a legal move, a skip of a *)
(* player who cannot move, or invisible.                                    *)
PlaysOneGame == Game!Spec
=============================================================================
