---------------------------- MODULE OthelloProofs ---------------------------
(***************************************************************************)
(* Proofs about Othello.tla for every value of its constants.              *)
(***************************************************************************)
EXTENDS Othello, OthelloRulesProofs, SequenceTheorems

-----------------------------------------------------------------------------
(* Facts about boards and records.                                         *)

LEMMA NoLocType == NoLoc \in Locs
BY BoardSizeAssumption DEF NoLoc, Locs, Index

LEMMA InitBoardType == EmptyBoard \in Boards /\ InitBoard \in Boards
BY DEF EmptyBoard, InitBoard, Boards, Players

\* The fields that are written one by one.
LEMMA FieldTypes ==
  ASSUME NEW c \in Comms, NEW q \in Players \cup {0}
  PROVE  /\ [c EXCEPT !.is_start = TRUE] \in Comms
         /\ [c EXCEPT !.lost_con = TRUE] \in Comms
         /\ [c EXCEPT !.player = q] \in Comms
         /\ [c EXCEPT !.need_update = FALSE, !.player = q] \in Comms
         /\ [c EXCEPT !.player = q, !.need_restart = FALSE] \in Comms
BY DEF Comms

LEMMA UpdateType ==
  ASSUME NEW c \in Comms, NEW m \in Messages
  PROVE  Update(c, m) \in Comms
BY NoLocType DEF Update, Comms, Messages

\* Enqueue() keeps channels sequences of messages.
LEMMA EnqueueType ==
  ASSUME TypeOK, NEW q \in Players, NEW m \in Messages
  PROVE  Enqueue(q, m) \in [Players -> Seq(Messages)]
BY DEF TypeOK, Enqueue

\* What a write by p's play thread leaves, whatever its outcome.
LEMMA SockWriteType ==
  ASSUME TypeOK, NEW p \in Players, NEW m \in Messages, NEW c \in Comms,
         NEW pc \in PlayPcs, SockWrite(p, m, c, pc)
  PROVE  /\ chan' \in [Players -> Seq(Messages)]
         /\ comm' \in [Players -> Comms]
         /\ playPc' \in [Players -> PlayPcs]
         /\ netPc' \in [Players -> NetPcs]
         /\ closed' \in [Players -> {"no", "fin", "rst"}]
         /\ \A q \in Players : q # p => comm'[q] = comm[q]
         /\ comm'[p] \in {c, [c EXCEPT !.lost_con = TRUE]}
<1>1. PICK outcome \in WriteOutcomes(p) :
        /\ chan' = IF outcome = "sent" THEN Enqueue(Other(p), m) ELSE chan
        /\ comm' = [comm EXCEPT ![p] =
                      IF outcome = "failed" THEN [c EXCEPT !.lost_con = TRUE] ELSE c]
        /\ IF outcome = "killed" THEN Die(p, "sigpipe")
                                 ELSE PlayGoto(p, pc) /\ UNCHANGED <<netPc, closed>>
  BY DEF SockWrite
<1>2. chan' \in [Players -> Seq(Messages)]
  BY <1>1, EnqueueType, OtherPlayer DEF TypeOK
<1>3. comm' \in [Players -> Comms]
  BY <1>1, FieldTypes DEF TypeOK
<1> USE DEF TypeOK
<1>6. comm'[p] \in {c, [c EXCEPT !.lost_con = TRUE]}
  BY <1>1
<1>7. \A q \in Players : q # p => comm'[q] = comm[q]
  BY <1>1
<1>4. /\ playPc' \in [Players -> PlayPcs]
      /\ netPc' \in [Players -> NetPcs]
      /\ closed' \in [Players -> {"no", "fin", "rst"}]
  <2>1. CASE outcome = "killed"
    <3>1. Die(p, "sigpipe")
      BY <1>1, <2>1
    <3> QED BY <3>1 DEF Die, Close, PlayPcs, NetPcs, DeadPcs
  <2>2. CASE outcome # "killed"
    <3>1. PlayGoto(p, pc) /\ UNCHANGED <<netPc, closed>>
      BY <1>1, <2>2
    <3> QED BY <3>1 DEF PlayGoto
  <2> QED BY <2>1, <2>2
<1> QED BY <1>2, <1>3, <1>4, <1>6, <1>7

\* A read takes a non-empty prefix off the channel.
LEMMA ReadPrefix ==
  ASSUME TypeOK, NEW p \in Players, NetReadData(p)
  PROVE  /\ Head(chan[p]) = chan[p][1] /\ chan[p][1] \in Messages
         /\ 1 \in DOMAIN chan[p]
         /\ \A q \in Players : q # p => chan'[q] = chan[q]
         /\ chan' \in [Players -> Seq(Messages)]
         /\ \E n \in Nat \ {0} : \A i \in DOMAIN chan'[p] :
              /\ i \in Nat \ {0}
              /\ i + n \in DOMAIN chan[p]
              /\ chan'[p][i] = chan[p][i + n]
<1> DEFINE s == chan[p]
<1>1. s \in Seq(Messages) /\ s # <<>>
  BY DEF TypeOK, NetReadData
<1>2. Len(s) \in Nat \ {0} /\ DOMAIN s = 1 .. Len(s)
  BY <1>1, EmptySeq, LenProperties
<1>3. PICK n \in 1 .. Len(s) : chan' = [chan EXCEPT ![p] = SubSeq(s, n + 1, Len(s))]
  <2>1. PICK n \in 1 .. (IF Coalesce THEN Len(s) ELSE 1) :
          chan' = [chan EXCEPT ![p] = SubSeq(s, n + 1, Len(s))]
    BY DEF NetReadData
  <2>2. n \in 1 .. Len(s)
    <3> HIDE DEF s
    <3> QED BY <1>2, <2>1, CoalesceAssumption
  <2> QED BY <2>1, <2>2
<1> DEFINE t == SubSeq(s, n + 1, Len(s))
<1>4. \A i \in n + 1 .. Len(s) : s[i] \in Messages
  BY <1>1, <1>2, <1>3
<1>5. /\ t \in Seq(Messages)
      /\ Len(t) = IF n + 1 <= Len(s) THEN Len(s) - n ELSE 0
      /\ \A i \in 1 .. Len(s) - n : t[i] = s[i + n]
  <2>1. n + 1 \in Int /\ Len(s) \in Int
    BY <1>2, <1>3
  <2> HIDE DEF s
  <2> QED BY <1>2, <1>3, <1>4, <2>1, SubSeqProperties
<1>6. chan'[p] = t /\ \A q \in Players : q # p => chan'[q] = chan[q]
  BY <1>3 DEF TypeOK
<1>7. DOMAIN t = 1 .. Len(t)
  BY <1>5, LenProperties
<1>9. chan' \in [Players -> Seq(Messages)]
  BY <1>3, <1>5 DEF TypeOK
<1> HIDE DEF s, t
<1>8. \A i \in DOMAIN t : i \in Nat \ {0} /\ i + n \in DOMAIN s /\ t[i] = s[i + n]
  <2>1. SUFFICES ASSUME NEW i \in DOMAIN t
                 PROVE  i \in Nat \ {0} /\ i + n \in DOMAIN s /\ t[i] = s[i + n]
    OBVIOUS
  <2>2. i \in 1 .. Len(s) - n
    <3>1. i \in 1 .. Len(t)
      BY <1>7
    <3>2. Len(t) = IF n + 1 <= Len(s) THEN Len(s) - n ELSE 0
      BY <1>5
    <3>3. n \in 1 .. Len(s) /\ Len(s) \in Nat
      BY <1>2, <1>3
    <3>4. CASE n + 1 <= Len(s)
      BY <3>1, <3>2, <3>3, <3>4
    <3>5. CASE ~(n + 1 <= Len(s))
      BY <3>1, <3>2, <3>3, <3>5
    <3> QED BY <3>4, <3>5
  <2>3. i \in Nat \ {0} /\ i + n \in DOMAIN s
    BY <1>2, <1>3, <2>2
  <2> QED BY <1>5, <2>2, <2>3
<1>10. Head(s) = s[1] /\ s[1] \in Messages /\ 1 \in DOMAIN s
  BY <1>1, <1>2 DEF s
<1> QED BY <1>3, <1>6, <1>8, <1>9, <1>10 DEF s

-----------------------------------------------------------------------------
(* Type correctness.  A move is put on the board in the colour its command *)
(* named, so comm.player must be a player's number, and not the initial 0, *)
(* whenever need_update is set.                                            *)

TypeInv ==
  /\ TypeOK
  /\ \A p \in Players : comm[p].need_update => comm[p].player \in Players

LEMMA TypeInit == Init => TypeInv
BY InitBoardType, NoLocType
   DEF Init, TypeInv, TypeOK, Comms, PlayPcs, SetupPcs, NetPcs

LEMMA NetTypeStep ==
  ASSUME TypeInv, NEW p \in Players, Net(p)
  PROVE  TypeInv'
<1> USE DEF TypeInv, TypeOK, NetGoto, PlayGoto
<1>1. CASE p = PLAYER1 /\ NetListen
  BY <1>1 DEF NetListen, NetPcs
<1>2. CASE p = PLAYER1 /\ NetAccept
  <2>1. comm' = [comm EXCEPT ![PLAYER1] = [comm[PLAYER1] EXCEPT !.player = PLAYER1]]
    BY <1>2 DEF NetAccept
  <2>2. PLAYER1 \in Players
    BY DEF Players
  <2>3. comm' \in [Players -> Comms]
    BY <2>1, <2>2, FieldTypes
  <2> QED BY <1>2, <2>1, <2>2, <2>3 DEF NetAccept, NetPcs, PlayPcs, SetupPcs, Comms
<1>3. CASE p = PLAYER2 /\ NetCreateThread
  BY <1>3 DEF NetCreateThread, NetPcs, PlayPcs, SetupPcs
<1>4. CASE p = PLAYER2 /\ NetConnect
  BY <1>4 DEF NetConnect, Die, Close, NetPcs, PlayPcs, DeadPcs
<1>5. CASE NetStart(p)
  <2>1. comm' \in [Players -> Comms]
    BY <1>5, FieldTypes DEF NetStart
  <2> QED BY <1>5, <2>1 DEF NetStart, NetPcs, Comms
<1>6. CASE NetTarget(p)
  BY <1>6 DEF NetTarget, NetPcs
<1>7. CASE NetCheck(p)
  BY <1>7 DEF NetCheck, NetPcs
<1>8. CASE NetReadData(p)
  <2>1. Head(chan[p]) \in Messages /\ chan' \in [Players -> Seq(Messages)]
    BY <1>8, ReadPrefix
  <2>2. comm' \in [Players -> Comms]
    BY <1>8, <2>1, UpdateType DEF NetReadData
  <2>4. ASSUME NEW q \in Players, comm'[q].need_update
        PROVE  comm'[q].player \in Players
    <3>1. CASE q # p
      BY <1>8, <2>4, <3>1 DEF NetReadData
    <3>2. CASE q = p
      <4>1. comm'[p] = Update(comm[p], Head(chan[p]))
        BY <1>8 DEF NetReadData
      <4> QED BY <2>1, <2>4, <3>2, <4>1 DEF Update, Comms, Messages
    <3> QED BY <3>1, <3>2
  <2> QED BY <1>8, <2>1, <2>2, <2>4 DEF NetReadData, NetPcs
<1>9. CASE NetReadNothing(p)
  BY <1>9 DEF NetReadNothing, NetPcs
<1>10. CASE NetReadEof(p)
  BY <1>10 DEF NetReadEof, Die, Close, NetPcs, PlayPcs, DeadPcs
<1>11. CASE NetReadError(p)
  <2>1. comm' \in [Players -> Comms]
    BY <1>11, FieldTypes DEF NetReadError
  <2> QED BY <1>11, <2>1 DEF NetReadError, NetPcs, Comms
<1>12. CASE NetClose(p)
  BY <1>12 DEF NetClose, Close, NetPcs
<1> QED
  BY <1>1, <1>2, <1>3, <1>4, <1>5, <1>6, <1>7, <1>8, <1>9, <1>10, <1>11, <1>12
  DEF Net

LEMMA SockWriteKeepsTypeInv ==
  ASSUME TypeInv, NEW p \in Players, NEW m \in Messages, NEW c \in Comms,
         NEW pc \in PlayPcs, SockWrite(p, m, c, pc),
         c.need_update => c.player \in Players,
         board' \in [Players -> Boards], UNCHANGED targetFD
  PROVE  TypeInv'
<1>1. comm'[p].need_update = c.need_update /\ comm'[p].player = c.player
  BY SockWriteType DEF TypeInv, Comms
<1>2. comm'[p].need_update => comm'[p].player \in Players
  BY <1>1
<1>3. \A q \in Players : q # p => comm'[q] = comm[q]
  BY SockWriteType DEF TypeInv
<1>4. TypeOK'
  BY SockWriteType DEF TypeInv, TypeOK
<1> QED BY <1>2, <1>3, <1>4 DEF TypeInv

LEMMA PlayTypeStep ==
  ASSUME TypeInv, NEW p \in Players, Play(p)
  PROVE  TypeInv'
<1> USE DEF TypeInv, NetGoto, PlayGoto
<1>1. CASE PlayWait(p)
  BY <1>1 DEF TypeOK, PlayWait, PlayPcs, SetupPcs
<1>2. CASE PlayRestart(p)
  <2>1. comm' = [comm EXCEPT ![p] =
                   [comm[p] EXCEPT !.player = PLAYER1, !.need_restart = FALSE]]
    BY <1>2 DEF PlayRestart
  <2>2. PLAYER1 \in Players /\ PLAYER1 \in Players \cup {0}
    BY DEF Players
  <2>3. comm' \in [Players -> Comms]
    BY <2>1, <2>2, FieldTypes DEF TypeOK
  <2> QED BY <1>2, <2>1, <2>2, <2>3, InitBoardType
          DEF TypeOK, PlayRestart, PlayPcs, LoopPcs, Comms
<1>3. CASE PlayConn(p)
  BY <1>3 DEF TypeOK, PlayConn, PlayPcs, LoopPcs
<1>4. CASE PlayUpdate(p)
  <2>1. CASE comm[p].need_update
    <3>1. Received(p, board[p]) \in Boards
      BY <2>1, PlaceType DEF TypeOK, Received, Comms
    <3>2. [comm[p] EXCEPT !.need_update = FALSE, !.player = p] \in Comms
      BY FieldTypes DEF TypeOK
    <3>3. comm' = [comm EXCEPT ![p] = [comm[p] EXCEPT !.need_update = FALSE, !.player = p]]
      BY <1>4, <2>1 DEF PlayUpdate
    <3>4. comm' \in [Players -> Comms]
      BY <3>2, <3>3 DEF TypeOK
    <3>5. ~comm'[p].need_update
      BY <3>3 DEF TypeOK, Comms
    <3>6. \A q \in Players : q # p => comm'[q] = comm[q]
      BY <3>3 DEF TypeOK
    <3>7. board' \in [Players -> Boards]
      BY <1>4, <2>1, <3>1 DEF TypeOK, PlayUpdate
    <3>8. \A q \in Players : comm'[q].need_update => comm'[q].player \in Players
      BY <3>5, <3>6
    <3>9. /\ playPc' = [playPc EXCEPT ![p] = "flags"]
          /\ UNCHANGED <<targetFD, netPc, chan, closed>>
      BY <1>4 DEF PlayUpdate
    <3> QED BY <3>4, <3>7, <3>8, <3>9 DEF TypeOK, PlayPcs, LoopPcs
  <2>2. CASE ~comm[p].need_update
    BY <1>4, <2>2 DEF TypeOK, PlayUpdate, PlayPcs, LoopPcs
  <2> QED BY <2>1, <2>2
<1>5. CASE PlayFlags(p)
  BY <1>5 DEF TypeOK, PlayFlags, PlayPcs, LoopPcs, SetupPcs
<1>6. CASE PlayEval(p)
  BY <1>6 DEF TypeOK, PlayEval, PlayPcs, LoopPcs
<1>7. CASE PlaySkip(p)
  <2>1. PassTurn(p) \in Comms /\ SkipTo(Other(p)) \in Messages
    BY OtherPlayer, FieldTypes DEF TypeOK, PassTurn, SkipTo, Messages
  <2>2. "conn" \in PlayPcs
    BY DEF PlayPcs, LoopPcs
  <2>3. PassTurn(p).player \in Players
    BY OtherPlayer DEF PassTurn, TypeOK, Comms
  <2>4. SockWrite(p, SkipTo(Other(p)), PassTurn(p), "conn")
    BY <1>7 DEF PlaySkip
  <2>5. board' \in [Players -> Boards] /\ UNCHANGED targetFD
    BY <1>7 DEF PlaySkip, TypeOK
  <2> QED BY <2>1, <2>2, <2>3, <2>4, <2>5, SockWriteKeepsTypeInv
<1>8. CASE PlayIdle(p)
  BY <1>8 DEF TypeOK, PlayIdle, PlayPcs, LoopPcs
<1>9. CASE PlayPut(p)
  <2>1. PICK l \in ValidLocs(p) :
          /\ board' = [board EXCEPT ![p] = Place(@, p, l)]
          /\ SockWrite(p, Move(p, l), PassTurn(p), "conn")
    BY <1>9 DEF PlayPut
  <2>2. l \in Locs
    BY <2>1 DEF ValidLocs, GetValidLoc
  <2>3. PassTurn(p) \in Comms /\ Move(p, l) \in Messages
    BY <2>2, OtherPlayer, FieldTypes DEF TypeOK, PassTurn, Move, Messages
  <2>4. PassTurn(p).player \in Players
    BY OtherPlayer DEF PassTurn, TypeOK, Comms
  <2>5. board' \in [Players -> Boards]
    BY <2>1, <2>2, PlaceType DEF TypeOK
  <2>6. "conn" \in PlayPcs
    BY DEF PlayPcs, LoopPcs
  <2> QED BY <1>9, <2>1, <2>3, <2>4, <2>5, <2>6, SockWriteKeepsTypeInv DEF PlayPut
<1>10. CASE PlayPressRestart(p)
  <2>1. comm[p] \in Comms /\ RestartCmd \in Messages /\ "restart" \in PlayPcs
    BY DEF TypeOK, RestartCmd, Messages, PlayPcs, SetupPcs
  <2> QED BY <1>10, <2>1, SockWriteKeepsTypeInv DEF PlayPressRestart, TypeOK
<1>11. CASE PlayPressQuit(p)
  <2>1. comm[p] \in Comms /\ QuitCmd \in Messages /\ "quit" \in PlayPcs
    BY DEF TypeOK, QuitCmd, Messages, PlayPcs
  <2> QED BY <1>11, <2>1, SockWriteKeepsTypeInv DEF PlayPressQuit, TypeOK
<1>12. CASE PlayQuit(p)
  <2>1. comm' \in [Players -> Comms]
    BY <1>12, FieldTypes DEF TypeOK, PlayQuit
  <2>2. \A q \in Players : /\ comm'[q].need_update = comm[q].need_update
                           /\ comm'[q].player = comm[q].player
    BY <1>12 DEF TypeOK, PlayQuit, Comms
  <2> QED BY <1>12, <2>1, <2>2 DEF TypeOK, PlayQuit, PlayPcs
<1> QED
  BY <1>1, <1>2, <1>3, <1>4, <1>5, <1>6, <1>7, <1>8, <1>9, <1>10, <1>11, <1>12
  DEF Play

LEMMA TypeStep ==
  ASSUME TypeInv, [Next]_vars
  PROVE  TypeInv'
<1>1. CASE Next
  BY <1>1, NetTypeStep, PlayTypeStep DEF Next
<1>2. CASE UNCHANGED vars
  BY <1>2 DEF vars, TypeInv, TypeOK
<1> QED BY <1>1, <1>2

(* TypeOK holds in every reachable state, on every board size, for every   *)
(* pattern of restarts, quits, early keys, coalesced reads and buffers.    *)
THEOREM TypeCorrect == Spec => []TypeOK
<1>1. TypeInv /\ [Next]_vars => TypeInv'
  BY TypeStep
<1>2. TypeInv => TypeOK
  BY DEF TypeInv
<1> QED BY <1>1, <1>2, TypeInit, PTL DEF Spec

-----------------------------------------------------------------------------
(* The turn, in runs without restarts.  OneTurn is not inductive: it says  *)
(* nothing of a play thread that has not reached its loop, of two commands *)
(* on one channel, or of what a command carries.                           *)

PassesTurn(m) == m.kind \in {"MOVE", "SKIP"}

\* p's loop has the turn, or will have it once it starts.
Owns(p) == HasTurn(p) \/ (p = PLAYER1 /\ playPc[p] \in SetupPcs)

\* What a command on the way to p says.
Wellformed(p, m) == /\ m.kind # "RESTART"
                    /\ m.kind = "MOVE" => m.player = Other(p)
                    /\ m.kind = "SKIP" => m.player = p

\* At most one command that passes the turn is under way to p.
OneInFlight(p) ==
  /\ \A i \in DOMAIN chan[p] : PassesTurn(chan[p][i]) => ~comm[p].need_update
  /\ \A i, j \in DOMAIN chan[p] : PassesTurn(chan[p][i]) /\ PassesTurn(chan[p][j]) => i = j

TurnInv ==
  /\ netPc[PLAYER1] \in {"boot", "accept"} => playPc[PLAYER1] = "none"
  /\ \A p \in Players :
       /\ ~comm[p].need_restart
       /\ playPc[p] = "skip" => comm[p].player = p
       /\ comm[p].need_update => comm[p].player = Other(p)
       /\ \A i \in DOMAIN chan[p] : Wellformed(p, chan[p][i])
       /\ OneInFlight(p)
       /\ Owns(p) => ~InFlight(p) /\ ~Owns(Other(p)) /\ ~InFlight(Other(p))
       /\ InFlight(p) => ~InFlight(Other(p))

LEMMA TurnInit == Init => TurnInv
BY OtherPlayer DEF Init, TurnInv, Owns, HasTurn, InFlight, OneInFlight, Wellformed,
                   LoopPcs, SetupPcs, Players, Other, PLAYER1, PLAYER2

\* Steps that neither send nor receive, and give nobody the turn.
LEMMA TurnFrame ==
  ASSUME TurnInv, UNCHANGED chan,
         netPc'[PLAYER1] \in {"boot", "accept"} => playPc'[PLAYER1] = "none",
         \A q \in Players :
           /\ comm'[q].need_restart = comm[q].need_restart
           /\ comm'[q].need_update = comm[q].need_update
           /\ comm'[q].need_update => comm'[q].player = Other(q)
           /\ playPc'[q] = "skip" => comm'[q].player = q
           /\ Owns(q)' => Owns(q)
  PROVE  TurnInv'
<1>1. \A q \in Players : InFlight(q)' = InFlight(q)
  BY DEF InFlight
<1>2. \A q \in Players : OneInFlight(q)' = OneInFlight(q)
  BY DEF OneInFlight
<1> QED BY <1>1, <1>2, OtherPlayer DEF TurnInv, Wellformed

\* What update() does with a well-formed command.
LEMMA UpdateTurn ==
  ASSUME NEW c \in Comms, NEW p \in Players, NEW m \in Messages, Wellformed(p, m)
  PROVE  /\ Update(c, m).need_restart = c.need_restart
         /\ ~PassesTurn(m) => /\ Update(c, m).player = c.player
                              /\ Update(c, m).need_update = c.need_update
         /\ Update(c, m).need_update /\ ~c.need_update =>
              m.kind = "MOVE" /\ Update(c, m).player = Other(p)
         /\ Update(c, m).player # c.player =>
              \/ m.kind = "MOVE" /\ Update(c, m).need_update
              \/ m.kind = "SKIP" /\ Update(c, m).player = p
BY DEF Update, Comms, Messages, Wellformed, PassesTurn

\* A read takes a command out of the channel and may put it, or the turn
\* itself, into the shared record; what it does not parse is gone.
LEMMA NetReadTurnStep ==
  ASSUME TypeInv, TurnInv, NEW p \in Players, NetReadData(p)
  PROVE  TurnInv'
<1> DEFINE m == chan[p][1]
           o == Other(p)
<1>1. TypeOK /\ o \in Players /\ o # p /\ Other(o) = p
      /\ \A q \in Players : q = p \/ q = o
  BY OtherPlayer DEF TypeInv, Players, Other, PLAYER1, PLAYER2
<1>2. m \in Messages /\ Wellformed(p, m) /\ 1 \in DOMAIN chan[p]
  BY <1>1, ReadPrefix DEF TurnInv
<1>3. /\ comm'[p] = Update(comm[p], m) /\ comm'[o] = comm[o]
      /\ chan'[o] = chan[o]
      /\ playPc' = playPc /\ netPc'[p] = "check" /\ netPc'[o] = netPc[o]
  BY <1>1, ReadPrefix DEF NetReadData, NetGoto, TypeOK
<1>4. PICK n \in Nat \ {0} : \A i \in DOMAIN chan'[p] :
        i \in Nat \ {0} /\ i + n \in DOMAIN chan[p] /\ chan'[p][i] = chan[p][i + n]
  <2>1. \E n \in Nat \ {0} : \A i \in DOMAIN chan'[p] :
          /\ i \in Nat \ {0}
          /\ i + n \in DOMAIN chan[p]
          /\ chan'[p][i] = chan[p][i + n]
    BY <1>1, ReadPrefix, Zenon
  <2> QED BY <2>1
\* UpdateTurn for this read.
<1>19. /\ comm'[p].need_restart = comm[p].need_restart
       /\ ~PassesTurn(m) => /\ comm'[p].player = comm[p].player
                            /\ comm'[p].need_update = comm[p].need_update
       /\ comm'[p].need_update /\ ~comm[p].need_update =>
            m.kind = "MOVE" /\ comm'[p].player = Other(p)
       /\ comm'[p].player # comm[p].player =>
            \/ m.kind = "MOVE" /\ comm'[p].need_update
            \/ m.kind = "SKIP" /\ comm'[p].player = p
  <2>1. comm[p] \in Comms
    BY <1>1 DEF TypeOK
  <2> HIDE DEF m
  <2> QED BY <1>2, <1>3, <2>1, UpdateTurn
\* What is left in the channel was there before, after m.
<1>5. ASSUME NEW i \in DOMAIN chan'[p]
      PROVE  \E j \in DOMAIN chan[p] : j # 1 /\ chan'[p][i] = chan[p][j]
  <2>1. i + n # 1
    BY <1>4, <1>5
  <2> QED BY <1>4, <1>5, <2>1
<1>6. \A i \in DOMAIN chan'[p] : Wellformed(p, chan'[p][i])
  BY <1>5 DEF TurnInv
<1>7. ASSUME NEW i \in DOMAIN chan'[p], PassesTurn(chan'[p][i])
      PROVE  /\ ~PassesTurn(m) /\ ~comm[p].need_update
             /\ \A j \in DOMAIN chan'[p] : PassesTurn(chan'[p][j]) => i = j
  <2>1. PICK k \in DOMAIN chan[p] : k # 1 /\ chan'[p][i] = chan[p][k]
    BY <1>5, <1>7
  <2>2. ~PassesTurn(m) /\ ~comm[p].need_update
    BY <1>2, <1>7, <2>1 DEF TurnInv, OneInFlight
  <2>3. ASSUME NEW j \in DOMAIN chan'[p], PassesTurn(chan'[p][j])
        PROVE  i = j
    <3>1. i + n = j + n
      BY <1>4, <1>7, <2>3 DEF TurnInv, OneInFlight
    <3> QED BY <1>4, <1>7, <2>3, <3>1
  <2> QED BY <2>2, <2>3
<1>8. OneInFlight(p)'
  <2>1. ASSUME NEW i \in DOMAIN chan'[p], PassesTurn(chan'[p][i])
        PROVE  ~comm'[p].need_update
    BY <1>2, <1>7, <1>19, <2>1 DEF PassesTurn
  <2> QED BY <1>7, <2>1 DEF OneInFlight
<1>9. InFlight(p)' => InFlight(p)
  <2>1. CASE comm'[p].need_update
    BY <1>2, <1>19, <2>1 DEF InFlight
  <2>2. CASE \E i \in DOMAIN chan'[p] : PassesTurn(chan'[p][i])
    BY <1>5, <2>2 DEF InFlight, PassesTurn
  <2> QED BY <2>1, <2>2 DEF InFlight, PassesTurn
<1>10. InFlight(o)' = InFlight(o) /\ OneInFlight(o)' = OneInFlight(o)
  BY <1>3 DEF InFlight, OneInFlight
<1>11. Owns(o)' = Owns(o)
  BY <1>3 DEF Owns, HasTurn
\* Only a skip gives p the turn, and then nothing is in flight any more.
<1>12. Owns(p)' => Owns(p) \/ (InFlight(p) /\ ~InFlight(p)')
  <2>1. SUFFICES ASSUME Owns(p)', ~Owns(p)
                 PROVE  InFlight(p) /\ ~InFlight(p)'
    OBVIOUS
  <2>2. comm'[p].player = p /\ comm[p].player # p
    BY <1>3, <2>1 DEF Owns, HasTurn
  <2>3. m.kind = "SKIP" \/ (m.kind = "MOVE" /\ comm'[p].need_update)
    BY <1>19, <2>2
  <2>4. PassesTurn(m) /\ ~comm[p].need_update
    BY <1>2, <2>3 DEF PassesTurn, TurnInv, OneInFlight
  <2>5. ~comm'[p].need_update
    BY <1>1, <1>2, <1>19, <2>2, <2>4
  <2> QED BY <1>2, <1>7, <2>4, <2>5 DEF InFlight, PassesTurn
<1>13. comm'[p].need_update => comm'[p].player = o
  <2>1. SUFFICES ASSUME comm'[p].need_update
                 PROVE  comm'[p].player = o
    OBVIOUS
  <2>2. CASE comm[p].need_update
    <3>1. ~PassesTurn(m)
      BY <1>2, <2>2 DEF TurnInv, OneInFlight
    <3> QED BY <1>1, <1>19, <2>2, <3>1 DEF TurnInv
  <2>3. CASE ~comm[p].need_update
    BY <1>19, <2>1, <2>3
  <2> QED BY <2>2, <2>3
<1>14. playPc'[p] = "skip" => comm'[p].player = p
  <2>1. SUFFICES ASSUME playPc[p] = "skip"
                 PROVE  comm'[p].player = p
    BY <1>3
  <2>2. ~InFlight(p)
    BY <2>1 DEF TurnInv, Owns, HasTurn, LoopPcs
  <2>3. ~PassesTurn(m)
    BY <1>2, <2>2 DEF InFlight, PassesTurn
  <2> QED BY <1>19, <2>1, <2>3 DEF TurnInv
<1>15. ~comm'[p].need_restart
  BY <1>19 DEF TurnInv
<1>16. netPc'[PLAYER1] \in {"boot", "accept"} => playPc'[PLAYER1] = "none"
  BY <1>1, <1>3 DEF TurnInv, Players
<1> HIDE DEF o, m
<1>17. \A q \in Players :
         /\ ~comm'[q].need_restart
         /\ playPc'[q] = "skip" => comm'[q].player = q
         /\ comm'[q].need_update => comm'[q].player = Other(q)
         /\ \A i \in DOMAIN chan'[q] : Wellformed(q, chan'[q][i])
         /\ OneInFlight(q)'
  BY <1>1, <1>3, <1>6, <1>8, <1>10, <1>13, <1>14, <1>15 DEF TurnInv, o
<1>18. \A q \in Players :
         /\ Owns(q)' => ~InFlight(q)' /\ ~Owns(Other(q))' /\ ~InFlight(Other(q))'
         /\ InFlight(q)' => ~InFlight(Other(q))'
  BY <1>1, <1>9, <1>10, <1>11, <1>12 DEF TurnInv, o
<1> QED BY <1>16, <1>17, <1>18 DEF TurnInv, Wellformed

LEMMA NetTurnStep ==
  ASSUME TypeInv, TurnInv, NEW p \in Players, Net(p)
  PROVE  TurnInv'
<1> USE DEF NetGoto, PlayGoto
<1>0. /\ TypeOK /\ PLAYER1 \in Players /\ PLAYER2 \in Players
      /\ PLAYER1 # 0 /\ PLAYER1 # PLAYER2
      /\ \A q \in Players : q = PLAYER1 \/ q = PLAYER2
  BY DEF TypeInv, Players, PLAYER1, PLAYER2
<1>1. CASE p = PLAYER1 /\ NetListen
  BY <1>0, <1>1, TurnFrame DEF NetListen, TypeOK, TurnInv, Owns, HasTurn
<1>2. CASE p = PLAYER1 /\ NetAccept
  <2>1. playPc[PLAYER1] = "none" /\ ~comm[PLAYER1].need_update
    <3>1. playPc[PLAYER1] = "none"
      BY <1>2 DEF NetAccept, TurnInv
    <3>2. Owns(PLAYER1)
      BY <3>1 DEF Owns, SetupPcs
    <3> QED BY <1>0, <3>1, <3>2 DEF TurnInv, InFlight
  <2>2. /\ comm'[PLAYER1].player = PLAYER1
        /\ comm'[PLAYER1].need_update = comm[PLAYER1].need_update
        /\ comm'[PLAYER1].need_restart = comm[PLAYER1].need_restart
        /\ comm'[PLAYER2] = comm[PLAYER2]
    BY <1>0, <1>2 DEF NetAccept, TypeOK, Comms
  <2>3. /\ playPc'[PLAYER1] = "wait" /\ playPc'[PLAYER2] = playPc[PLAYER2]
        /\ netPc'[PLAYER1] = "start"
    BY <1>0, <1>2 DEF NetAccept, TypeOK
  <2>4. Owns(PLAYER1) /\ (Owns(PLAYER2)' => Owns(PLAYER2))
    BY <1>0, <2>1, <2>2, <2>3 DEF Owns, HasTurn, SetupPcs
  <2>5. \A q \in Players :
          /\ comm'[q].need_restart = comm[q].need_restart
          /\ comm'[q].need_update = comm[q].need_update
          /\ comm'[q].need_update => comm'[q].player = Other(q)
          /\ playPc'[q] = "skip" => comm'[q].player = q
          /\ Owns(q)' => Owns(q)
    BY <1>0, <2>1, <2>2, <2>3, <2>4 DEF TurnInv
  <2> QED BY <1>2, <2>3, <2>5, TurnFrame DEF NetAccept
<1>3. CASE p = PLAYER2 /\ NetCreateThread
  BY <1>0, <1>3, TurnFrame
     DEF NetCreateThread, TypeOK, TurnInv, Owns, HasTurn, LoopPcs
<1>4. CASE p = PLAYER2 /\ NetConnect
  BY <1>0, <1>4, TurnFrame
     DEF NetConnect, Die, TypeOK, TurnInv, Owns, HasTurn, LoopPcs
<1>5. CASE NetStart(p)
  BY <1>0, <1>5, TurnFrame DEF NetStart, TypeOK, Comms, TurnInv, Owns, HasTurn
<1>6. CASE NetTarget(p)
  BY <1>0, <1>6, TurnFrame DEF NetTarget, TypeOK, TurnInv, Owns, HasTurn
<1>7. CASE NetCheck(p)
  BY <1>0, <1>7, TurnFrame DEF NetCheck, TypeOK, TurnInv, Owns, HasTurn
<1>8. CASE NetReadData(p)
  BY <1>0, <1>8, NetReadTurnStep
<1>9. CASE NetReadNothing(p)
  BY <1>0, <1>9, TurnFrame DEF NetReadNothing, TypeOK, TurnInv, Owns, HasTurn
<1>10. CASE NetReadEof(p)
  BY <1>0, <1>10, TurnFrame
     DEF NetReadEof, Die, TypeOK, TurnInv, Owns, HasTurn, LoopPcs, SetupPcs
<1>11. CASE NetReadError(p)
  BY <1>0, <1>11, TurnFrame DEF NetReadError, TypeOK, Comms, TurnInv, Owns, HasTurn
<1>12. CASE NetClose(p)
  BY <1>0, <1>12, TurnFrame DEF NetClose, TypeOK, TurnInv, Owns, HasTurn
<1> QED
  BY <1>1, <1>2, <1>3, <1>4, <1>5, <1>6, <1>7, <1>8, <1>9, <1>10, <1>11, <1>12
  DEF Net

LEMMA AppendFacts ==
  ASSUME NEW S, NEW s \in Seq(S), NEW e \in S
  PROVE  /\ DOMAIN Append(s, e) = DOMAIN s \cup {Len(s) + 1}
         /\ Len(s) + 1 \notin DOMAIN s
         /\ \A i \in DOMAIN s : Append(s, e)[i] = s[i]
         /\ Append(s, e)[Len(s) + 1] = e
<1>1. DOMAIN s = 1 .. Len(s) /\ Len(s) \in Nat
  BY LenProperties
<1>2. Append(s, e) \in Seq(S) /\ Len(Append(s, e)) = Len(s) + 1
  OBVIOUS
<1>3. DOMAIN Append(s, e) = 1 .. Len(s) + 1
  BY <1>2, LenProperties
<1> QED BY <1>1, <1>3

\* What sock_write() can do to the channel: every command there was there
\* before, or is the one written.
LEMMA SockWriteChan ==
  ASSUME TypeOK, NEW p \in Players, NEW m \in Messages, NEW c, NEW pc,
         SockWrite(p, m, c, pc)
  PROVE  /\ chan'[p] = chan[p]
         /\ \A i \in DOMAIN chan'[Other(p)] :
              \/ i \in DOMAIN chan[Other(p)] /\ chan'[Other(p)][i] = chan[Other(p)][i]
              \/ i = Len(chan[Other(p)]) + 1 /\ chan'[Other(p)][i] = m
<1> DEFINE o == Other(p)
<1>1. o \in Players /\ o # p
  BY OtherPlayer
<1>2. chan' = chan \/ chan' = [chan EXCEPT ![o] = Append(@, m)]
  BY DEF SockWrite, Enqueue
<1>3. CASE chan' = chan
  BY <1>3
<1>4. CASE chan' = [chan EXCEPT ![o] = Append(@, m)]
  <2>1. chan[o] \in Seq(Messages)
    BY <1>1 DEF TypeOK
  <2>2. chan'[o] = Append(chan[o], m) /\ chan'[p] = chan[p]
    BY <1>1, <1>4 DEF TypeOK
  <2> HIDE DEF o
  <2>3. \A i \in DOMAIN chan'[o] :
              \/ i \in DOMAIN chan[o] /\ chan'[o][i] = chan[o][i]
              \/ i = Len(chan[o]) + 1 /\ chan'[o][i] = m
    BY <2>1, <2>2, AppendFacts
  <2> QED BY <2>2, <2>3 DEF o
<1> QED BY <1>2, <1>3, <1>4

\* What sock_write() does to the play threads.
LEMMA SockWritePlay ==
  ASSUME TypeOK, NEW p \in Players, NEW m \in Messages, NEW c \in Comms,
         NEW pc \in PlayPcs, SockWrite(p, m, c, pc)
  PROVE  /\ playPc'[p] \in {pc, "sigpipe"}
         /\ \A q \in Players : q # p => playPc'[q] = playPc[q]
         /\ \A q \in Players : netPc'[q] \in {netPc[q], "sigpipe"}
BY DEF SockWrite, Die, PlayGoto, TypeOK

\* The mover gives its turn up and announces it.
LEMMA HandOver ==
  ASSUME TypeInv, TurnInv, NEW p \in Players, NEW m \in Messages,
         HasTurn(p), PassesTurn(m), Wellformed(Other(p), m),
         SockWrite(p, m, PassTurn(p), "conn")
  PROVE  TurnInv'
<1> DEFINE o == Other(p)
<1>1. TypeOK /\ o \in Players /\ o # p /\ Other(o) = p
      /\ \A q \in Players : q = p \/ q = o
  BY OtherPlayer DEF TypeInv, Players, Other, PLAYER1, PLAYER2
<1>2. PassTurn(p) \in Comms /\ "conn" \in PlayPcs
  BY <1>1, FieldTypes DEF PassTurn, TypeOK, PlayPcs, LoopPcs
<1>3. /\ PassTurn(p).player = o
      /\ PassTurn(p).need_update = comm[p].need_update
      /\ PassTurn(p).need_restart = comm[p].need_restart
  BY <1>1 DEF PassTurn, TypeOK, Comms
<1>4. /\ comm'[p].player = o
      /\ comm'[p].need_update = comm[p].need_update
      /\ comm'[p].need_restart = comm[p].need_restart
      /\ comm'[o] = comm[o]
  <2>1. /\ comm'[p] \in {PassTurn(p), [PassTurn(p) EXCEPT !.lost_con = TRUE]}
        /\ comm'[o] = comm[o]
    BY <1>1, <1>2, SockWriteType
  <2> QED BY <1>2, <1>3, <2>1 DEF Comms
<1>5. /\ playPc'[p] \in {"conn", "sigpipe"} /\ playPc'[o] = playPc[o]
      /\ \A q \in Players : netPc'[q] \in {netPc[q], "sigpipe"}
  BY <1>1, <1>2, SockWritePlay
<1>6. /\ chan'[p] = chan[p]
      /\ \A i \in DOMAIN chan'[o] :
           \/ i \in DOMAIN chan[o] /\ chan'[o][i] = chan[o][i]
           \/ i = Len(chan[o]) + 1 /\ chan'[o][i] = m
  BY <1>1, SockWriteChan
<1>7. ~InFlight(p) /\ ~Owns(o) /\ ~InFlight(o)
  BY <1>1 DEF TurnInv, Owns
<1> HIDE DEF o
<1>8. ~InFlight(p)' /\ ~Owns(o)' /\ ~Owns(p)'
  BY <1>1, <1>4, <1>5, <1>6, <1>7
     DEF InFlight, Owns, HasTurn, LoopPcs, SetupPcs
<1>9. \A i, j \in DOMAIN chan'[o] :
        PassesTurn(chan'[o][i]) /\ PassesTurn(chan'[o][j]) => i = j
  BY <1>6, <1>7 DEF InFlight, PassesTurn
<1>10. \A i \in DOMAIN chan'[o] : Wellformed(o, chan'[o][i])
  BY <1>1, <1>6 DEF TurnInv, o
<1>11. OneInFlight(o)' /\ OneInFlight(p)'
  BY <1>1, <1>4, <1>6, <1>7, <1>9 DEF TurnInv, OneInFlight, InFlight
<1>12. netPc'[PLAYER1] \in {"boot", "accept"} => playPc'[PLAYER1] = "none"
  <2>1. PLAYER1 \in Players
    BY DEF Players
  <2>2. SUFFICES ASSUME netPc'[PLAYER1] \in {"boot", "accept"}
                 PROVE  playPc'[PLAYER1] = "none"
    OBVIOUS
  <2>3. playPc[PLAYER1] = "none"
    BY <1>5, <2>1, <2>2 DEF TurnInv
  <2>4. playPc[p] # "none"
    BY DEF HasTurn, LoopPcs
  <2> QED BY <1>1, <1>5, <2>1, <2>3, <2>4
<1>13. \A i \in DOMAIN chan'[p] : Wellformed(p, chan'[p][i])
  BY <1>6 DEF TurnInv
<1>14. \A q \in Players :
         /\ ~comm'[q].need_restart
         /\ playPc'[q] = "skip" => comm'[q].player = q
         /\ comm'[q].need_update => comm'[q].player = Other(q)
         /\ \A i \in DOMAIN chan'[q] : Wellformed(q, chan'[q][i])
         /\ OneInFlight(q)'
  BY <1>1, <1>4, <1>5, <1>7, <1>10, <1>11, <1>13 DEF TurnInv, InFlight
<1>15. \A q \in Players :
         /\ Owns(q)' => ~InFlight(q)' /\ ~Owns(Other(q))' /\ ~InFlight(Other(q))'
         /\ InFlight(q)' => ~InFlight(Other(q))'
  BY <1>1, <1>8 DEF o
<1> QED BY <1>12, <1>14, <1>15 DEF TurnInv, Wellformed

\* The peer's move has arrived: its receiver takes the turn.
LEMMA TakeTurn ==
  ASSUME TypeInv, TurnInv, NEW p \in Players, PlayUpdate(p), comm[p].need_update
  PROVE  TurnInv'
<1> DEFINE o == Other(p)
<1>1. TypeOK /\ o \in Players /\ o # p /\ Other(o) = p
      /\ \A q \in Players : q = p \/ q = o
  BY OtherPlayer DEF TypeInv, Players, Other, PLAYER1, PLAYER2
<1>2. /\ comm'[p].player = p
      /\ ~comm'[p].need_update
      /\ comm'[p].need_restart = comm[p].need_restart
      /\ comm'[o] = comm[o]
  <2>1. comm' = [comm EXCEPT ![p] = [comm[p] EXCEPT !.need_update = FALSE, !.player = p]]
    BY DEF PlayUpdate
  <2> QED BY <1>1, <2>1 DEF TypeOK, Comms
<1>3. /\ playPc'[p] = "flags" /\ playPc'[o] = playPc[o] /\ playPc[p] = "update"
      /\ netPc' = netPc /\ chan' = chan
  BY <1>1 DEF PlayUpdate, PlayGoto, TypeOK
<1>4. InFlight(p) /\ ~Owns(o) /\ ~InFlight(o)
  BY <1>1 DEF InFlight, TurnInv
<1>5. \A i \in DOMAIN chan[p] : ~PassesTurn(chan[p][i])
  BY DEF TurnInv, OneInFlight
<1> HIDE DEF o
<1>6. ~InFlight(p)' /\ ~InFlight(o)' /\ ~Owns(o)'
  BY <1>2, <1>3, <1>4, <1>5 DEF InFlight, PassesTurn, Owns, HasTurn
<1>7. OneInFlight(p)' /\ OneInFlight(o)'
  BY <1>1, <1>2, <1>3, <1>5 DEF TurnInv, OneInFlight
<1>8. \A q \in Players :
         /\ ~comm'[q].need_restart
         /\ playPc'[q] = "skip" => comm'[q].player = q
         /\ comm'[q].need_update => comm'[q].player = Other(q)
         /\ \A i \in DOMAIN chan'[q] : Wellformed(q, chan'[q][i])
         /\ OneInFlight(q)'
  BY <1>1, <1>2, <1>3, <1>7 DEF TurnInv
<1>9. netPc'[PLAYER1] \in {"boot", "accept"} => playPc'[PLAYER1] = "none"
  BY <1>1, <1>3 DEF TurnInv, Players
<1> QED BY <1>1, <1>6, <1>8, <1>9 DEF TurnInv, Wellformed, o

\* A quit command passes no turn.
LEMMA QuitTurnStep ==
  ASSUME TypeInv, TurnInv, NEW p \in Players, PlayPressQuit(p)
  PROVE  TurnInv'
<1> DEFINE o == Other(p)
<1>1. TypeOK /\ o \in Players /\ o # p /\ Other(o) = p
      /\ \A q \in Players : q = p \/ q = o
  BY OtherPlayer DEF TypeInv, Players, Other, PLAYER1, PLAYER2
<1>2. /\ comm[p] \in Comms /\ QuitCmd \in Messages /\ "quit" \in PlayPcs
      /\ SockWrite(p, QuitCmd, comm[p], "quit")
  BY <1>1 DEF TypeOK, QuitCmd, Messages, PlayPcs, PlayPressQuit
<1>3. /\ comm'[p].player = comm[p].player
      /\ comm'[p].need_update = comm[p].need_update
      /\ comm'[p].need_restart = comm[p].need_restart
      /\ comm'[o] = comm[o]
  <2>1. /\ comm'[p] \in {comm[p], [comm[p] EXCEPT !.lost_con = TRUE]}
        /\ comm'[o] = comm[o]
    BY <1>1, <1>2, SockWriteType
  <2> QED BY <1>2, <2>1 DEF Comms
<1>4. /\ playPc'[p] \in {"quit", "sigpipe"} /\ playPc'[o] = playPc[o]
      /\ playPc[p] = "key"
      /\ \A q \in Players : netPc'[q] \in {netPc[q], "sigpipe"}
  BY <1>1, <1>2, SockWritePlay DEF PlayPressQuit, KeyTyped
<1>5. /\ chan'[p] = chan[p]
      /\ \A i \in DOMAIN chan'[o] :
           \/ i \in DOMAIN chan[o] /\ chan'[o][i] = chan[o][i]
           \/ chan'[o][i] = QuitCmd
  BY <1>1, <1>2, SockWriteChan
<1>6. ~PassesTurn(QuitCmd) /\ Wellformed(o, QuitCmd)
  BY DEF PassesTurn, QuitCmd, Wellformed
<1> HIDE DEF o
<1>7. /\ InFlight(p)' = InFlight(p)
      /\ InFlight(o)' => InFlight(o)
      /\ ~Owns(p)' /\ Owns(o)' = Owns(o)
  BY <1>1, <1>3, <1>4, <1>5, <1>6
     DEF InFlight, PassesTurn, Owns, HasTurn, LoopPcs, SetupPcs
<1>8. OneInFlight(p)' /\ OneInFlight(o)'
  BY <1>1, <1>3, <1>5, <1>6 DEF TurnInv, OneInFlight
<1>9. \A i \in DOMAIN chan'[o] : Wellformed(o, chan'[o][i])
  BY <1>1, <1>5, <1>6 DEF TurnInv
<1>10. \A i \in DOMAIN chan'[p] : Wellformed(p, chan'[p][i])
  BY <1>5 DEF TurnInv
<1>11. \A q \in Players :
         /\ ~comm'[q].need_restart
         /\ playPc'[q] = "skip" => comm'[q].player = q
         /\ comm'[q].need_update => comm'[q].player = Other(q)
         /\ \A i \in DOMAIN chan'[q] : Wellformed(q, chan'[q][i])
         /\ OneInFlight(q)'
  BY <1>1, <1>3, <1>4, <1>8, <1>9, <1>10 DEF TurnInv
<1>12. \A q \in Players :
         /\ Owns(q)' => ~InFlight(q)' /\ ~Owns(Other(q))' /\ ~InFlight(Other(q))'
         /\ InFlight(q)' => ~InFlight(Other(q))'
  BY <1>1, <1>7 DEF TurnInv, o
<1>13. netPc'[PLAYER1] \in {"boot", "accept"} => playPc'[PLAYER1] = "none"
  <2>1. PLAYER1 \in Players
    BY DEF Players
  <2> QED BY <1>1, <1>4, <2>1 DEF TurnInv
<1> QED BY <1>11, <1>12, <1>13 DEF TurnInv, Wellformed

LEMMA PlayTurnStep ==
  ASSUME TypeInv, TurnInv, Restarts = {}, NEW p \in Players, Play(p)
  PROVE  TurnInv'
<1> USE DEF NetGoto, PlayGoto
<1>0. /\ TypeOK /\ PLAYER1 \in Players /\ PLAYER1 # 0
      /\ \A q \in Players : Other(q) # q
  BY OtherPlayer DEF TypeInv, Players, PLAYER1
<1>1. CASE PlayWait(p)
  BY <1>0, <1>1, TurnFrame DEF PlayWait, TypeOK, TurnInv, Owns, HasTurn, SetupPcs, LoopPcs
<1>2. CASE PlayRestart(p)
  <2>1. /\ comm'[p].player = PLAYER1
        /\ ~comm'[p].need_restart
        /\ comm'[p].need_update = comm[p].need_update
        /\ \A q \in Players : q # p => comm'[q] = comm[q]
    BY <1>0, <1>2 DEF PlayRestart, TypeOK, Comms
  <2>2. p = PLAYER1 => Owns(p) /\ ~comm[p].need_update
    BY <1>2 DEF PlayRestart, Owns, SetupPcs, TurnInv, InFlight
  <2>3. p # PLAYER1 => Other(p) = PLAYER1 /\ p # PLAYER1
    BY DEF Players, Other, PLAYER1, PLAYER2
  <2>4. playPc'[p] = "conn" /\ \A q \in Players : q # p => playPc'[q] = playPc[q]
    BY <1>0, <1>2 DEF PlayRestart, TypeOK
  <2>5. \A q \in Players :
          /\ comm'[q].need_restart = comm[q].need_restart
          /\ comm'[q].need_update = comm[q].need_update
          /\ comm'[q].need_update => comm'[q].player = Other(q)
          /\ playPc'[q] = "skip" => comm'[q].player = q
          /\ Owns(q)' => Owns(q)
    <3>1. SUFFICES ASSUME NEW q \in Players
                   PROVE  /\ comm'[q].need_restart = comm[q].need_restart
                          /\ comm'[q].need_update = comm[q].need_update
                          /\ comm'[q].need_update => comm'[q].player = Other(q)
                          /\ playPc'[q] = "skip" => comm'[q].player = q
                          /\ Owns(q)' => Owns(q)
      OBVIOUS
    <3>2. CASE q # p
      BY <2>1, <2>4, <3>2 DEF TurnInv, Owns, HasTurn
    <3>3. CASE q = p
      <4>1. comm[p].need_restart = FALSE /\ comm'[p].need_restart = FALSE
        BY <1>0, <1>2, <2>1 DEF TurnInv, TypeOK, Comms, PlayRestart
      <4>2. Owns(p)' => Owns(p)
        BY <2>1, <2>2, <2>3, <2>4 DEF Owns, HasTurn, SetupPcs
      <4> QED BY <2>1, <2>2, <2>3, <2>4, <3>3, <4>1, <4>2
    <3> QED BY <3>2, <3>3
  <2>6. netPc'[PLAYER1] \in {"boot", "accept"} => playPc'[PLAYER1] = "none"
    BY <1>0, <1>2, <2>4 DEF PlayRestart, TurnInv
  <2> QED BY <1>2, <2>5, <2>6, TurnFrame DEF PlayRestart
<1>3. CASE PlayConn(p)
  BY <1>0, <1>3, TurnFrame DEF PlayConn, TypeOK, TurnInv, Owns, HasTurn, SetupPcs, LoopPcs
<1>4. CASE PlayUpdate(p)
  <2>1. CASE comm[p].need_update
    BY <1>4, <2>1, TakeTurn
  <2>2. CASE ~comm[p].need_update
    BY <1>0, <1>4, <2>2, TurnFrame DEF PlayUpdate, TypeOK, TurnInv, Owns, HasTurn, SetupPcs, LoopPcs
  <2> QED BY <2>1, <2>2
<1>5. CASE PlayFlags(p)
  BY <1>0, <1>5, TurnFrame DEF PlayFlags, TypeOK, TurnInv, Owns, HasTurn, SetupPcs, LoopPcs
<1>6. CASE PlayEval(p)
  BY <1>0, <1>6, TurnFrame DEF PlayEval, TypeOK, TurnInv, Owns, HasTurn, SetupPcs, LoopPcs
<1>7. CASE PlaySkip(p)
  <2>1. HasTurn(p)
    BY <1>7 DEF PlaySkip, TurnInv, HasTurn, LoopPcs
  <2>2. SkipTo(Other(p)) \in Messages /\ PassesTurn(SkipTo(Other(p)))
        /\ Wellformed(Other(p), SkipTo(Other(p)))
    BY OtherPlayer DEF SkipTo, Messages, PassesTurn, Wellformed
  <2> QED BY <1>7, <2>1, <2>2, HandOver DEF PlaySkip
<1>8. CASE PlayIdle(p)
  BY <1>0, <1>8, TurnFrame DEF PlayIdle, TypeOK, TurnInv, Owns, HasTurn, SetupPcs, LoopPcs
<1>9. CASE PlayPut(p)
  <2>1. HasTurn(p)
    BY <1>9 DEF PlayPut, KeyTyped, HasTurn, LoopPcs
  <2>2. PICK l \in ValidLocs(p) : SockWrite(p, Move(p, l), PassTurn(p), "conn")
    BY <1>9 DEF PlayPut
  <2>3. l \in Locs
    BY <2>2 DEF ValidLocs, GetValidLoc
  <2>4. Move(p, l) \in Messages /\ PassesTurn(Move(p, l)) /\ Wellformed(Other(p), Move(p, l))
    BY <2>3, OtherPlayer DEF Move, Messages, PassesTurn, Wellformed
  <2> QED BY <2>1, <2>2, <2>4, HandOver
<1>10. CASE PlayPressRestart(p)
  BY <1>10 DEF PlayPressRestart
<1>11. CASE PlayPressQuit(p)
  BY <1>11, QuitTurnStep
<1>12. CASE PlayQuit(p)
  BY <1>0, <1>12, TurnFrame DEF PlayQuit, TypeOK, Comms, TurnInv, Owns, HasTurn, SetupPcs, LoopPcs
<1> QED
  BY <1>1, <1>2, <1>3, <1>4, <1>5, <1>6, <1>7, <1>8, <1>9, <1>10, <1>11, <1>12
  DEF Play

LEMMA TurnStep ==
  ASSUME Restarts = {}, TypeInv, TurnInv, [Next]_vars
  PROVE  TypeInv' /\ TurnInv'
<1>1. CASE Next
  <2>1. PICK p \in Players : Net(p) \/ Play(p)
    BY <1>1 DEF Next
  <2>2. CASE Net(p)
    BY <2>2, NetTypeStep, NetTurnStep
  <2>3. CASE Play(p)
    BY <2>3, PlayTypeStep, PlayTurnStep
  <2> QED BY <2>1, <2>2, <2>3
<1>2. CASE UNCHANGED vars
  <2>1. TypeInv'
    BY <1>2 DEF vars, TypeInv, TypeOK
  <2>2. TurnInv'
    BY <1>2 DEF vars, TurnInv, Owns, HasTurn, InFlight, OneInFlight, Wellformed
  <2> QED BY <2>1, <2>2
<1> QED BY <1>1, <1>2

(* As long as nobody restarts, the turn is in one place: for every board   *)
(* size, however reads are coalesced, writes are dropped, keys come early  *)
(* and users quit.                                                         *)
THEOREM TurnIsUnique ==
  ASSUME Restarts = {}
  PROVE  Spec => []OneTurn
<1>1. TypeInv /\ TurnInv /\ [Next]_vars => (TypeInv /\ TurnInv)'
  BY TurnStep
<1>2. TurnInv => OneTurn
  BY OtherPlayer DEF TurnInv, OneTurn, Owns
<1> QED BY <1>1, <1>2, TypeInit, TurnInit, PTL DEF Spec

-----------------------------------------------------------------------------
(* The boards, in runs without restarts and early keys.  SameView says     *)
(* nothing of a move that waits behind another command, nor why the move   *)
(* under way is one the receiver can put on its board.                     *)

Alive(p) == playPc[p] \in SetupPcs \/ Playing(p)

MoveUnderWay(p) ==
  comm[p].need_update \/ \E i \in DOMAIN chan[p] : chan[p][i].kind = "MOVE"

\* Board c is board b after a legal move of q at l.
After(b, q, l, c) == l \in GetValidLoc(b, q) /\ c = Place(b, q, l)

\* What is on its way to p is legal on p's board, and all its sender is ahead.
Together ==
  /\ \A p \in Players :
       /\ comm[p].need_update => After(View(p), Other(p), comm[p].pos, View(Other(p)))
       /\ \A i \in DOMAIN chan[p] :
            chan[p][i].kind = "MOVE" =>
              After(View(p), Other(p), chan[p][i].loc, View(Other(p)))
  /\ (\A p \in Players : ~MoveUnderWay(p)) => View(PLAYER1) = View(PLAYER2)

\* Nobody who plays has sent a quit.
NoQuitTo(p) ==
  ~comm[p].need_quit /\ \A i \in DOMAIN chan[p] : chan[p][i].kind # "QUIT"

ViewInv ==
  /\ netPc[PLAYER2] = "boot" => playPc[PLAYER2] = "none"
  /\ \A p \in Players :
       /\ playPc[p] = "skip" => ~IsMyTurnValid(board[p], p) /\ ~IsTimeToEnd(board[p])
       /\ Alive(p) => NoQuitTo(Other(p))
  /\ (\A p \in Players : Alive(p)) => Together

LEMMA ViewInit == Init => ViewInv
<1> SUFFICES ASSUME Init PROVE ViewInv
  OBVIOUS
<1>1. \A p \in Players :
        /\ playPc[p] = "none" /\ chan[p] = <<>> /\ ~comm[p].need_update /\ ~comm[p].need_quit
        /\ View(p) = InitBoard
  BY DEF Init, View, SetupPcs
<1>2. PLAYER1 \in Players /\ PLAYER2 \in Players
  BY DEF Players
<1> QED BY <1>1, <1>2, OtherPlayer DEF ViewInv, Together, MoveUnderWay, NoQuitTo

\* Steps that send nothing, take nothing off and leave both views alone.
LEMMA ViewFrame ==
  ASSUME ViewInv, UNCHANGED chan,
         netPc'[PLAYER2] = "boot" => playPc'[PLAYER2] = "none",
         \A q \in Players :
           /\ playPc'[q] = "skip" => ~IsMyTurnValid(board'[q], q) /\ ~IsTimeToEnd(board'[q])
           /\ comm'[q].need_update = comm[q].need_update
           /\ comm'[q].need_quit = comm[q].need_quit
           /\ comm'[q].pos = comm[q].pos
           /\ Alive(q)' => Alive(q) /\ View(q)' = View(q)
  PROVE  ViewInv'
<1>1. \A q \in Players : NoQuitTo(q)' = NoQuitTo(q)
  BY DEF NoQuitTo
<1>2. ASSUME \A q \in Players : Alive(q)'
      PROVE  Together'
  <2>1. Together /\ \A q \in Players : View(q)' = View(q)
    BY <1>2 DEF ViewInv
  <2>2. \A q \in Players : MoveUnderWay(q)' = MoveUnderWay(q)
    BY DEF MoveUnderWay
  <2>3. PLAYER1 \in Players /\ PLAYER2 \in Players
    BY DEF Players
  <2>4. \A q \in Players : View(Other(q))' = View(Other(q))
    BY <2>1, OtherPlayer
  <2>5. \A q \in Players :
          /\ comm'[q].need_update =>
               After(View(q)', Other(q), comm'[q].pos, View(Other(q))')
          /\ \A i \in DOMAIN chan'[q] :
               chan'[q][i].kind = "MOVE" =>
                 After(View(q)', Other(q), chan'[q][i].loc, View(Other(q))')
    BY <2>1, <2>4 DEF Together
  <2> QED BY <2>1, <2>2, <2>3, <2>5 DEF Together
<1> QED BY <1>1, <1>2, OtherPlayer DEF ViewInv

\* What update() does when nobody has quit.
LEMMA UpdateView ==
  ASSUME NEW c \in Comms, NEW m \in Messages
  PROVE  /\ Update(c, m).lost_con = c.lost_con
         /\ Update(c, m).is_start = c.is_start
         /\ ~c.need_quit /\ m.kind # "QUIT" => ~Update(c, m).need_quit
         /\ ~c.need_quit /\ m.kind = "MOVE" =>
              Update(c, m).need_update /\ Update(c, m).pos = m.loc
         /\ ~c.need_quit /\ m.kind = "SKIP" =>
              /\ Update(c, m).need_update = c.need_update
              /\ Update(c, m).pos = c.pos /\ Update(c, m).player = m.player
BY DEF Update, Comms, Messages

\* A command under way to p, when nobody has quit, passes the turn, and it is
\* all there is under way.
LEMMA OnlyCommand ==
  ASSUME TypeInv, TurnInv, NEW p \in Players, NoQuitTo(p), NEW i \in DOMAIN chan[p]
  PROVE  /\ PassesTurn(chan[p][i])
         /\ \A j \in DOMAIN chan[p] : j = i
         /\ ~comm[p].need_update /\ ~InFlight(Other(p))
         /\ ~Owns(p) /\ ~Owns(Other(p))
<1>1. chan[p] \in Seq(Messages)
  BY DEF TypeInv, TypeOK
<1>2. \A j \in DOMAIN chan[p] : chan[p][j] \in Messages
  BY <1>1, LenProperties
<1>3. \A j \in DOMAIN chan[p] : PassesTurn(chan[p][j])
  BY <1>2 DEF NoQuitTo, TurnInv, Wellformed, PassesTurn, Messages
<1>4. \A j \in DOMAIN chan[p] : j = i
  BY <1>3 DEF TurnInv, OneInFlight
<1>5. ~comm[p].need_update
  BY <1>3 DEF TurnInv, OneInFlight
<1>6. InFlight(p)
  BY <1>3 DEF InFlight, PassesTurn
<1>7. ~Owns(p) /\ ~Owns(Other(p)) /\ ~InFlight(Other(p))
  BY <1>6, OtherPlayer DEF TurnInv
<1> QED BY <1>3, <1>4, <1>5, <1>7

\* The command that is read, when nobody has quit, leaves the channel empty.
LEMMA ReadAll ==
  ASSUME TypeInv, TurnInv, NEW p \in Players, NoQuitTo(p), NetReadData(p)
  PROVE  /\ 1 \in DOMAIN chan[p] /\ chan[p][1] \in Messages /\ PassesTurn(chan[p][1])
         /\ chan'[p] = <<>> /\ chan'[Other(p)] = chan[Other(p)]
         /\ comm'[p] = Update(comm[p], chan[p][1]) /\ comm'[Other(p)] = comm[Other(p)]
<1>1. TypeOK
  BY DEF TypeInv
<1>2. /\ Head(chan[p]) = chan[p][1] /\ chan[p][1] \in Messages
      /\ 1 \in DOMAIN chan[p]
      /\ \A q \in Players : q # p => chan'[q] = chan[q]
      /\ chan' \in [Players -> Seq(Messages)]
  BY <1>1, ReadPrefix
<1>3. PICK n \in Nat \ {0} : \A i \in DOMAIN chan'[p] :
              /\ i \in Nat \ {0}
              /\ i + n \in DOMAIN chan[p]
              /\ chan'[p][i] = chan[p][i + n]
  BY <1>1, ReadPrefix
<1>4. DOMAIN chan'[p] = {}
  <2>1. SUFFICES ASSUME NEW i \in DOMAIN chan'[p] PROVE FALSE
    OBVIOUS
  <2>2. i + n \in DOMAIN chan[p] /\ i + n # 1
    BY <1>3
  <2> QED BY <1>2, <2>2, OnlyCommand
<1>5. chan'[p] = <<>>
  <2>1. chan'[p] \in Seq(Messages)
    BY <1>2
  <2>2. Len(chan'[p]) \in Nat /\ DOMAIN chan'[p] = 1 .. Len(chan'[p])
    BY <2>1, LenProperties
  <2>3. ~(Len(chan'[p]) >= 1)
    <3>1. Len(chan'[p]) >= 1 => 1 \in 1 .. Len(chan'[p])
      BY <2>2
    <3> QED BY <1>4, <2>2, <3>1
  <2>4. Len(chan'[p]) = 0
    BY <2>2, <2>3
  <2> QED BY <2>1, <2>4, EmptySeq
<1>6. PassesTurn(chan[p][1])
  BY <1>2, OnlyCommand
<1>7. comm'[p] = Update(comm[p], chan[p][1]) /\ comm'[Other(p)] = comm[Other(p)]
  BY <1>1, <1>2, OtherPlayer DEF NetReadData, TypeOK
<1> QED BY <1>2, <1>5, <1>6, <1>7, OtherPlayer

LEMMA ReadViewStep ==
  ASSUME TypeInv, TurnInv, ViewInv, NEW p \in Players, NetReadData(p)
  PROVE  ViewInv'
<1> DEFINE o == Other(p)
           m == chan[p][1]
<1>1. /\ TypeOK /\ o \in Players /\ o # p /\ Other(o) = p
      /\ \A q \in Players : q = p \/ q = o
      /\ PLAYER1 \in Players /\ PLAYER2 \in Players
  BY OtherPlayer DEF TypeInv, Players
<1>2. /\ 1 \in DOMAIN chan[p] /\ m \in Messages /\ Head(chan[p]) = m
      /\ chan'[o] = chan[o]
  BY <1>1, ReadPrefix
<1>3. comm'[p] = Update(comm[p], m) /\ comm'[o] = comm[o] /\ comm[p] \in Comms
  BY <1>1, <1>2 DEF NetReadData, TypeOK
<1>4. /\ UNCHANGED <<board, playPc>>
      /\ netPc'[PLAYER2] = "boot" => netPc[PLAYER2] = "boot"
  BY <1>1 DEF NetReadData, NetGoto, TypeOK
<1> HIDE DEF m, o
<1>5. \A q \in Players : /\ comm'[q].lost_con = comm[q].lost_con
  BY <1>1, <1>2, <1>3, UpdateView
<1>6. \A q \in Players : Alive(q)' = Alive(q) /\ View(q)' = View(q)
  BY <1>4, <1>5 DEF Alive, Playing, View
<1>7. ASSUME Alive(o)
      PROVE  NoQuitTo(p) /\ NoQuitTo(p)'
  <2>1. NoQuitTo(p)
    BY <1>1, <1>7 DEF ViewInv
  <2>2. DOMAIN chan'[p] = {}
    BY <2>1, ReadAll
  <2>3. ~comm'[p].need_quit
    BY <1>2, <1>3, <2>1, UpdateView DEF NoQuitTo
  <2> QED BY <2>1, <2>2, <2>3 DEF NoQuitTo
<1>8. ASSUME Alive(p)
      PROVE  NoQuitTo(o)'
  BY <1>1, <1>2, <1>3, <1>8 DEF ViewInv, NoQuitTo, o
<1>9. ASSUME \A q \in Players : Alive(q)'
      PROVE  Together'
  <2>1. NoQuitTo(p) /\ Together
    BY <1>1, <1>6, <1>7, <1>9 DEF ViewInv
  <2>2. PassesTurn(m) /\ DOMAIN chan'[p] = {}
    BY <2>1, ReadAll DEF m
  <2>3. ~comm[p].need_update /\ ~InFlight(o) /\ (\A j \in DOMAIN chan[p] : j = 1)
    BY <1>2, <2>1, OnlyCommand DEF o
  <2>4. ~MoveUnderWay(o) /\ ~MoveUnderWay(o)'
    BY <1>2, <1>3, <2>3 DEF MoveUnderWay, InFlight
  <2>5. CASE m.kind = "MOVE"
    <3>1. comm'[p].need_update /\ comm'[p].pos = m.loc
      BY <1>2, <1>3, <2>1, <2>5, UpdateView DEF NoQuitTo
    <3>2. After(View(p), o, m.loc, View(o))
      BY <1>1, <1>2, <2>1, <2>5 DEF Together, m, o
    <3>3. MoveUnderWay(p)'
      BY <3>1 DEF MoveUnderWay
    <3>4. After(View(p)', o, comm'[p].pos, View(o)')
      BY <1>1, <1>6, <3>1, <3>2
    <3>5. \A q \in Players :
          /\ comm'[q].need_update =>
               After(View(q)', Other(q), comm'[q].pos, View(Other(q))')
          /\ \A i \in DOMAIN chan'[q] :
               chan'[q][i].kind = "MOVE" =>
                 After(View(q)', Other(q), chan'[q][i].loc, View(Other(q))')
      BY <1>1, <2>2, <2>4, <3>4 DEF MoveUnderWay, o
    <3> QED BY <1>1, <3>3, <3>5 DEF Together
  <2>6. CASE m.kind = "SKIP"
    <3>1. ~comm'[p].need_update
      BY <1>2, <1>3, <2>1, <2>3, <2>6, UpdateView DEF NoQuitTo
    <3>2. ~MoveUnderWay(p) /\ ~MoveUnderWay(p)'
      BY <2>2, <2>3, <2>6, <3>1 DEF MoveUnderWay, m
    <3>3. View(PLAYER1)' = View(PLAYER2)'
      BY <1>1, <1>6, <2>1, <2>4, <3>2 DEF Together
    <3> QED BY <1>1, <2>4, <3>2, <3>3 DEF Together, MoveUnderWay
  <2> QED BY <2>2, <2>5, <2>6 DEF PassesTurn
<1>10. \A q \in Players : Alive(q)' => NoQuitTo(Other(q))'
  BY <1>1, <1>6, <1>7, <1>8 DEF o
<1>11. netPc'[PLAYER2] = "boot" => playPc'[PLAYER2] = "none"
  BY <1>4 DEF ViewInv
<1>12. \A q \in Players :
         playPc'[q] = "skip" => ~IsMyTurnValid(board'[q], q) /\ ~IsTimeToEnd(board'[q])
  BY <1>4 DEF ViewInv
<1> QED BY <1>9, <1>10, <1>11, <1>12 DEF ViewInv

LEMMA NetViewStep ==
  ASSUME TypeInv, TurnInv, ViewInv, NEW p \in Players, Net(p)
  PROVE  ViewInv'
<1> USE DEF NetGoto, PlayGoto
<1>0. /\ TypeOK /\ PLAYER1 \in Players /\ PLAYER2 \in Players /\ PLAYER1 # PLAYER2
      /\ \A q \in Players : q = PLAYER1 \/ q = PLAYER2
  BY DEF TypeInv, Players, PLAYER1, PLAYER2
<1>1. CASE p = PLAYER1 /\ NetListen
  BY <1>0, <1>1, ViewFrame DEF NetListen, TypeOK, ViewInv, Alive, Playing, View
<1>2. CASE p = PLAYER1 /\ NetAccept
  <2>1. playPc[PLAYER1] = "none"
    BY <1>2 DEF NetAccept, TurnInv
  <2>2. /\ comm'[PLAYER1].lost_con = comm[PLAYER1].lost_con
        /\ comm'[PLAYER1].need_update = comm[PLAYER1].need_update
        /\ comm'[PLAYER1].need_quit = comm[PLAYER1].need_quit
        /\ comm'[PLAYER1].pos = comm[PLAYER1].pos
        /\ comm'[PLAYER2] = comm[PLAYER2]
    BY <1>0, <1>2 DEF NetAccept, TypeOK, Comms
  <2>3. /\ playPc'[PLAYER1] = "wait" /\ playPc'[PLAYER2] = playPc[PLAYER2]
        /\ netPc'[PLAYER2] = netPc[PLAYER2]
        /\ UNCHANGED <<board, chan>>
    BY <1>0, <1>2 DEF NetAccept, TypeOK
  <2>4. \A q \in Players : Alive(q)' => Alive(q) /\ View(q)' = View(q)
    BY <1>0, <2>1, <2>2, <2>3 DEF Alive, Playing, View, SetupPcs
  <2> QED BY <1>0, <2>2, <2>3, <2>4, ViewFrame DEF ViewInv
<1>3. CASE p = PLAYER2 /\ NetCreateThread
  <2>1. playPc[PLAYER2] = "none"
    BY <1>3 DEF NetCreateThread, ViewInv
  <2>2. /\ playPc'[PLAYER2] = "wait" /\ playPc'[PLAYER1] = playPc[PLAYER1]
        /\ netPc'[PLAYER2] = "connect"
        /\ UNCHANGED <<board, comm, chan>>
    BY <1>0, <1>3 DEF NetCreateThread, TypeOK
  <2>3. \A q \in Players : Alive(q)' => Alive(q) /\ View(q)' = View(q)
    BY <1>0, <2>1, <2>2 DEF Alive, Playing, View, SetupPcs
  <2> QED BY <1>0, <2>2, <2>3, ViewFrame DEF ViewInv
<1>4. CASE p = PLAYER2 /\ NetConnect
  BY <1>0, <1>4, ViewFrame
     DEF NetConnect, Die, TypeOK, ViewInv, Alive, Playing, View, LoopPcs, SetupPcs
<1>5. CASE NetStart(p)
  BY <1>0, <1>5, ViewFrame DEF NetStart, TypeOK, Comms, ViewInv, Alive, Playing, View
<1>6. CASE NetTarget(p)
  BY <1>0, <1>6, ViewFrame DEF NetTarget, TypeOK, ViewInv, Alive, Playing, View
<1>7. CASE NetCheck(p)
  BY <1>0, <1>7, ViewFrame DEF NetCheck, TypeOK, ViewInv, Alive, Playing, View
<1>8. CASE NetReadData(p)
  BY <1>0, <1>8, ReadViewStep
<1>9. CASE NetReadNothing(p)
  BY <1>0, <1>9, ViewFrame DEF NetReadNothing, TypeOK, ViewInv, Alive, Playing, View
<1>10. CASE NetReadEof(p)
  BY <1>0, <1>10, ViewFrame
     DEF NetReadEof, Die, TypeOK, ViewInv, Alive, Playing, View, LoopPcs, SetupPcs
<1>11. CASE NetReadError(p)
  BY <1>0, <1>11, ViewFrame DEF NetReadError, TypeOK, Comms, ViewInv, Alive, Playing, View
<1>12. CASE NetClose(p)
  BY <1>0, <1>12, ViewFrame DEF NetClose, TypeOK, ViewInv, Alive, Playing, View
<1> QED
  BY <1>1, <1>2, <1>3, <1>4, <1>5, <1>6, <1>7, <1>8, <1>9, <1>10, <1>11, <1>12
  DEF Net

\* Whoever has the turn sees what the other one sees, and nothing is under way.
LEMMA MoverView ==
  ASSUME TypeInv, TurnInv, ViewInv, NEW p \in Players, Owns(p),
         \A q \in Players : Alive(q)
  PROVE  /\ View(Other(p)) = View(p)
         /\ chan[p] = <<>> /\ chan[Other(p)] = <<>>
         /\ \A q \in Players : ~comm[q].need_update
<1> DEFINE o == Other(p)
<1>1. /\ o \in Players /\ Other(o) = p /\ PLAYER1 \in Players /\ PLAYER2 \in Players
      /\ \A q \in Players : q = p \/ q = o
  BY OtherPlayer DEF Players
<1>2. NoQuitTo(p) /\ NoQuitTo(o) /\ Together
  BY <1>1 DEF ViewInv
<1>3. ~InFlight(p) /\ ~InFlight(o)
  BY <1>1 DEF TurnInv
<1>4. \A q \in Players : DOMAIN chan[q] = {}
  <2>1. SUFFICES ASSUME NEW q \in Players, NEW i \in DOMAIN chan[q] PROVE FALSE
    OBVIOUS
  <2>2. NoQuitTo(q) /\ ~InFlight(q)
    BY <1>1, <1>2, <1>3
  <2>3. PassesTurn(chan[q][i])
    BY <2>2, OnlyCommand
  <2> QED BY <2>2, <2>3 DEF PassesTurn, InFlight
<1>5. \A q \in Players : chan[q] = <<>>
  <2>1. SUFFICES ASSUME NEW q \in Players PROVE chan[q] = <<>>
    OBVIOUS
  <2>2. chan[q] \in Seq(Messages)
    BY DEF TypeInv, TypeOK
  <2>3. Len(chan[q]) \in Nat /\ DOMAIN chan[q] = 1 .. Len(chan[q])
    BY <2>2, LenProperties
  <2>4. Len(chan[q]) >= 1 => 1 \in 1 .. Len(chan[q])
    BY <2>3
  <2>5. DOMAIN chan[q] = {}
    BY <1>4
  <2>6. ~(Len(chan[q]) >= 1)
    BY <2>3, <2>4, <2>5
  <2>7. Len(chan[q]) = 0
    BY <2>3, <2>6
  <2> QED BY <2>2, <2>7, EmptySeq
<1>6. \A q \in Players : ~MoveUnderWay(q) /\ ~comm[q].need_update
  BY <1>1, <1>3, <1>4 DEF MoveUnderWay, InFlight
<1>7. View(PLAYER1) = View(PLAYER2)
  BY <1>2, <1>6 DEF Together
<1>8. View(o) = View(p)
  BY <1>1, <1>7 DEF Players
<1> QED BY <1>1, <1>5, <1>6, <1>8

\* p's program has not left the game.
Live(p) == playPc[p] \in SetupPcs \cup LoopPcs /\ ~comm[p].lost_con

\* A write to an empty channel, by a program that lives on, arrives.
LEMMA LiveWrite ==
  ASSUME TypeInv, NEW p \in Players, NEW m \in Messages, NEW c \in Comms, NEW pc,
         SockWrite(p, m, c, pc), chan[Other(p)] = <<>>, targetFD[p] = "sock", Live(p)'
  PROVE  /\ chan' = [chan EXCEPT ![Other(p)] = <<m>>]
         /\ comm' = [comm EXCEPT ![p] = c]
         /\ playPc' = [playPc EXCEPT ![p] = pc]
         /\ UNCHANGED <<netPc, closed>>
<1>1. TypeOK /\ Other(p) \in Players
  BY OtherPlayer DEF TypeInv
<1>2. PICK outcome \in WriteOutcomes(p) :
        /\ chan' = IF outcome = "sent" THEN Enqueue(Other(p), m) ELSE chan
        /\ comm' = [comm EXCEPT ![p] =
                      IF outcome = "failed" THEN [c EXCEPT !.lost_con = TRUE] ELSE c]
        /\ IF outcome = "killed" THEN Die(p, "sigpipe")
                                 ELSE PlayGoto(p, pc) /\ UNCHANGED <<netPc, closed>>
  BY DEF SockWrite
<1>3. outcome # "killed"
  <2>1. SUFFICES ASSUME outcome = "killed" PROVE FALSE
    OBVIOUS
  <2>2. playPc'[p] = "sigpipe"
    BY <1>1, <1>2, <2>1 DEF Die, TypeOK
  <2> QED BY <2>2 DEF Live, SetupPcs, LoopPcs
<1>4. PlayGoto(p, pc) /\ UNCHANGED <<netPc, closed>>
  BY <1>2, <1>3
<1>5. outcome # "failed"
  <2>1. SUFFICES ASSUME outcome = "failed" PROVE FALSE
    OBVIOUS
  <2>2. comm'[p].lost_con
    BY <1>1, <1>2, <2>1 DEF TypeOK, Comms
  <2> QED BY <2>2 DEF Live
<1>6. outcome = "sent"
  BY <1>3, <1>5 DEF WriteOutcomes
<1>7. Enqueue(Other(p), m) = [chan EXCEPT ![Other(p)] = <<m>>]
  <2>1. Len(chan[Other(p)]) < SendBuf
    BY SendBufAssumption
  <2>2. Append(chan[Other(p)], m) = <<m>>
    OBVIOUS
  <2> QED BY <2>1, <2>2 DEF Enqueue
<1> QED BY <1>2, <1>4, <1>6, <1>7 DEF PlayGoto

\* A write to a peer that plays, by a process that goes on playing, arrives.
LEMMA WriteArrives ==
  ASSUME TypeInv, NEW p \in Players, NEW m \in Messages, NEW c \in Comms, NEW pc \in LoopPcs,
         SockWrite(p, m, c, pc), chan[Other(p)] = <<>>, targetFD[p] = "sock", Alive(p)'
  PROVE  /\ chan' = [chan EXCEPT ![Other(p)] = <<m>>]
         /\ comm' = [comm EXCEPT ![p] = c]
         /\ playPc' = [playPc EXCEPT ![p] = pc]
         /\ UNCHANGED <<netPc, closed>>
<1>1. playPc'[p] \in {pc, "sigpipe"}
  BY DEF SockWrite, Die, PlayGoto, TypeInv, TypeOK
<1>2. Live(p)'
  BY <1>1 DEF Alive, Playing, Live, SetupPcs, LoopPcs
<1> QED BY <1>2, LiveWrite

\* What a write of a move or a skip leaves as it was, whatever its outcome.
LEMMA WriteKeeps ==
  ASSUME TypeInv, ViewInv, NEW p \in Players, NEW m \in Messages, m.kind # "QUIT",
         HasTurn(p), SockWrite(p, m, PassTurn(p), "conn")
  PROVE  /\ netPc'[PLAYER2] = "boot" => playPc'[PLAYER2] = "none"
         /\ playPc'[p] \in {"conn", "sigpipe"}
         /\ \A q \in Players : q # p => playPc'[q] = playPc[q] /\ comm'[q] = comm[q]
         /\ \A q \in Players :
              /\ Alive(q)' => Alive(q) /\ NoQuitTo(Other(q))'
              /\ comm'[q].need_update = comm[q].need_update
              /\ comm'[q].pos = comm[q].pos
<1> DEFINE o == Other(p)
<1>1. /\ TypeOK /\ o \in Players /\ o # p /\ Other(o) = p
      /\ \A q \in Players : q = p \/ q = o
      /\ PLAYER2 \in Players
  BY OtherPlayer DEF TypeInv, Players
<1>2. PassTurn(p) \in Comms /\ "conn" \in PlayPcs
  BY <1>1, FieldTypes DEF PassTurn, TypeOK, PlayPcs, LoopPcs
<1>3. /\ PassTurn(p).lost_con = comm[p].lost_con
      /\ PassTurn(p).need_update = comm[p].need_update
      /\ PassTurn(p).need_quit = comm[p].need_quit
      /\ PassTurn(p).pos = comm[p].pos
  BY <1>1 DEF PassTurn, TypeOK, Comms
<1>4. /\ comm'[p].need_update = comm[p].need_update
      /\ comm'[p].need_quit = comm[p].need_quit
      /\ comm'[p].pos = comm[p].pos
      /\ comm[p].lost_con => comm'[p].lost_con
      /\ comm'[o] = comm[o]
  <2>1. /\ comm'[p] \in {PassTurn(p), [PassTurn(p) EXCEPT !.lost_con = TRUE]}
        /\ comm'[o] = comm[o]
    BY <1>1, <1>2, SockWriteType
  <2> QED BY <1>2, <1>3, <2>1 DEF Comms
<1>5. /\ playPc'[p] \in {"conn", "sigpipe"} /\ playPc'[o] = playPc[o]
      /\ \A q \in Players : netPc'[q] \in {netPc[q], "sigpipe"}
  BY <1>1, <1>2, SockWritePlay
<1>6. /\ chan'[p] = chan[p]
      /\ \A i \in DOMAIN chan'[o] :
           \/ i \in DOMAIN chan[o] /\ chan'[o][i] = chan[o][i]
           \/ i = Len(chan[o]) + 1 /\ chan'[o][i] = m
  BY <1>1, SockWriteChan
<1> HIDE DEF o
<1>7. /\ NoQuitTo(o) => NoQuitTo(o)'
      /\ NoQuitTo(p) => NoQuitTo(p)'
  BY <1>4, <1>6 DEF NoQuitTo
<1>8. playPc[p] \in LoopPcs
  BY DEF HasTurn
<1>9. (Alive(p)' => Alive(p)) /\ (Alive(o)' => Alive(o))
  <2>1. Alive(p)' => Alive(p)
    BY <1>4, <1>5, <1>8 DEF Alive, Playing, SetupPcs, LoopPcs
  <2>2. Alive(o)' => Alive(o)
    BY <1>4, <1>5 DEF Alive, Playing
  <2> QED BY <2>1, <2>2
<1>10. netPc'[PLAYER2] = "boot" => playPc'[PLAYER2] = "none"
  <2>1. SUFFICES ASSUME netPc'[PLAYER2] = "boot" PROVE playPc'[PLAYER2] = "none"
    OBVIOUS
  <2>2. playPc[PLAYER2] = "none"
    BY <1>1, <1>5, <2>1 DEF ViewInv
  <2>3. PLAYER2 # p
    BY <1>8, <2>2 DEF LoopPcs
  <2> QED BY <1>1, <1>5, <2>2, <2>3
<1>11. (Alive(p)' => NoQuitTo(o)') /\ (Alive(o)' => NoQuitTo(p)')
  BY <1>1, <1>7, <1>9 DEF ViewInv, o
<1> QED BY <1>1, <1>4, <1>5, <1>9, <1>10, <1>11 DEF o

LEMMA PutViewStep ==
  ASSUME TypeInv, TurnInv, ViewInv, EarlyKeys = FALSE, NEW p \in Players, PlayPut(p)
  PROVE  /\ ViewInv'
         /\ (\A q \in Players : Alive(q)') =>
              \E l \in GetValidLoc(View(p), p) :
                /\ chan' = [chan EXCEPT ![Other(p)] = <<Move(p, l)>>]
                /\ comm' = [comm EXCEPT ![p] = PassTurn(p)]
                /\ playPc' = [playPc EXCEPT ![p] = "conn"]
                /\ UNCHANGED <<netPc, closed>>
                /\ View(p)' = Place(View(p), p, l) /\ View(Other(p))' = View(Other(p))
<1> DEFINE o == Other(p)
<1>1. /\ TypeOK /\ o \in Players /\ o # p /\ Other(o) = p
      /\ \A q \in Players : q = p \/ q = o
      /\ PLAYER1 \in Players /\ PLAYER2 \in Players
  BY OtherPlayer DEF TypeInv, Players
<1>2. playPc[p] = "key" /\ targetFD[p] = "sock" /\ HasTurn(p) /\ Owns(p)
  BY DEF PlayPut, KeyTyped, HasTurn, LoopPcs, Owns
<1>3. PICK l \in ValidLocs(p) :
        /\ board' = [board EXCEPT ![p] = Place(@, p, l)]
        /\ SockWrite(p, Move(p, l), PassTurn(p), "conn")
  BY DEF PlayPut
<1>4. l \in GetValidLoc(board[p], p) /\ l \in Locs
  BY <1>3, OfferedIs DEF ValidLocs
<1>5. Move(p, l) \in Messages /\ Move(p, l).kind = "MOVE" /\ Move(p, l).loc = l
  BY <1>4 DEF Move, Messages
<1>6. /\ netPc'[PLAYER2] = "boot" => playPc'[PLAYER2] = "none"
      /\ playPc'[p] \in {"conn", "sigpipe"} /\ playPc'[o] = playPc[o] /\ comm'[o] = comm[o]
      /\ \A q \in Players :
              /\ Alive(q)' => Alive(q) /\ NoQuitTo(Other(q))'
              /\ comm'[q].need_update = comm[q].need_update
              /\ comm'[q].pos = comm[q].pos
  <2>1. Move(p, l).kind # "QUIT"
    BY <1>5
  <2> QED BY <1>1, <1>2, <1>3, <1>5, <2>1, WriteKeeps
<1>7. board'[p] = Place(board[p], p, l) /\ board'[o] = board[o]
  BY <1>1, <1>3 DEF TypeOK
<1>8. View(p) = board[p] /\ View(o)' = View(o)
  BY <1>2, <1>6, <1>7 DEF View, SetupPcs
<1>9. ASSUME \A q \in Players : Alive(q)'
      PROVE  /\ chan' = [chan EXCEPT ![o] = <<Move(p, l)>>]
             /\ comm' = [comm EXCEPT ![p] = PassTurn(p)]
             /\ playPc' = [playPc EXCEPT ![p] = "conn"]
             /\ UNCHANGED <<netPc, closed>>
             /\ View(p)' = Place(View(p), p, l)
             /\ View(o) = View(p) /\ chan[p] = <<>>
             /\ \A q \in Players : ~comm[q].need_update
  <2>1. \A q \in Players : Alive(q)
    BY <1>6, <1>9
  <2>2. /\ View(o) = View(p) /\ chan[p] = <<>> /\ chan[o] = <<>>
        /\ \A q \in Players : ~comm[q].need_update
    BY <1>2, <2>1, MoverView
  <2>3. PassTurn(p) \in Comms /\ "conn" \in LoopPcs /\ Alive(p)'
    BY <1>1, <1>9, FieldTypes DEF PassTurn, TypeOK, LoopPcs
  <2>4. /\ chan' = [chan EXCEPT ![o] = <<Move(p, l)>>]
        /\ comm' = [comm EXCEPT ![p] = PassTurn(p)]
        /\ playPc' = [playPc EXCEPT ![p] = "conn"]
        /\ UNCHANGED <<netPc, closed>>
    BY <1>2, <1>3, <1>5, <2>2, <2>3, WriteArrives
  <2>5. playPc'[p] = "conn"
    BY <1>1, <2>4 DEF TypeOK
  <2>6. View(p)' = Place(View(p), p, l)
    BY <1>7, <1>8, <2>5 DEF View, SetupPcs
  <2> QED BY <2>2, <2>4, <2>6
<1> HIDE DEF o
<1>10. ASSUME \A q \in Players : Alive(q)'
       PROVE  Together'
  <2>1. chan'[o] = <<Move(p, l)>> /\ chan'[p] = <<>>
    BY <1>1, <1>9, <1>10 DEF TypeOK
  <2>2. DOMAIN chan'[o] = {1} /\ chan'[o][1] = Move(p, l) /\ DOMAIN chan'[p] = {}
    BY <2>1
  <2>3. \A q \in Players : ~comm'[q].need_update
    BY <1>6, <1>9, <1>10
  <2>4. After(View(o)', p, l, View(p)')
    BY <1>4, <1>8, <1>9, <1>10 DEF After
  <2>5. MoveUnderWay(o)'
    BY <1>5, <2>2 DEF MoveUnderWay
  <2>6. \A q \in Players :
          /\ comm'[q].need_update =>
               After(View(q)', Other(q), comm'[q].pos, View(Other(q))')
          /\ \A i \in DOMAIN chan'[q] :
               chan'[q][i].kind = "MOVE" =>
                 After(View(q)', Other(q), chan'[q][i].loc, View(Other(q))')
    BY <1>1, <1>5, <2>2, <2>3, <2>4 DEF o
  <2> QED BY <1>1, <2>5, <2>6 DEF Together
<1>11. \A q \in Players :
         playPc'[q] = "skip" => ~IsMyTurnValid(board'[q], q) /\ ~IsTimeToEnd(board'[q])
  BY <1>1, <1>6, <1>7 DEF ViewInv
<1>12. ViewInv'
  BY <1>6, <1>10, <1>11 DEF ViewInv
<1> QED BY <1>4, <1>8, <1>9, <1>12 DEF o

LEMMA SkipViewStep ==
  ASSUME TypeInv, TurnInv, ViewInv, NEW p \in Players, PlaySkip(p)
  PROVE  ViewInv' /\ \A q \in Players : View(q)' = View(q)
<1> DEFINE o == Other(p)
           m == SkipTo(o)
<1>1. /\ TypeOK /\ o \in Players /\ o # p /\ Other(o) = p
      /\ \A q \in Players : q = p \/ q = o
      /\ PLAYER1 \in Players /\ PLAYER2 \in Players
  BY OtherPlayer DEF TypeInv, Players
<1>2. playPc[p] = "skip" /\ HasTurn(p) /\ Owns(p) /\ board' = board
      /\ SockWrite(p, m, PassTurn(p), "conn")
  BY DEF PlaySkip, TurnInv, HasTurn, LoopPcs, Owns
<1>3. m \in Messages /\ m.kind = "SKIP" /\ m.kind # "QUIT" /\ m.kind # "MOVE"
  BY <1>1 DEF SkipTo, Messages
<1> HIDE DEF m
<1>4. /\ netPc'[PLAYER2] = "boot" => playPc'[PLAYER2] = "none"
      /\ playPc'[p] \in {"conn", "sigpipe"} /\ playPc'[o] = playPc[o]
      /\ \A q \in Players :
              /\ Alive(q)' => Alive(q) /\ NoQuitTo(Other(q))'
              /\ comm'[q].need_update = comm[q].need_update
  BY <1>1, <1>2, <1>3, WriteKeeps
<1>5. View(p)' = View(p) /\ View(o)' = View(o)
  BY <1>2, <1>4 DEF View, SetupPcs
<1>6. ASSUME \A q \in Players : Alive(q)'
      PROVE  Together'
  <2>1. \A q \in Players : Alive(q)
    BY <1>4, <1>6
  <2>2. /\ View(o) = View(p) /\ chan[p] = <<>> /\ chan[o] = <<>>
        /\ \A q \in Players : ~comm[q].need_update
    BY <1>2, <2>1, MoverView
  <2>3. /\ chan'[p] = chan[p]
        /\ \A i \in DOMAIN chan'[o] :
             \/ i \in DOMAIN chan[o] /\ chan'[o][i] = chan[o][i]
             \/ i = Len(chan[o]) + 1 /\ chan'[o][i] = m
    BY <1>1, <1>2, <1>3, SockWriteChan
  <2>4. DOMAIN chan[p] = {} /\ DOMAIN chan[o] = {}
    BY <2>2
  <2>5. \A q \in Players : \A i \in DOMAIN chan'[q] : chan'[q][i].kind # "MOVE"
    BY <1>1, <1>3, <2>3, <2>4
  <2>6. View(PLAYER1)' = View(PLAYER2)'
    BY <1>1, <1>5, <2>2
  <2>7. \A q \in Players : ~comm'[q].need_update
    BY <1>4, <2>2
  <2> QED BY <2>5, <2>6, <2>7 DEF Together
<1>7. \A q \in Players :
         playPc'[q] = "skip" => ~IsMyTurnValid(board'[q], q) /\ ~IsTimeToEnd(board'[q])
  BY <1>1, <1>2, <1>4 DEF ViewInv
<1>8. ViewInv'
  BY <1>4, <1>6, <1>7 DEF ViewInv
<1> QED BY <1>1, <1>5, <1>8

\* The peer's move is put on the board: both see the same again.
LEMMA TakeViewStep ==
  ASSUME TypeInv, TurnInv, ViewInv, NEW p \in Players, PlayUpdate(p), comm[p].need_update
  PROVE  /\ ViewInv'
         /\ (\A q \in Players : Alive(q)') =>
              View(p)' = View(Other(p)) /\ View(Other(p))' = View(Other(p))
<1> DEFINE o == Other(p)
<1>1. /\ TypeOK /\ o \in Players /\ o # p /\ Other(o) = p
      /\ \A q \in Players : q = p \/ q = o
      /\ PLAYER1 \in Players /\ PLAYER2 \in Players
  BY OtherPlayer DEF TypeInv, Players
<1>2. /\ playPc[p] = "update" /\ comm[p].player = o /\ InFlight(p)
      /\ board'[p] = Place(board[p], o, comm[p].pos) /\ board'[o] = board[o]
      /\ playPc'[p] = "flags" /\ playPc'[o] = playPc[o]
      /\ UNCHANGED <<netPc, chan>>
  BY <1>1 DEF PlayUpdate, PlayGoto, Received, TurnInv, TypeOK, InFlight
<1>3. /\ ~comm'[p].need_update
      /\ comm'[p].need_quit = comm[p].need_quit
      /\ comm'[p].lost_con = comm[p].lost_con
      /\ comm'[o] = comm[o]
  BY <1>1 DEF PlayUpdate, TypeOK, Comms
<1> HIDE DEF o
<1>4. View(p) = board[p] /\ View(p)' = board'[p] /\ View(o)' = View(o)
  BY <1>2 DEF View, SetupPcs
<1>5. \A q \in Players : Alive(q)' = Alive(q)
  <2>1. Alive(p)' = Alive(p)
    BY <1>2, <1>3 DEF Alive, Playing, LoopPcs, SetupPcs
  <2>2. Alive(o)' = Alive(o)
    BY <1>2, <1>3 DEF Alive, Playing
  <2> QED BY <1>1, <2>1, <2>2
<1>6. \A q \in Players : NoQuitTo(q)' = NoQuitTo(q)
  BY <1>1, <1>2, <1>3 DEF NoQuitTo
<1>7. ASSUME \A q \in Players : Alive(q)'
      PROVE  View(p)' = View(o)
  <2>1. After(View(p), o, comm[p].pos, View(o))
    BY <1>5, <1>7 DEF ViewInv, Together, o
  <2> QED BY <1>2, <1>4, <2>1 DEF After
<1>8. \A q \in Players : ~comm'[q].need_update /\ ~MoveUnderWay(q)'
  <2>1. ~InFlight(o)
    BY <1>2 DEF TurnInv, o
  <2>2. \A i \in DOMAIN chan[p] : ~PassesTurn(chan[p][i])
    BY DEF TurnInv, OneInFlight
  <2>3. ~comm'[o].need_update /\ ~MoveUnderWay(o)'
    BY <1>2, <1>3, <2>1 DEF MoveUnderWay, InFlight
  <2>4. ~comm'[p].need_update /\ ~MoveUnderWay(p)'
    BY <1>2, <1>3, <2>2 DEF MoveUnderWay, PassesTurn
  <2> QED BY <1>1, <2>3, <2>4
<1>9. ASSUME \A q \in Players : Alive(q)'
      PROVE  Together'
  <2>1. View(PLAYER1)' = View(PLAYER2)'
    BY <1>1, <1>4, <1>7, <1>9
  <2> QED BY <1>8, <2>1 DEF Together, MoveUnderWay
<1>10. \A q \in Players :
         playPc'[q] = "skip" => ~IsMyTurnValid(board'[q], q) /\ ~IsTimeToEnd(board'[q])
  BY <1>1, <1>2 DEF ViewInv
<1>11. netPc'[PLAYER2] = "boot" => playPc'[PLAYER2] = "none"
  <2>1. SUFFICES ASSUME netPc'[PLAYER2] = "boot" PROVE playPc'[PLAYER2] = "none"
    OBVIOUS
  <2>2. playPc[PLAYER2] = "none"
    BY <1>2, <2>1 DEF ViewInv
  <2> QED BY <1>1, <1>2, <2>2
<1>12. \A q \in Players : Alive(q)' => NoQuitTo(Other(q))'
  BY <1>1, <1>5, <1>6 DEF ViewInv, o
<1>13. ViewInv'
  BY <1>9, <1>10, <1>11, <1>12 DEF ViewInv
<1> QED BY <1>4, <1>7, <1>13 DEF o

\* The other steps of a play thread send nothing and leave the views alone.
LEMMA QuietViewStep ==
  ASSUME TypeInv, TurnInv, ViewInv, NEW p \in Players,
         \/ PlayWait(p) \/ PlayRestart(p) \/ PlayConn(p)
         \/ PlayUpdate(p) /\ ~comm[p].need_update
         \/ PlayFlags(p) \/ PlayEval(p) \/ PlayIdle(p) \/ PlayQuit(p)
  PROVE  ViewInv' /\ \A q \in Players : View(q)' = View(q)
<1> DEFINE o == Other(p)
<1>1. /\ TypeOK /\ o \in Players /\ o # p
      /\ \A q \in Players : q = p \/ q = o
      /\ PLAYER2 \in Players
  BY OtherPlayer DEF TypeInv, Players
<1>2. /\ playPc'[o] = playPc[o] /\ comm'[o] = comm[o] /\ board'[o] = board[o]
      /\ UNCHANGED <<netPc, chan>>
  BY <1>1 DEF PlayWait, PlayRestart, PlayConn, PlayUpdate, PlayFlags, PlayEval, PlayIdle,
              PlayQuit, PlayGoto, TypeOK
<1>3. /\ comm'[p].need_update = comm[p].need_update
      /\ comm'[p].need_quit = comm[p].need_quit
      /\ comm'[p].pos = comm[p].pos
      /\ comm[p].lost_con => comm'[p].lost_con
  BY <1>1 DEF PlayWait, PlayRestart, PlayConn, PlayUpdate, PlayFlags, PlayEval, PlayIdle,
              PlayQuit, TypeOK, Comms
<1>4. /\ playPc[p] \in {"wait", "restart"} \cup LoopPcs \cup {"quit"}
      /\ playPc[p] = "quit" => playPc'[p] = "done"
      /\ playPc[p] \in LoopPcs => playPc'[p] \in LoopPcs \cup {"quit"} /\ board'[p] = board[p]
      /\ playPc[p] = "wait" => playPc'[p] = "restart"
      /\ playPc[p] = "restart" => playPc'[p] = "conn" /\ board'[p] = InitBoard
      /\ playPc[p] = "quit" => board'[p] = board[p]
      /\ playPc'[p] = "skip" => ~IsMyTurnValid(board'[p], p) /\ ~IsTimeToEnd(board'[p])
  <2>1. CASE PlayWait(p)
    BY <1>1, <2>1 DEF PlayWait, PlayGoto, TypeOK, LoopPcs
  <2>2. CASE PlayRestart(p)
    BY <1>1, <2>2 DEF PlayRestart, PlayGoto, TypeOK, LoopPcs
  <2>3. CASE PlayConn(p)
    BY <1>1, <2>3 DEF PlayConn, PlayGoto, TypeOK, LoopPcs
  <2>4. CASE PlayUpdate(p) /\ ~comm[p].need_update
    BY <1>1, <2>4 DEF PlayUpdate, PlayGoto, TypeOK, LoopPcs
  <2>5. CASE PlayFlags(p)
    <3>1. ~comm[p].need_restart
      BY DEF TurnInv
    <3>2. playPc'[p] \in {"quit", "eval"}
      BY <1>1, <2>5, <3>1 DEF PlayFlags, PlayGoto, TypeOK
    <3> QED BY <1>1, <2>5, <3>2 DEF PlayFlags, TypeOK, LoopPcs
  <2>6. CASE PlayEval(p)
    <3>1. playPc'[p] \in {"quit", "skip", "key"}
      BY <1>1, <2>6 DEF PlayEval, PlayGoto, TypeOK
    <3>2. playPc'[p] = "skip" => ~IsMyTurnValid(board[p], p) /\ ~IsTimeToEnd(board[p])
      BY <1>1, <2>6 DEF PlayEval, PlayGoto, TypeOK
    <3> QED BY <1>1, <2>6, <3>1, <3>2 DEF PlayEval, TypeOK, LoopPcs
  <2>7. CASE PlayIdle(p)
    BY <1>1, <2>7 DEF PlayIdle, PlayGoto, TypeOK, LoopPcs
  <2>8. CASE PlayQuit(p)
    BY <1>1, <2>8 DEF PlayQuit, PlayGoto, TypeOK, LoopPcs
  <2> QED BY <2>1, <2>2, <2>3, <2>4, <2>5, <2>6, <2>7, <2>8
<1> HIDE DEF o
<1>5. View(p)' = View(p)
  BY <1>4 DEF View, SetupPcs, LoopPcs
<1>6. Alive(p)' => Alive(p)
  BY <1>3, <1>4 DEF Alive, Playing, SetupPcs, LoopPcs
<1>7. View(o)' = View(o) /\ (Alive(o)' => Alive(o))
  BY <1>2 DEF View, Alive, Playing
<1>8. \A q \in Players :
        /\ playPc'[q] = "skip" => ~IsMyTurnValid(board'[q], q) /\ ~IsTimeToEnd(board'[q])
        /\ comm'[q].need_update = comm[q].need_update
        /\ comm'[q].need_quit = comm[q].need_quit
        /\ comm'[q].pos = comm[q].pos
        /\ Alive(q)' => Alive(q) /\ View(q)' = View(q)
  BY <1>1, <1>2, <1>3, <1>4, <1>5, <1>6, <1>7 DEF ViewInv
<1>9. netPc'[PLAYER2] = "boot" => playPc'[PLAYER2] = "none"
  <2>1. SUFFICES ASSUME netPc'[PLAYER2] = "boot" PROVE playPc'[PLAYER2] = "none"
    OBVIOUS
  <2>2. playPc[PLAYER2] = "none"
    BY <1>2, <2>1 DEF ViewInv
  <2>3. PLAYER2 # p
    BY <1>4, <2>2 DEF LoopPcs
  <2> QED BY <1>1, <1>2, <2>2, <2>3
<1>10. ViewInv'
  BY <1>2, <1>8, <1>9, ViewFrame
<1> QED BY <1>1, <1>5, <1>7, <1>10

LEMMA QuitViewStep ==
  ASSUME TypeInv, ViewInv, NEW p \in Players, PlayPressQuit(p)
  PROVE  ViewInv'
<1> DEFINE o == Other(p)
<1>1. /\ TypeOK /\ o \in Players /\ o # p /\ Other(o) = p
      /\ \A q \in Players : q = p \/ q = o
      /\ PLAYER2 \in Players
  BY OtherPlayer DEF TypeInv, Players
<1>2. /\ playPc[p] = "key" /\ board' = board /\ SockWrite(p, QuitCmd, comm[p], "quit")
      /\ QuitCmd \in Messages /\ comm[p] \in Comms /\ "quit" \in PlayPcs
  BY <1>1 DEF PlayPressQuit, KeyTyped, QuitCmd, Messages, PlayPcs, TypeOK
<1>3. /\ comm'[p] \in {comm[p], [comm[p] EXCEPT !.lost_con = TRUE]}
      /\ comm'[o] = comm[o]
  BY <1>1, <1>2, SockWriteType
<1>4. /\ playPc'[p] \in {"quit", "sigpipe"} /\ playPc'[o] = playPc[o]
      /\ \A q \in Players : netPc'[q] \in {netPc[q], "sigpipe"}
  BY <1>1, <1>2, SockWritePlay
<1>5. chan'[p] = chan[p] /\ comm'[p].need_quit = comm[p].need_quit
  <2>1. chan'[p] = chan[p]
    BY <1>1, <1>2, SockWriteChan
  <2> QED BY <1>2, <1>3, <2>1 DEF Comms
<1> HIDE DEF o
<1>6. ~Alive(p)'
  BY <1>4 DEF Alive, Playing, SetupPcs, LoopPcs
<1>7. Alive(o)' => NoQuitTo(p)'
  <2>1. Alive(o)' => Alive(o)
    BY <1>3, <1>4 DEF Alive, Playing
  <2>2. Alive(o) => NoQuitTo(p)
    BY <1>1 DEF ViewInv, o
  <2> QED BY <1>5, <2>1, <2>2 DEF NoQuitTo
<1>8. netPc'[PLAYER2] = "boot" => playPc'[PLAYER2] = "none"
  <2>1. SUFFICES ASSUME netPc'[PLAYER2] = "boot" PROVE playPc'[PLAYER2] = "none"
    OBVIOUS
  <2>2. playPc[PLAYER2] = "none"
    BY <1>1, <1>4, <2>1 DEF ViewInv
  <2>3. PLAYER2 # p
    BY <1>2, <2>2
  <2> QED BY <1>1, <1>4, <2>2, <2>3
<1>9. \A q \in Players :
         playPc'[q] = "skip" => ~IsMyTurnValid(board'[q], q) /\ ~IsTimeToEnd(board'[q])
  BY <1>1, <1>2, <1>4 DEF ViewInv
<1>10. \A q \in Players : Alive(q)' => NoQuitTo(Other(q))'
  BY <1>1, <1>6, <1>7 DEF o
<1> QED BY <1>6, <1>8, <1>9, <1>10 DEF ViewInv

LEMMA ViewStep ==
  ASSUME Restarts = {}, EarlyKeys = FALSE, TypeInv, TurnInv, ViewInv, [Next]_vars
  PROVE  ViewInv'
<1>1. CASE UNCHANGED vars
  <2>1. \A q \in Players : Alive(q)' = Alive(q) /\ View(q)' = View(q)
    BY <1>1 DEF vars, Alive, Playing, View
  <2> QED BY <1>1, <2>1, ViewFrame DEF vars, ViewInv
<1>2. ASSUME NEW p \in Players, Net(p)
      PROVE  ViewInv'
  BY <1>2, NetViewStep
<1>3. ASSUME NEW p \in Players, Play(p)
      PROVE  ViewInv'
  <2>1. CASE \/ PlayWait(p) \/ PlayRestart(p) \/ PlayConn(p)
             \/ PlayUpdate(p) /\ ~comm[p].need_update
             \/ PlayFlags(p) \/ PlayEval(p) \/ PlayIdle(p) \/ PlayQuit(p)
    BY <2>1, QuietViewStep
  <2>2. CASE PlayUpdate(p) /\ comm[p].need_update
    BY <2>2, TakeViewStep
  <2>3. CASE PlaySkip(p)
    BY <2>3, SkipViewStep
  <2>4. CASE PlayPut(p)
    BY <2>4, PutViewStep
  <2>5. CASE PlayPressRestart(p)
    BY <2>5 DEF PlayPressRestart
  <2>6. CASE PlayPressQuit(p)
    BY <2>6, QuitViewStep
  <2> QED BY <1>3, <2>1, <2>2, <2>3, <2>4, <2>5, <2>6 DEF Play
<1> QED BY <1>1, <1>2, <1>3 DEF Next

LEMMA ViewInvariant ==
  ASSUME Restarts = {}, EarlyKeys = FALSE
  PROVE  Spec => [](TypeInv /\ TurnInv /\ ViewInv)
<1>1. TypeInv /\ TurnInv /\ ViewInv /\ [Next]_vars => (TypeInv /\ TurnInv /\ ViewInv)'
  BY TurnStep, ViewStep
<1> QED BY <1>1, TypeInit, TurnInit, ViewInit, PTL DEF Spec

\* A non-empty channel has a first command.
LEMMA HeadIs ==
  ASSUME TypeOK, NEW p \in Players, chan[p] # <<>>
  PROVE  1 \in DOMAIN chan[p] /\ Head(chan[p]) = chan[p][1]
<1>1. chan[p] \in Seq(Messages)
  BY DEF TypeOK
<1>2. Len(chan[p]) \in Nat \ {0} /\ DOMAIN chan[p] = 1 .. Len(chan[p])
  BY <1>1, EmptySeq, LenProperties
<1> QED BY <1>1, <1>2

LEMMA ViewToBeIs ==
  ASSUME TypeInv, TurnInv, ViewInv, \A q \in Players : Alive(q), NEW p \in Players
  PROVE  ViewToBe(p) = IF MoveUnderWay(p) THEN View(Other(p)) ELSE View(p)
<1> DEFINE o == Other(p)
<1>1. TypeOK /\ o \in Players /\ NoQuitTo(p) /\ Together /\ Other(o) = p
  BY OtherPlayer DEF TypeInv, ViewInv
<1>2. CASE comm[p].need_update
  <2>1. After(View(p), o, comm[p].pos, View(o)) /\ comm[p].player = o
    BY <1>1, <1>2 DEF Together, TurnInv
  <2>2. MoveUnderWay(p)
    BY <1>2 DEF MoveUnderWay
  <2> QED BY <1>2, <2>1, <2>2 DEF ViewToBe, Received, After
<1>3. CASE ~comm[p].need_update /\ MoveUnderWay(p)
  <2>1. PICK i \in DOMAIN chan[p] : chan[p][i].kind = "MOVE"
    BY <1>3 DEF MoveUnderWay
  <2>2. chan[p] # <<>>
    BY <2>1
  <2>3. 1 \in DOMAIN chan[p] /\ Head(chan[p]) = chan[p][1]
    BY <1>1, <2>2, HeadIs
  <2>4. i = 1
    BY <1>1, <2>1, <2>3, OnlyCommand
  <2>5. After(View(p), o, chan[p][1].loc, View(o)) /\ chan[p][1].player = o
    BY <1>1, <2>1, <2>3, <2>4 DEF Together, TurnInv, Wellformed
  <2>6. Head(chan[p]).kind = "MOVE" /\ Head(chan[p]).player = o
        /\ Head(chan[p]).loc = chan[p][1].loc
    BY <2>1, <2>3, <2>4, <2>5
  <2> QED BY <1>3, <2>2, <2>5, <2>6 DEF ViewToBe, After
<1>4. CASE ~MoveUnderWay(p)
  <2>1. chan[p] # <<>> => Head(chan[p]).kind # "MOVE"
    BY <1>1, <1>4, HeadIs DEF MoveUnderWay
  <2>2. ~comm[p].need_update
    BY <1>4 DEF MoveUnderWay
  <2> QED BY <1>4, <2>1, <2>2 DEF ViewToBe
<1> QED BY <1>2, <1>3, <1>4

(* While both users play, the boards are equal up to the move under way,    *)
(* for every board size and buffer, however reads are coalesced and whoever *)
(* quits, when the connection is up before the first key and nobody         *)
(* restarts.                                                                *)
THEOREM BoardsAgree ==
  ASSUME Restarts = {}, EarlyKeys = FALSE
  PROVE  Spec => []SameView
<1>1. TypeInv /\ TurnInv /\ ViewInv => SameView
  <2> SUFFICES ASSUME TypeInv, TurnInv, ViewInv, \A q \in Players : Alive(q)
               PROVE  ViewToBe(PLAYER1) = ViewToBe(PLAYER2)
    BY DEF SameView, Alive
  <2>1. /\ PLAYER1 \in Players /\ PLAYER2 \in Players
        /\ Other(PLAYER1) = PLAYER2 /\ Other(PLAYER2) = PLAYER1
    BY DEF Players, Other, PLAYER1, PLAYER2
  <2>2. \A q \in Players : ViewToBe(q) = IF MoveUnderWay(q) THEN View(Other(q)) ELSE View(q)
    BY ViewToBeIs
  <2>3. MoveUnderWay(PLAYER1) => ~MoveUnderWay(PLAYER2)
    <3>1. \A q \in Players : MoveUnderWay(q) => InFlight(q)
      BY DEF MoveUnderWay, InFlight
    <3> QED BY <2>1, <3>1 DEF TurnInv
  <2>4. ~MoveUnderWay(PLAYER1) /\ ~MoveUnderWay(PLAYER2) => View(PLAYER1) = View(PLAYER2)
    <3>1. Together
      BY DEF ViewInv
    <3>2. \A q \in Players : q = PLAYER1 \/ q = PLAYER2
      BY DEF Players
    <3> QED BY <3>1, <3>2 DEF Together
  <2> QED BY <2>1, <2>2, <2>3, <2>4
<1> QED BY <1>1, ViewInvariant, PTL

-----------------------------------------------------------------------------
(* The connection, in runs in which nobody quits either: it is never lost, *)
(* every command that is written arrives, and the turn is never written to *)
(* file descriptor 0 or to a client that has not started its game.         *)

Connected(p) ==
  /\ closed[p] = "no" /\ ~comm[p].lost_con /\ ~comm[p].need_quit
  /\ playPc[p] \in SetupPcs \cup LoopPcs
  /\ netPc[p] \in {"boot", "accept", "connect", "start", "target", "check", "read"}

\* The client came before the server listened, and is gone.
Refused == netPc[PLAYER2] = "refused" /\ playPc[PLAYER2] = "refused"

\* Nothing has been said yet.
Before ==
  /\ playPc[PLAYER2] \in {"none", "wait", "refused"} /\ board[PLAYER2] = EmptyBoard
  /\ playPc[PLAYER1] = "none" /\ netPc[PLAYER1] \in {"boot", "accept"}
  /\ \A p \in Players : chan[p] = <<>> /\ ~comm[p].need_update

Linked ==
  /\ (\A p \in Players : Connected(p)) \/ Refused
  /\ netPc[PLAYER2] \in {"boot", "connect", "refused"} => Before
  /\ netPc[PLAYER2] \in {"boot", "connect", "target", "refused"} => ~comm[PLAYER2].is_start
  /\ comm[PLAYER2].is_start \/ netPc[PLAYER2] = "start" => targetFD[PLAYER2] = "sock"
  /\ playPc[PLAYER2] \notin {"none", "wait", "refused"} => comm[PLAYER2].is_start
  /\ targetFD[PLAYER1] = "stdin" => Owns(PLAYER1) /\ View(PLAYER1) = InitBoard
  /\ \A i \in DOMAIN chan[PLAYER2] :
       chan[PLAYER2][i].kind = "SKIP" => playPc[PLAYER2] \in LoopPcs

LEMMA PlayersAre ==
  /\ PLAYER1 \in Players /\ PLAYER2 \in Players /\ PLAYER1 # PLAYER2
  /\ Other(PLAYER1) = PLAYER2 /\ Other(PLAYER2) = PLAYER1
  /\ \A q \in Players : q = PLAYER1 \/ q = PLAYER2
BY DEF Players, Other, PLAYER1, PLAYER2

LEMMA LinkedInit == Init => Linked
<1> SUFFICES ASSUME Init PROVE Linked
  OBVIOUS
<1>1. \A p \in Players :
        /\ playPc[p] = "none" /\ netPc[p] = "boot" /\ chan[p] = <<>> /\ closed[p] = "no"
        /\ ~comm[p].need_update /\ ~comm[p].need_quit /\ ~comm[p].lost_con
        /\ ~comm[p].is_start /\ board[p] = EmptyBoard
  BY DEF Init
<1>2. View(PLAYER1) = InitBoard /\ Owns(PLAYER1)
  BY <1>1, PlayersAre DEF View, SetupPcs, Owns
<1>3. \A p \in Players : Connected(p)
  BY <1>1 DEF Connected, SetupPcs
<1>4. Before
  BY <1>1, PlayersAre DEF Before
<1> QED BY <1>1, <1>2, <1>3, <1>4, PlayersAre DEF Linked

LEMMA ConnectedAlive ==
  ASSUME NEW p \in Players, Connected(p)
  PROVE  Alive(p)
BY DEF Connected, Alive, Playing

\* Only a client that was connected, and knows the socket, gets to its loop.
LEMMA PlayLinked ==
  ASSUME TypeInv, Linked, NEW p \in Players, Play(p)
  PROVE  /\ \A q \in Players : Connected(q) /\ Alive(q)
         /\ netPc[PLAYER2] \notin {"boot", "connect", "refused"}
         /\ p = PLAYER2 => comm[PLAYER2].is_start /\ targetFD[PLAYER2] = "sock"
         /\ p = PLAYER2 => netPc[PLAYER2] \notin {"boot", "connect", "target", "refused"}
<1>1. playPc[p] \notin {"none", "refused"} /\ (playPc[p] = "wait" => comm[p].is_start)
  BY DEF Play, PlayWait, PlayRestart, PlayConn, PlayUpdate, PlayFlags, PlayEval, PlaySkip,
         PlayIdle, PlayPut, PlayPressRestart, PlayPressQuit, PlayQuit, KeyTyped
<1>2. p = PLAYER2 => comm[PLAYER2].is_start /\ targetFD[PLAYER2] = "sock"
  BY <1>1 DEF Linked
<1>3. p = PLAYER2 => netPc[PLAYER2] \notin {"boot", "connect", "target", "refused"}
  BY <1>2 DEF Linked
<1>4. netPc[PLAYER2] \notin {"boot", "connect", "refused"}
  BY <1>1, <1>3, PlayersAre DEF Linked, Before
<1>5. \A q \in Players : Connected(q)
  BY <1>4 DEF Linked, Refused
<1> QED BY <1>2, <1>3, <1>4, <1>5, ConnectedAlive

\* While nobody quits, no main thread sees the connection end.
LEMMA NoEnd ==
  ASSUME Linked, NEW p \in Players
  PROVE  ~NetReadEof(p) /\ ~NetReadError(p) /\ ~NetClose(p)
<1>1. SUFFICES ASSUME NetReadEof(p) \/ NetReadError(p) \/ NetClose(p)
               PROVE  FALSE
  OBVIOUS
<1>2. (netPc[p] = "read" /\ closed[Other(p)] # "no") \/ netPc[p] = "close"
  BY <1>1 DEF NetReadEof, NetReadError, NetClose
<1>3. netPc[PLAYER2] \notin {"boot", "connect", "refused"}
  BY <1>2, PlayersAre DEF Linked, Before
<1>4. Connected(Other(p)) /\ Connected(p)
  BY <1>3, OtherPlayer DEF Linked, Refused
<1> QED BY <1>2, <1>4 DEF Connected

LEMMA NetLinkedStep ==
  ASSUME TypeInv, TurnInv, ViewInv, Linked, NEW p \in Players, Net(p)
  PROVE  Linked'
<1> USE DEF NetGoto, PlayGoto
<1>0. TypeOK
  BY DEF TypeInv
<1>1. CASE p = PLAYER1 /\ NetListen
  <2>1. /\ netPc'[PLAYER1] = "accept" /\ netPc[PLAYER1] = "boot"
        /\ netPc'[PLAYER2] = netPc[PLAYER2]
        /\ UNCHANGED <<board, comm, targetFD, playPc, chan, closed>>
    BY <1>0, <1>1, PlayersAre DEF NetListen, TypeOK
  <2>2. \A q \in Players : Connected(q) => Connected(q)'
    BY <2>1, PlayersAre DEF Connected
  <2>3. Before => Before'
    BY <2>1 DEF Before
  <2>4. Owns(PLAYER1)' = Owns(PLAYER1) /\ View(PLAYER1)' = View(PLAYER1)
    BY <2>1 DEF Owns, HasTurn, View
  <2> QED BY <2>1, <2>2, <2>3, <2>4 DEF Linked, Refused
<1>2. CASE p = PLAYER1 /\ NetAccept
  <2>1. playPc[PLAYER1] = "none" /\ netPc[PLAYER2] \notin {"boot", "connect", "refused"}
    BY <1>2 DEF NetAccept, TurnInv
  <2>2. /\ comm'[PLAYER1].lost_con = comm[PLAYER1].lost_con
        /\ comm'[PLAYER1].need_update = comm[PLAYER1].need_update
        /\ comm'[PLAYER1].need_quit = comm[PLAYER1].need_quit
        /\ comm'[PLAYER2] = comm[PLAYER2]
    BY <1>0, <1>2, PlayersAre DEF NetAccept, TypeOK, Comms
  <2>3. /\ playPc'[PLAYER1] = "wait" /\ playPc'[PLAYER2] = playPc[PLAYER2]
        /\ netPc'[PLAYER1] = "start" /\ netPc'[PLAYER2] = netPc[PLAYER2]
        /\ UNCHANGED <<board, targetFD, chan, closed>>
    BY <1>0, <1>2, PlayersAre DEF NetAccept, TypeOK
  <2>4. \A q \in Players : Connected(q)
    BY <2>1 DEF Linked, Refused
  <2>5. \A q \in Players : Connected(q)'
    BY <2>2, <2>3, <2>4, PlayersAre DEF Connected, SetupPcs
  <2>6. Owns(PLAYER1)' /\ View(PLAYER1)' = View(PLAYER1)
    BY <2>1, <2>3 DEF Owns, View, SetupPcs
  <2> QED BY <2>1, <2>2, <2>3, <2>5, <2>6 DEF Linked
<1>3. CASE p = PLAYER2 /\ NetCreateThread
  <2>1. netPc[PLAYER2] = "boot" /\ playPc[PLAYER2] = "none"
    BY <1>3 DEF NetCreateThread, ViewInv
  <2>2. /\ playPc'[PLAYER2] = "wait" /\ playPc'[PLAYER1] = playPc[PLAYER1]
        /\ netPc'[PLAYER2] = "connect" /\ netPc'[PLAYER1] = netPc[PLAYER1]
        /\ UNCHANGED <<board, comm, targetFD, chan, closed>>
    BY <1>0, <1>3, PlayersAre DEF NetCreateThread, TypeOK
  <2>3. \A q \in Players : Connected(q)
    BY <2>1 DEF Linked, Refused
  <2>4. \A q \in Players : Connected(q)'
    BY <2>2, <2>3, PlayersAre DEF Connected, SetupPcs
  <2>5. Before'
    BY <2>1, <2>2 DEF Linked, Before
  <2>6. Owns(PLAYER1)' = Owns(PLAYER1) /\ View(PLAYER1)' = View(PLAYER1)
    BY <2>2 DEF Owns, HasTurn, View
  <2>7. DOMAIN chan'[PLAYER2] = {}
    BY <2>5, PlayersAre DEF Before
  <2> QED BY <2>1, <2>2, <2>4, <2>5, <2>6, <2>7 DEF Linked
<1>4. CASE p = PLAYER2 /\ NetConnect
  <2>1. netPc[PLAYER2] = "connect" /\ Before /\ ~comm[PLAYER2].is_start
        /\ UNCHANGED <<board, comm, targetFD, chan>>
    BY <1>4 DEF NetConnect, Linked
  <2>2. /\ netPc'[PLAYER1] = netPc[PLAYER1] /\ playPc'[PLAYER1] = playPc[PLAYER1]
        /\ \/ netPc'[PLAYER2] = "refused" /\ playPc'[PLAYER2] = "refused"
           \/ netPc'[PLAYER2] = "target" /\ playPc'[PLAYER2] = playPc[PLAYER2]
              /\ UNCHANGED closed
    BY <1>0, <1>4, PlayersAre DEF NetConnect, Die, TypeOK
  <2>3. Before' /\ DOMAIN chan'[PLAYER2] = {}
    BY <2>1, <2>2, PlayersAre DEF Before
  <2>4. Owns(PLAYER1)' = Owns(PLAYER1) /\ View(PLAYER1)' = View(PLAYER1)
    BY <2>1, <2>2 DEF Owns, HasTurn, View
  <2>5. \A q \in Players : Connected(q)
    BY <2>1 DEF Linked, Refused
  <2>6. (\A q \in Players : Connected(q)') \/ Refused'
    BY <2>1, <2>2, <2>5, PlayersAre DEF Connected, Refused
  <2>7. playPc'[PLAYER2] \in {"none", "wait", "refused"}
    BY <2>3 DEF Before
  <2> QED BY <2>1, <2>2, <2>3, <2>4, <2>6, <2>7 DEF Linked
<1>5. CASE NetStart(p) \/ NetTarget(p) \/ NetCheck(p) \/ NetReadNothing(p)
  <2>1. /\ netPc[p] \notin {"boot", "connect", "refused", "accept"}
        /\ netPc'[p] \notin {"boot", "connect", "refused", "accept"}
        /\ \A q \in Players : q # p => netPc'[q] = netPc[q] /\ comm'[q] = comm[q]
                                       /\ targetFD'[q] = targetFD[q]
        /\ UNCHANGED <<board, playPc, chan, closed>>
    BY <1>0, <1>5 DEF NetStart, NetTarget, NetCheck, NetReadNothing, TypeOK
  <2>2. netPc[PLAYER2] \notin {"boot", "connect", "refused"}
    BY <2>1, PlayersAre DEF Linked, Before
  <2>3. \A q \in Players : Connected(q)
    BY <2>2 DEF Linked, Refused
  <2>4. /\ comm'[p].lost_con = comm[p].lost_con /\ comm'[p].need_quit = comm[p].need_quit
        /\ comm'[p].player = comm[p].player
        /\ comm'[p].is_start = comm[p].is_start \/ NetStart(p)
        /\ targetFD'[p] = targetFD[p] \/ targetFD'[p] = "sock"
        /\ comm[p].is_start => comm'[p].is_start
    <3>1. CASE NetStart(p)
      BY <1>0, <3>1 DEF NetStart, TypeOK, Comms
    <3>2. CASE NetTarget(p)
      BY <1>0, <3>2 DEF NetTarget, TypeOK
    <3>3. CASE NetCheck(p) \/ NetReadNothing(p)
      BY <1>0, <3>3 DEF NetCheck, NetReadNothing, TypeOK
    <3> QED BY <1>5, <3>1, <3>2, <3>3
  <2>5. netPc'[p] \in {"target", "check", "start", "read"}
    BY <1>0, <1>5, <2>3 DEF NetStart, NetTarget, NetCheck, NetReadNothing, TypeOK, Connected
  <2>6. \A q \in Players : Connected(q)'
    <3>1. Connected(p)'
      BY <2>1, <2>3, <2>4, <2>5 DEF Connected
    <3>2. \A q \in Players : q # p => Connected(q)'
      BY <2>1, <2>3 DEF Connected
    <3> QED BY <3>1, <3>2
  <2>7. Owns(PLAYER1)' = Owns(PLAYER1) /\ View(PLAYER1)' = View(PLAYER1)
    BY <2>1, <2>4, PlayersAre DEF Owns, HasTurn, View
  <2>8. /\ netPc'[PLAYER2] = "target" => ~comm'[PLAYER2].is_start
        /\ comm'[PLAYER2].is_start \/ netPc'[PLAYER2] = "start" => targetFD'[PLAYER2] = "sock"
    <3>1. CASE p = PLAYER1
      BY <2>1, <3>1, PlayersAre DEF Linked
    <3>2. CASE p = PLAYER2
      <4>1. netPc'[p] # "target"
        BY <1>0, <1>5, <2>3, <3>2, PlayersAre
           DEF NetStart, NetTarget, NetCheck, NetReadNothing, TypeOK, Connected
      <4>2. CASE NetStart(p)
        <5>1. netPc[PLAYER2] = "start" /\ UNCHANGED targetFD
          BY <3>2, <4>2 DEF NetStart
        <5> QED BY <3>2, <4>1, <5>1 DEF Linked
      <4>3. CASE NetTarget(p)
        <5>1. targetFD'[PLAYER2] = "sock"
          BY <1>0, <3>2, <4>3 DEF NetTarget, TypeOK
        <5> QED BY <3>2, <4>1, <5>1
      <4>4. CASE NetCheck(p) \/ NetReadNothing(p)
        <5>1. UNCHANGED <<targetFD, comm>> /\ netPc'[p] # "start"
          BY <1>0, <4>4 DEF NetCheck, NetReadNothing, TypeOK
        <5> QED BY <3>2, <4>1, <5>1 DEF Linked
      <4> QED BY <1>5, <4>2, <4>3, <4>4
    <3> QED BY <3>1, <3>2, PlayersAre
  <2>9. playPc'[PLAYER2] \notin {"none", "wait", "refused"} => comm'[PLAYER2].is_start
    BY <2>1, <2>4, PlayersAre DEF Linked
  <2>10. netPc'[PLAYER2] \notin {"boot", "connect", "refused"}
    BY <2>1, <2>2, PlayersAre
  <2>11. targetFD'[PLAYER1] = "stdin" => targetFD[PLAYER1] = "stdin"
    BY <2>1, <2>4, PlayersAre
  <2> QED BY <2>1, <2>6, <2>7, <2>8, <2>9, <2>10, <2>11 DEF Linked
<1>6. CASE NetReadData(p)
  <2>1. /\ netPc[p] = "read" /\ netPc'[p] = "check"
        /\ \A q \in Players : q # p => netPc'[q] = netPc[q] /\ comm'[q] = comm[q]
        /\ UNCHANGED <<board, playPc, closed, targetFD>>
    BY <1>0, <1>6 DEF NetReadData, TypeOK
  <2>2. netPc[PLAYER2] \notin {"boot", "connect", "refused"}
    BY <2>1, PlayersAre DEF Linked, Before
  <2>3. \A q \in Players : Connected(q) /\ Alive(q)
    BY <2>2, ConnectedAlive DEF Linked, Refused
  <2>4. NoQuitTo(p)
    <3>1. \A q \in Players : NoQuitTo(Other(q))
      BY <2>3 DEF ViewInv
    <3> QED BY <3>1, OtherPlayer
  <2>5. /\ 1 \in DOMAIN chan[p] /\ chan[p][1] \in Messages /\ PassesTurn(chan[p][1])
        /\ chan'[p] = <<>> /\ chan'[Other(p)] = chan[Other(p)]
        /\ comm'[p] = Update(comm[p], chan[p][1])
    BY <1>6, <2>4, ReadAll
  <2>6. comm[p] \in Comms /\ ~comm[p].need_quit /\ chan[p][1].kind # "QUIT"
    BY <1>0, <2>4, <2>5 DEF NoQuitTo, TypeOK
  <2>7. /\ comm'[p].lost_con = comm[p].lost_con /\ ~comm'[p].need_quit
        /\ comm'[p].is_start = comm[p].is_start
    BY <2>5, <2>6, UpdateView
  <2>8. \A q \in Players : Connected(q)'
    <3>1. Connected(p)'
      BY <2>1, <2>3, <2>7 DEF Connected
    <3>2. \A q \in Players : q # p => Connected(q)'
      BY <2>1, <2>3 DEF Connected
    <3> QED BY <3>1, <3>2
  <2>9. Owns(PLAYER1) => Owns(PLAYER1)'
    <3>1. CASE p = PLAYER1
      BY <2>4, <2>5, <3>1, OnlyCommand
    <3>2. CASE p # PLAYER1
      BY <2>1, <3>2, PlayersAre DEF Owns, HasTurn
    <3> QED BY <3>1, <3>2
  <2>10. View(PLAYER1)' = View(PLAYER1)
    BY <2>1 DEF View
  <2>11. /\ netPc'[PLAYER2] \notin {"boot", "connect", "refused"}
         /\ netPc'[PLAYER2] = "target" => netPc[PLAYER2] = "target"
         /\ netPc'[PLAYER2] = "start" => netPc[PLAYER2] = "start"
         /\ comm'[PLAYER2].is_start = comm[PLAYER2].is_start
    BY <2>1, <2>2, <2>7, PlayersAre
  <2>12. \A i \in DOMAIN chan'[PLAYER2] : chan'[PLAYER2] = chan[PLAYER2]
    BY <2>5, PlayersAre
  <2> QED BY <2>1, <2>8, <2>9, <2>10, <2>11, <2>12 DEF Linked
<1> QED BY <1>1, <1>2, <1>3, <1>4, <1>5, <1>6, NoEnd DEF Net

\* While the connection holds, a writer goes on playing.
LEMMA WriterLives ==
  ASSUME TypeInv, NEW p \in Players, NEW m,
         SockWrite(p, m, PassTurn(p), "conn"), targetFD[p] = "sock",
         \A q \in Players : Connected(q)
  PROVE  Alive(p)'
<1>1. TypeOK /\ Other(p) \in Players
  BY OtherPlayer DEF TypeInv
<1>2. closed[p] = "no" /\ closed[Other(p)] = "no" /\ ~comm[p].lost_con
  BY <1>1 DEF Connected
<1>3. WriteOutcomes(p) = {"sent"}
  BY <1>2 DEF WriteOutcomes
<1>4. comm' = [comm EXCEPT ![p] = PassTurn(p)] /\ PlayGoto(p, "conn")
  BY <1>3 DEF SockWrite
<1>5. playPc'[p] = "conn" /\ ~comm'[p].lost_con
  BY <1>1, <1>2, <1>4 DEF PlayGoto, PassTurn, TypeOK, Comms
<1> QED BY <1>5 DEF Alive, Playing, LoopPcs

\* The turn of a player who cannot move is passed to one who can, and hears of it.
LEMMA SkipArrives ==
  ASSUME TypeInv, TurnInv, ViewInv, Linked, NEW p \in Players, PlaySkip(p)
  PROVE  /\ targetFD[p] = "sock"
         /\ chan' = [chan EXCEPT ![Other(p)] = <<SkipTo(Other(p))>>]
         /\ comm' = [comm EXCEPT ![p] = PassTurn(p)]
         /\ playPc' = [playPc EXCEPT ![p] = "conn"]
         /\ UNCHANGED <<board, targetFD, netPc, closed>>
         /\ HasTurn(p) /\ View(Other(p)) = View(p) /\ View(p) = board[p]
         /\ ~IsMyTurnValid(board[p], p) /\ ~IsTimeToEnd(board[p])
         /\ p = PLAYER1 => playPc[PLAYER2] \in LoopPcs
<1> DEFINE o == Other(p)
<1>1. TypeOK /\ o \in Players
  BY OtherPlayer DEF TypeInv
<1>2. playPc[p] = "skip" /\ HasTurn(p) /\ Owns(p) /\ UNCHANGED <<board, targetFD>>
      /\ SockWrite(p, SkipTo(o), PassTurn(p), "conn")
  BY DEF PlaySkip, TurnInv, HasTurn, LoopPcs, Owns
<1>3. \A q \in Players : Connected(q) /\ Alive(q)
  BY PlayLinked DEF Play
<1>4. ~IsMyTurnValid(board[p], p) /\ ~IsTimeToEnd(board[p])
  BY <1>2 DEF ViewInv
<1>5. View(p) = board[p]
  BY <1>2 DEF View, SetupPcs
<1>6. View(o) = View(p) /\ chan[o] = <<>>
  BY <1>2, <1>3, MoverView
<1>7. p = PLAYER1 => View(p) # InitBoard
  BY <1>4, <1>5, FirstMove
<1>8. targetFD[p] = "sock"
  <2>1. CASE p = PLAYER2
    BY <2>1, PlayLinked DEF Play
  <2>2. CASE p = PLAYER1
    <3>1. targetFD[p] # "stdin"
      BY <1>7, <2>2 DEF Linked
    <3> QED BY <1>1, <3>1 DEF TypeOK
  <2> QED BY <2>1, <2>2, PlayersAre
<1>9. p = PLAYER1 => playPc[PLAYER2] \in LoopPcs
  <2>1. SUFFICES ASSUME p = PLAYER1, playPc[PLAYER2] \notin LoopPcs
                 PROVE  FALSE
    OBVIOUS
  <2>2. playPc[PLAYER2] \in SetupPcs
    BY <1>3, <2>1, PlayersAre DEF Connected
  <2>3. View(PLAYER2) = InitBoard
    BY <2>2 DEF View
  <2> QED BY <1>6, <1>7, <2>1, <2>3, PlayersAre
<1> HIDE DEF o
<1>10. SkipTo(o) \in Messages /\ PassTurn(p) \in Comms /\ "conn" \in LoopPcs
  BY <1>1, FieldTypes DEF SkipTo, Messages, PassTurn, TypeOK, LoopPcs, o
<1>11. Alive(p)'
  BY <1>2, <1>3, <1>8, WriterLives
<1>12. /\ chan' = [chan EXCEPT ![o] = <<SkipTo(o)>>]
       /\ comm' = [comm EXCEPT ![p] = PassTurn(p)]
       /\ playPc' = [playPc EXCEPT ![p] = "conn"]
       /\ UNCHANGED <<netPc, closed>>
  BY <1>2, <1>6, <1>8, <1>10, <1>11, WriteArrives DEF o
<1> QED BY <1>2, <1>4, <1>5, <1>6, <1>8, <1>9, <1>12 DEF o

LEMMA PutArrives ==
  ASSUME EarlyKeys = FALSE, TypeInv, TurnInv, ViewInv, Linked, NEW p \in Players, PlayPut(p)
  PROVE  /\ targetFD[p] = "sock" /\ HasTurn(p) /\ UNCHANGED targetFD
         /\ View(p) = View(Other(p))
         /\ \E l \in GetValidLoc(View(p), p) :
              /\ chan' = [chan EXCEPT ![Other(p)] = <<Move(p, l)>>]
              /\ comm' = [comm EXCEPT ![p] = PassTurn(p)]
              /\ playPc' = [playPc EXCEPT ![p] = "conn"]
              /\ UNCHANGED <<netPc, closed>>
              /\ View(p)' = Place(View(p), p, l) /\ View(Other(p))' = View(Other(p))
<1>1. TypeOK /\ \A q \in Players : q = p \/ q = Other(p)
  BY OtherPlayer DEF TypeInv
<1>2. playPc[p] = "key" /\ targetFD[p] = "sock" /\ HasTurn(p) /\ Owns(p) /\ UNCHANGED targetFD
  BY DEF PlayPut, KeyTyped, HasTurn, LoopPcs, Owns
<1>3. PICK l \in ValidLocs(p) : SockWrite(p, Move(p, l), PassTurn(p), "conn")
  BY DEF PlayPut
<1>4. \A q \in Players : Connected(q) /\ Alive(q)
  BY PlayLinked DEF Play
<1>5. Alive(p)'
  BY <1>2, <1>3, <1>4, WriterLives
<1>6. Alive(Other(p))'
  <2>1. Move(p, l) \in Messages /\ Move(p, l).kind # "QUIT"
    BY <1>3, OfferedIs DEF Move, Messages, ValidLocs
  <2>2. \A q \in Players : q # p => playPc'[q] = playPc[q] /\ comm'[q] = comm[q]
    BY <1>2, <1>3, <2>1, WriteKeeps
  <2>3. Other(p) \in Players /\ Other(p) # p
    BY OtherPlayer
  <2> QED BY <1>4, <2>2, <2>3 DEF Alive, Playing
<1>7. View(Other(p)) = View(p)
  BY <1>2, <1>4, MoverView
<1>8. \A q \in Players : Alive(q)'
  BY <1>1, <1>5, <1>6
<1> QED BY <1>2, <1>7, <1>8, PutViewStep

\* What the two steps that hand the turn over leave of Linked.
LEMMA HandOverLinked ==
  ASSUME TypeInv, TurnInv, Linked, NEW p \in Players, NEW m,
         HasTurn(p), targetFD[p] = "sock", UNCHANGED <<targetFD, netPc, closed>>,
         \A q \in Players : Connected(q),
         netPc[PLAYER2] \notin {"boot", "connect", "refused"},
         p = PLAYER2 => comm[PLAYER2].is_start,
         chan' = [chan EXCEPT ![Other(p)] = <<m>>],
         comm' = [comm EXCEPT ![p] = PassTurn(p)],
         playPc' = [playPc EXCEPT ![p] = "conn"],
         p = PLAYER1 /\ m.kind = "SKIP" => playPc[PLAYER2] \in LoopPcs
  PROVE  Linked'
<1>1. TypeOK /\ Other(p) \in Players /\ Other(p) # p
  BY OtherPlayer DEF TypeInv
<1>2. /\ comm'[p].lost_con = comm[p].lost_con /\ comm'[p].need_quit = comm[p].need_quit
      /\ comm'[p].is_start = comm[p].is_start
      /\ \A q \in Players : q # p => comm'[q] = comm[q] /\ playPc'[q] = playPc[q]
      /\ playPc'[p] = "conn"
  BY <1>1 DEF PassTurn, TypeOK, Comms
<1>3. \A q \in Players : Connected(q)'
  <2>1. Connected(p)'
    BY <1>2 DEF Connected, LoopPcs
  <2>2. \A q \in Players : q # p => Connected(q)'
    BY <1>2 DEF Connected
  <2> QED BY <2>1, <2>2
<1>4. targetFD'[PLAYER1] # "stdin"
  <2>1. CASE p = PLAYER1
    BY <2>1
  <2>2. CASE p = PLAYER2
    <3>1. ~Owns(PLAYER1)
      BY <2>2, PlayersAre DEF TurnInv, Owns
    <3> QED BY <3>1 DEF Linked
  <2> QED BY <2>1, <2>2, PlayersAre
<1>5. \A i \in DOMAIN chan'[PLAYER2] :
        chan'[PLAYER2][i].kind = "SKIP" => playPc'[PLAYER2] \in LoopPcs
  <2>1. CASE p = PLAYER1
    <3>1. chan'[PLAYER2] = <<m>> /\ playPc'[PLAYER2] = playPc[PLAYER2]
      BY <1>1, <1>2, <2>1, PlayersAre DEF TypeOK
    <3>2. \A i \in DOMAIN <<m>> : <<m>>[i] = m
      OBVIOUS
    <3> QED BY <2>1, <3>1, <3>2
  <2>2. CASE p = PLAYER2
    BY <1>2, <2>2 DEF LoopPcs
  <2> QED BY <2>1, <2>2, PlayersAre
<1>6. /\ comm'[PLAYER2].is_start = comm[PLAYER2].is_start
      /\ playPc'[PLAYER2] = playPc[PLAYER2] \/ p = PLAYER2
  BY <1>2, PlayersAre
<1> QED BY <1>3, <1>4, <1>5, <1>6 DEF Linked

LEMMA PlayLinkedStep ==
  ASSUME Restarts = {}, EarlyKeys = FALSE, Quits = FALSE,
         TypeInv, TurnInv, ViewInv, Linked, NEW p \in Players, Play(p)
  PROVE  Linked'
<1>1. TypeOK
  BY DEF TypeInv
<1>2. /\ \A q \in Players : Connected(q) /\ Alive(q)
      /\ netPc[PLAYER2] \notin {"boot", "connect", "refused"}
      /\ p = PLAYER2 => comm[PLAYER2].is_start /\ targetFD[PLAYER2] = "sock"
  BY PlayLinked
<1>3. CASE PlaySkip(p)
  BY <1>2, <1>3, SkipArrives, HandOverLinked
<1>4. CASE PlayPut(p)
  <2>1. PICK l \in GetValidLoc(View(p), p) :
              /\ chan' = [chan EXCEPT ![Other(p)] = <<Move(p, l)>>]
              /\ comm' = [comm EXCEPT ![p] = PassTurn(p)]
              /\ playPc' = [playPc EXCEPT ![p] = "conn"]
              /\ UNCHANGED <<netPc, closed>>
    BY <1>4, PutArrives
  <2>2. targetFD[p] = "sock" /\ HasTurn(p) /\ UNCHANGED targetFD
    BY <1>4, PutArrives
  <2>3. Move(p, l).kind # "SKIP"
    BY DEF Move
  <2> QED BY <1>2, <2>1, <2>2, <2>3, HandOverLinked
<1>5. CASE \/ PlayWait(p) \/ PlayRestart(p) \/ PlayConn(p) \/ PlayUpdate(p)
           \/ PlayFlags(p) \/ PlayEval(p) \/ PlayIdle(p)
  <2>1. /\ \A q \in Players : q # p => /\ playPc'[q] = playPc[q] /\ comm'[q] = comm[q]
                                       /\ board'[q] = board[q]
        /\ UNCHANGED <<netPc, chan, closed, targetFD>>
    BY <1>1, <1>5 DEF PlayWait, PlayRestart, PlayConn, PlayUpdate, PlayFlags, PlayEval,
                      PlayIdle, PlayGoto, TypeOK
  <2>2. /\ comm'[p].need_quit = comm[p].need_quit
        /\ comm'[p].lost_con = comm[p].lost_con
        /\ comm'[p].is_start = comm[p].is_start
    BY <1>1, <1>5 DEF PlayWait, PlayRestart, PlayConn, PlayUpdate, PlayFlags, PlayEval,
                      PlayIdle, TypeOK, Comms
  <2>3. ~comm[p].lost_con /\ ~comm[p].need_quit /\ ~comm[p].need_restart
    BY <1>2 DEF Connected, TurnInv
  <2>4. \/ playPc[p] = "wait" /\ playPc'[p] = "restart" /\ comm' = comm
        \/ playPc[p] = "restart" /\ playPc'[p] = "conn" /\ comm'[p].player = PLAYER1
        \/ /\ playPc[p] \in LoopPcs /\ playPc'[p] \in LoopPcs
           /\ comm'[p].player = comm[p].player \/ comm[p].need_update
    <3>1. CASE PlayWait(p)
      BY <1>1, <3>1 DEF PlayWait, PlayGoto, TypeOK
    <3>2. CASE PlayRestart(p)
      BY <1>1, <3>2 DEF PlayRestart, PlayGoto, TypeOK, Comms
    <3>3. CASE PlayConn(p)
      BY <1>1, <2>3, <3>3 DEF PlayConn, PlayGoto, TypeOK, LoopPcs
    <3>4. CASE PlayUpdate(p)
      BY <1>1, <3>4 DEF PlayUpdate, PlayGoto, TypeOK, LoopPcs
    <3>5. CASE PlayFlags(p)
      BY <1>1, <2>3, <3>5 DEF PlayFlags, PlayGoto, TypeOK, LoopPcs
    <3>6. CASE PlayEval(p)
      <4>1. playPc'[p] \in {"skip", "key"}
        BY <1>1, <2>3, <3>6 DEF PlayEval, PlayGoto, TypeOK
      <4> QED BY <3>6, <4>1 DEF PlayEval, LoopPcs
    <3>7. CASE PlayIdle(p)
      BY <1>1, <3>7 DEF PlayIdle, PlayGoto, TypeOK, LoopPcs
    <3> QED BY <1>5, <3>1, <3>2, <3>3, <3>4, <3>5, <3>6, <3>7
  <2>5. \A q \in Players : Connected(q)'
    <3>1. Connected(p)'
      BY <1>2, <2>1, <2>2, <2>4 DEF Connected, SetupPcs, LoopPcs
    <3>2. \A q \in Players : q # p => Connected(q)'
      BY <1>2, <2>1 DEF Connected
    <3> QED BY <3>1, <3>2
  <2>6. targetFD'[PLAYER1] = "stdin" => Owns(PLAYER1)' /\ View(PLAYER1)' = InitBoard
    <3>1. SUFFICES ASSUME targetFD[PLAYER1] = "stdin"
                   PROVE  Owns(PLAYER1)' /\ View(PLAYER1)' = InitBoard
      BY <2>1
    <3>2. Owns(PLAYER1) /\ View(PLAYER1) = InitBoard
      BY <3>1 DEF Linked
    <3>3. CASE p = PLAYER2
      <4>1. View(PLAYER1)' = View(PLAYER1) /\ Owns(PLAYER1)' = Owns(PLAYER1)
        BY <2>1, <3>3, PlayersAre DEF View, Owns, HasTurn
      <4> QED BY <3>2, <4>1
    <3>4. CASE p = PLAYER1
      <4>1. ~comm[p].need_update
        BY <3>2, <3>4, PlayersAre DEF TurnInv, InFlight
      <4>2. Owns(PLAYER1)'
        BY <2>4, <3>2, <3>4, <4>1 DEF Owns, HasTurn, SetupPcs, LoopPcs
      <4>3. View(PLAYER1)' = View(PLAYER1)
        BY <1>5, <3>4, <4>1, PlayersAre, QuietViewStep
      <4> QED BY <3>2, <4>2, <4>3
    <3> QED BY <3>3, <3>4, PlayersAre
  <2>7. /\ comm'[PLAYER2].is_start = comm[PLAYER2].is_start
        /\ playPc'[PLAYER2] = playPc[PLAYER2] \/ comm[PLAYER2].is_start
        /\ playPc[PLAYER2] \in LoopPcs => playPc'[PLAYER2] \in LoopPcs
    <3>1. CASE p = PLAYER1
      BY <2>1, <3>1, PlayersAre
    <3>2. CASE p = PLAYER2
      BY <1>2, <2>2, <2>4, <3>2 DEF LoopPcs
    <3> QED BY <3>1, <3>2, PlayersAre
  <2> QED BY <1>2, <2>1, <2>5, <2>6, <2>7 DEF Linked
<1>6. CASE PlayPressRestart(p) \/ PlayPressQuit(p)
  BY <1>6 DEF PlayPressRestart, PlayPressQuit
<1>7. CASE PlayQuit(p)
  BY <1>2, <1>7 DEF PlayQuit, Connected, SetupPcs, LoopPcs
<1> QED BY <1>3, <1>4, <1>5, <1>6, <1>7 DEF Play

LEMMA LinkedStep ==
  ASSUME Restarts = {}, EarlyKeys = FALSE, Quits = FALSE,
         TypeInv, TurnInv, ViewInv, Linked, [Next]_vars
  PROVE  Linked'
<1>1. CASE UNCHANGED vars
  <2>1. /\ \A q \in Players : Connected(q)' = Connected(q)
        /\ Refused' = Refused /\ Before' = Before
        /\ Owns(PLAYER1)' = Owns(PLAYER1) /\ View(PLAYER1)' = View(PLAYER1)
    BY <1>1 DEF vars, Connected, Refused, Before, Owns, HasTurn, View
  <2> QED BY <1>1, <2>1 DEF vars, Linked
<1>2. CASE Next
  BY <1>2, NetLinkedStep, PlayLinkedStep DEF Next
<1> QED BY <1>1, <1>2

-----------------------------------------------------------------------------
(* The game that the two programs play.  OthelloGame has the rules of      *)
(* OthelloRules: its operators are these.                                  *)

LEMMA GamePlayers ==
  /\ Game!Players = Players /\ Game!PLAYER1 = PLAYER1 /\ Game!InitBoard = InitBoard
  /\ \A p : Game!Other(p) = Other(p)
BY DEF Game!Players, Game!PLAYER1, Game!PLAYER2, Players, PLAYER1, PLAYER2,
       Game!InitBoard, InitBoard, Game!Index, Index, Game!Middle, Middle, Game!Other, Other

LEMMA GameRun ==
  ASSUME NEW b, NEW l, NEW d, NEW t
  PROVE  Game!RunLength(b, l, d, t) = RunLength(b, l, d, t)
BY DEF Game!RunLength, RunLength, Game!OnTarget, OnTarget,
       Game!Shift, Shift, Game!At, At, Game!Index, Index

LEMMA GameValid ==
  ASSUME NEW b, NEW p
  PROVE  Game!GetValidLoc(b, p) = GetValidLoc(b, p)
BY GameRun, GamePlayers DEF Game!GetValidLoc, GetValidLoc, Game!StopCell, StopCell,
   Game!Shift, Shift, Game!At, At, Game!Locs, Locs, Game!Index, Index, Game!Steps, Steps

LEMMA GameTurned ==
  ASSUME NEW b, NEW p, NEW l
  PROVE  Game!Turned(b, p, l) = Turned(b, p, l)
BY GameRun, GamePlayers DEF Game!Turned, Turned, Game!StopCell, StopCell, Game!Shift,
   Shift, Game!OnTarget, OnTarget, Game!At, At, Game!Index, Index, Game!Steps, Steps

LEMMA GamePlace ==
  ASSUME NEW b, NEW p, NEW l
  PROVE  Game!Place(b, p, l) = Place(b, p, l)
BY GameTurned DEF Game!Place, Place, Game!AdjustGame, AdjustGame, Game!Index, Index

LEMMA GameTests ==
  ASSUME NEW b, NEW p
  PROVE  /\ Game!IsMyTurnValid(b, p) = IsMyTurnValid(b, p)
         /\ Game!IsTimeToEnd(b) = IsTimeToEnd(b)
BY GameValid, GamePlayers DEF Game!IsMyTurnValid, IsMyTurnValid, Game!IsTimeToEnd, IsTimeToEnd

\* A move under way has been made: the mover's view is the one that counts.
LEMMA LeadingIs ==
  ASSUME TypeInv, TurnInv, ViewInv, \A q \in Players : Alive(q)
  PROVE  /\ \A p \in Players : MoveUnderWay(p) => LeadingView = View(Other(p))
         /\ (\A p \in Players : ~MoveUnderWay(p)) =>
              View(PLAYER1) = View(PLAYER2) /\ LeadingView = View(PLAYER1)
<1>1. \A q \in Players : View(q) \in Boards
  BY InitBoardType DEF View, TypeInv, TypeOK
<1>2. Together
  BY DEF ViewInv
<1>3. ASSUME NEW p \in Players, MoveUnderWay(p)
      PROVE  /\ Discs(View(Other(p))) = Discs(View(p)) + 1
             /\ Discs(View(p)) \in Nat
  <2>1. PICK l : After(View(p), Other(p), l, View(Other(p)))
    BY <1>2, <1>3 DEF Together, MoveUnderWay
  <2> QED BY <1>1, <2>1, OtherPlayer, MoveCounts DEF After
<1>4. ASSUME NEW p \in Players, MoveUnderWay(p)
      PROVE  LeadingView = View(Other(p))
  <2>1. CASE p = PLAYER1
    BY <1>3, <1>4, <2>1, PlayersAre DEF LeadingView
  <2>2. CASE p = PLAYER2
    BY <1>3, <1>4, <2>2, PlayersAre DEF LeadingView
  <2> QED BY <2>1, <2>2, PlayersAre
<1>5. ASSUME \A p \in Players : ~MoveUnderWay(p)
      PROVE  View(PLAYER1) = View(PLAYER2) /\ LeadingView = View(PLAYER1)
  <2>1. View(PLAYER1) = View(PLAYER2)
    BY <1>2, <1>5 DEF Together
  <2> QED BY <2>1 DEF LeadingView
<1> QED BY <1>4, <1>5

\* The player to move, in the game.
ToMove == IF HasTurn(PLAYER2) \/ InFlight(PLAYER2) THEN PLAYER2 ELSE PLAYER1

\* Whoever may move is the player to move, and sees the board of the game.
LEMMA MoverIs ==
  ASSUME TypeInv, TurnInv, ViewInv, NEW p \in Players, HasTurn(p),
         \A q \in Players : Alive(q)
  PROVE  ToMove = p /\ LeadingView = View(p) /\ View(Other(p)) = View(p)
<1>1. Owns(p)
  BY DEF Owns
<1>2. View(Other(p)) = View(p)
  BY <1>1, MoverView
<1>3. LeadingView = View(p)
  BY <1>2, PlayersAre DEF LeadingView
<1>4. ToMove = p
  <2>1. CASE p = PLAYER1
    <3>1. ~Owns(PLAYER2) /\ ~InFlight(PLAYER2)
      BY <1>1, <2>1, PlayersAre DEF TurnInv
    <3> QED BY <2>1, <3>1 DEF ToMove, Owns
  <2>2. CASE p = PLAYER2
    BY <2>2 DEF ToMove
  <2> QED BY <2>1, <2>2, PlayersAre
<1> QED BY <1>2, <1>3, <1>4

\* A command that hands the turn over has handed it over as soon as it is sent.
LEMMA HandedOver ==
  ASSUME TypeInv, TurnInv, NEW p \in Players, HasTurn(p), NEW m, PassesTurn(m),
         chan' = [chan EXCEPT ![Other(p)] = <<m>>],
         comm' = [comm EXCEPT ![p] = PassTurn(p)]
  PROVE  ToMove' = Other(p)
<1>1. TypeOK
  BY DEF TypeInv
<1>2. CASE p = PLAYER1
  <2>1. chan'[PLAYER2] = <<m>>
    BY <1>1, <1>2, PlayersAre DEF TypeOK
  <2>2. 1 \in DOMAIN <<m>> /\ <<m>>[1] = m
    OBVIOUS
  <2>3. InFlight(PLAYER2)'
    BY <2>1, <2>2 DEF InFlight, PassesTurn
  <2> QED BY <1>2, <2>3, PlayersAre DEF ToMove
<1>3. CASE p = PLAYER2
  <2>1. /\ chan'[PLAYER2] = chan[PLAYER2]
        /\ comm'[PLAYER2].need_update = comm[PLAYER2].need_update
        /\ comm'[PLAYER2].player = PLAYER1
    BY <1>1, <1>3, PlayersAre DEF PassTurn, TypeOK, Comms
  <2>2. ~InFlight(PLAYER2)
    BY <1>3 DEF TurnInv, Owns
  <2>3. ~InFlight(PLAYER2)' /\ ~HasTurn(PLAYER2)'
    BY <2>1, <2>2, PlayersAre DEF InFlight, HasTurn
  <2> QED BY <1>3, <2>3, PlayersAre DEF ToMove
<1> QED BY <1>2, <1>3, PlayersAre

\* Steps of the programs that the game does not have.
Unseen == UNCHANGED <<LeadingView, ToMove>>

LEMMA UnseenFrame ==
  ASSUME \A q \in Players : View(q)' = View(q),
         HasTurn(PLAYER2)' \/ InFlight(PLAYER2)' <=> HasTurn(PLAYER2) \/ InFlight(PLAYER2)
  PROVE  Unseen
<1>1. View(PLAYER1)' = View(PLAYER1) /\ View(PLAYER2)' = View(PLAYER2)
  BY PlayersAre
<1> QED BY <1>1 DEF Unseen, LeadingView, ToMove

LEMMA EmptyIsNotFuller == ~(Discs(EmptyBoard) > Discs(InitBoard))
<1>1. \A m \in Locs : At(EmptyBoard, m) = 0
  BY LocsAreCells DEF At, EmptyBoard
<1>2. {m \in Locs : At(EmptyBoard, m) # 0} = {}
  BY <1>1
<1>3. Discs(EmptyBoard) = 0
  BY <1>2, FS_EmptySet DEF Discs
<1>4. Discs(InitBoard) \in Nat
  BY FiniteCells DEF Discs
<1> QED BY <1>3, <1>4

LEMMA NetUnseen ==
  ASSUME TypeInv, TurnInv, ViewInv, Linked, NEW p \in Players, Net(p)
  PROVE  Unseen
<1> USE DEF NetGoto, PlayGoto
<1>0. TypeOK
  BY DEF TypeInv
<1>1. CASE \/ p = PLAYER1 /\ NetListen
           \/ NetStart(p) \/ NetTarget(p) \/ NetCheck(p) \/ NetReadNothing(p)
  <2>1. /\ UNCHANGED <<board, playPc, chan>>
        /\ \A q \in Players : /\ comm'[q].player = comm[q].player
                              /\ comm'[q].need_update = comm[q].need_update
    <3>1. CASE p = PLAYER1 /\ NetListen
      BY <3>1 DEF NetListen
    <3>2. CASE NetStart(p)
      <4>1. /\ comm' = [comm EXCEPT ![p].is_start = TRUE]
            /\ UNCHANGED <<board, playPc, chan>>
        BY <3>2 DEF NetStart
      <4>2. \A q \in Players : comm[q] \in Comms
        BY <1>0 DEF TypeOK
      <4> QED BY <1>0, <4>1, <4>2 DEF TypeOK, Comms
    <3>3. CASE NetTarget(p)
      BY <3>3 DEF NetTarget
    <3>4. CASE NetCheck(p)
      BY <3>4 DEF NetCheck
    <3>5. CASE NetReadNothing(p)
      BY <3>5 DEF NetReadNothing
    <3> QED BY <1>1, <3>1, <3>2, <3>3, <3>4, <3>5
  <2>2. \A q \in Players : View(q)' = View(q)
    BY <2>1 DEF View
  <2>3. HasTurn(PLAYER2)' = HasTurn(PLAYER2) /\ InFlight(PLAYER2)' = InFlight(PLAYER2)
    BY <2>1, PlayersAre DEF HasTurn, InFlight
  <2> QED BY <2>2, <2>3, UnseenFrame
<1>2. CASE p = PLAYER1 /\ NetAccept
  <2>1. playPc[PLAYER1] = "none"
    BY <1>2 DEF NetAccept, TurnInv
  <2>2. /\ playPc'[PLAYER1] = "wait" /\ playPc'[PLAYER2] = playPc[PLAYER2]
        /\ comm'[PLAYER2] = comm[PLAYER2] /\ UNCHANGED <<board, chan>>
    BY <1>0, <1>2, PlayersAre DEF NetAccept, TypeOK
  <2>3. \A q \in Players : View(q)' = View(q)
    BY <2>1, <2>2, PlayersAre DEF View, SetupPcs
  <2>4. HasTurn(PLAYER2)' = HasTurn(PLAYER2) /\ InFlight(PLAYER2)' = InFlight(PLAYER2)
    BY <2>2 DEF HasTurn, InFlight
  <2> QED BY <2>3, <2>4, UnseenFrame
<1>3. CASE p = PLAYER2 /\ NetCreateThread
  <2>1. playPc[PLAYER2] = "none"
    BY <1>3 DEF NetCreateThread, ViewInv
  <2>2. /\ playPc'[PLAYER2] = "wait" /\ playPc'[PLAYER1] = playPc[PLAYER1]
        /\ UNCHANGED <<board, comm, chan>>
    BY <1>0, <1>3, PlayersAre DEF NetCreateThread, TypeOK
  <2>3. \A q \in Players : View(q)' = View(q)
    BY <2>1, <2>2, PlayersAre DEF View, SetupPcs
  <2>4. HasTurn(PLAYER2)' = HasTurn(PLAYER2) /\ InFlight(PLAYER2)' = InFlight(PLAYER2)
    BY <2>1, <2>2 DEF HasTurn, InFlight, LoopPcs
  <2> QED BY <2>3, <2>4, UnseenFrame
<1>4. CASE p = PLAYER2 /\ NetConnect
  <2>1. Before /\ UNCHANGED <<board, comm, chan>> /\ netPc[PLAYER2] = "connect"
    BY <1>4 DEF NetConnect, Linked
  <2>2. /\ playPc'[PLAYER1] = playPc[PLAYER1]
        /\ playPc'[PLAYER2] = "refused" \/ playPc'[PLAYER2] = playPc[PLAYER2]
    BY <1>0, <1>4, PlayersAre DEF NetConnect, Die, TypeOK
  <2>3. playPc[PLAYER2] \in {"none", "wait"}
    <3>1. Connected(PLAYER2)
      BY <2>1, PlayersAre DEF Linked, Refused
    <3> QED BY <2>1, <3>1 DEF Before, Connected, SetupPcs, LoopPcs
  <2>4. View(PLAYER1) = InitBoard /\ View(PLAYER2) = InitBoard /\ View(PLAYER1)' = InitBoard
    BY <2>1, <2>2, <2>3 DEF View, Before, SetupPcs
  <2>5. View(PLAYER2)' \in {InitBoard, EmptyBoard}
    BY <2>1, <2>2, <2>3 DEF View, Before, SetupPcs
  <2>6. LeadingView = InitBoard /\ LeadingView' = InitBoard
    BY <2>4, <2>5, EmptyIsNotFuller DEF LeadingView
  <2>7. HasTurn(PLAYER2)' = HasTurn(PLAYER2) /\ InFlight(PLAYER2)' = InFlight(PLAYER2)
    BY <2>1, <2>2, <2>3 DEF HasTurn, InFlight, LoopPcs
  <2> QED BY <2>6, <2>7 DEF Unseen, ToMove
<1>5. CASE NetReadData(p)
  <2>1. /\ netPc[p] = "read" /\ UNCHANGED <<board, playPc>>
        /\ \A q \in Players : q # p => comm'[q] = comm[q]
    BY <1>0, <1>5 DEF NetReadData, TypeOK
  <2>2. netPc[PLAYER2] \notin {"boot", "connect", "refused"}
    BY <2>1, PlayersAre DEF Linked, Before
  <2>3. \A q \in Players : Connected(q) /\ Alive(q)
    BY <2>2, ConnectedAlive DEF Linked, Refused
  <2>4. NoQuitTo(p)
    <3>1. \A q \in Players : NoQuitTo(Other(q))
      BY <2>3 DEF ViewInv
    <3> QED BY <3>1, OtherPlayer
  <2>5. /\ 1 \in DOMAIN chan[p] /\ chan[p][1] \in Messages /\ PassesTurn(chan[p][1])
        /\ chan'[p] = <<>> /\ chan'[Other(p)] = chan[Other(p)]
        /\ comm'[p] = Update(comm[p], chan[p][1])
    BY <1>5, <2>4, ReadAll
  <2>6. \A q \in Players : View(q)' = View(q)
    BY <2>1 DEF View
  <2>7. CASE p = PLAYER1
    <3>1. chan'[PLAYER2] = chan[PLAYER2] /\ comm'[PLAYER2] = comm[PLAYER2]
      BY <2>1, <2>5, <2>7, PlayersAre
    <3>2. HasTurn(PLAYER2)' = HasTurn(PLAYER2) /\ InFlight(PLAYER2)' = InFlight(PLAYER2)
      BY <2>1, <3>1 DEF HasTurn, InFlight
    <3> QED BY <2>6, <3>2, UnseenFrame
  <2>8. CASE p = PLAYER2
    <3>1. InFlight(PLAYER2)
      BY <2>5, <2>8 DEF InFlight, PassesTurn
    <3>2. comm[p] \in Comms /\ ~comm[p].need_quit
      BY <1>0, <2>4 DEF NoQuitTo, TypeOK
    <3>3. CASE chan[p][1].kind = "MOVE"
      <4>1. comm'[p].need_update
        BY <2>5, <3>2, <3>3, UpdateView
      <4>2. InFlight(PLAYER2)'
        BY <2>8, <4>1 DEF InFlight
      <4> QED BY <2>6, <3>1, <4>2, UnseenFrame
    <3>4. CASE chan[p][1].kind = "SKIP"
      <4>1. comm'[p].player = chan[p][1].player
        BY <2>5, <3>2, <3>4, UpdateView
      <4>2. chan[p][1].player = PLAYER2
        BY <2>5, <2>8, <3>4 DEF TurnInv, Wellformed
      <4>3. playPc[PLAYER2] \in LoopPcs
        BY <2>5, <2>8, <3>4 DEF Linked
      <4>4. HasTurn(PLAYER2)'
        BY <2>1, <2>8, <4>1, <4>2, <4>3 DEF HasTurn
      <4> QED BY <2>6, <3>1, <4>4, UnseenFrame
    <3> QED BY <2>5, <3>3, <3>4 DEF PassesTurn
  <2> QED BY <2>7, <2>8, PlayersAre
<1> QED BY <1>1, <1>2, <1>3, <1>4, <1>5, NoEnd DEF Net

LEMMA PlayUnseen ==
  ASSUME Restarts = {}, EarlyKeys = FALSE, Quits = FALSE,
         TypeInv, TurnInv, ViewInv, Linked, NEW p \in Players, Play(p),
         ~PlaySkip(p), ~PlayPut(p)
  PROVE  Unseen
<1>1. TypeOK
  BY DEF TypeInv
<1>2. \A q \in Players : Connected(q) /\ Alive(q)
  BY PlayLinked
<1>3. CASE PlayUpdate(p) /\ comm[p].need_update
  <2>1. ViewInv' /\ Linked' /\ TypeInv' /\ TurnInv'
    BY <1>3, TakeViewStep, PlayLinkedStep, PlayTypeStep, PlayTurnStep
  <2>2. /\ playPc[p] = "update" /\ playPc'[p] = "flags" /\ comm'[p].player = p
        /\ ~comm'[p].need_update /\ comm'[p].lost_con = comm[p].lost_con
        /\ UNCHANGED chan
        /\ \A q \in Players : q # p => comm'[q] = comm[q] /\ playPc'[q] = playPc[q]
    BY <1>1, <1>3 DEF PlayUpdate, PlayGoto, TypeOK, Comms
  <2>3. \A q \in Players : Alive(q)'
    BY <1>2, <2>2 DEF Connected, Alive, Playing, LoopPcs
  <2>4. View(p)' = View(Other(p)) /\ View(Other(p))' = View(Other(p))
    BY <1>3, <2>3, TakeViewStep
  <2>5. LeadingView = View(Other(p))
    <3>1. MoveUnderWay(p)
      BY <1>3 DEF MoveUnderWay
    <3> QED BY <1>2, <3>1, LeadingIs
  <2>6. LeadingView' = View(Other(p))
    BY <2>4, PlayersAre DEF LeadingView
  <2>7. ToMove' = ToMove
    <3>1. CASE p = PLAYER2
      BY <1>3, <2>2, <3>1 DEF ToMove, InFlight, HasTurn, LoopPcs
    <3>2. CASE p = PLAYER1
      <4>1. HasTurn(PLAYER2)' = HasTurn(PLAYER2) /\ InFlight(PLAYER2)' = InFlight(PLAYER2)
        BY <2>2, <3>2, PlayersAre DEF InFlight, HasTurn
      <4> QED BY <4>1 DEF ToMove
    <3> QED BY <3>1, <3>2, PlayersAre
  <2> QED BY <2>5, <2>6, <2>7 DEF Unseen
<1>4. CASE \/ PlayWait(p) \/ PlayRestart(p) \/ PlayConn(p)
           \/ PlayUpdate(p) /\ ~comm[p].need_update
           \/ PlayFlags(p) \/ PlayEval(p) \/ PlayIdle(p)
  <2>1. \A q \in Players : View(q)' = View(q)
    BY <1>4, QuietViewStep
  <2>2. /\ \A q \in Players : q # p => comm'[q] = comm[q] /\ playPc'[q] = playPc[q]
        /\ comm'[p].need_update = comm[p].need_update /\ UNCHANGED chan
    BY <1>1, <1>4 DEF PlayWait, PlayRestart, PlayConn, PlayUpdate, PlayFlags, PlayEval,
                      PlayIdle, PlayGoto, TypeOK, Comms
  <2>3. InFlight(PLAYER2)' = InFlight(PLAYER2)
    BY <2>2, PlayersAre DEF InFlight
  <2>4. HasTurn(PLAYER2)' = HasTurn(PLAYER2)
    <3>1. CASE p = PLAYER1
      BY <2>2, <3>1, PlayersAre DEF HasTurn
    <3>2. CASE p = PLAYER2 /\ PlayWait(p)
      BY <1>1, <3>2 DEF PlayWait, PlayGoto, TypeOK, HasTurn, LoopPcs
    <3>3. CASE p = PLAYER2 /\ PlayRestart(p)
      <4>1. comm'[PLAYER2].player = PLAYER1 /\ playPc[PLAYER2] = "restart"
        BY <1>1, <3>3 DEF PlayRestart, TypeOK, Comms
      <4> QED BY <4>1, PlayersAre DEF HasTurn, LoopPcs
    <3>4. CASE p = PLAYER2 /\ ~PlayWait(p) /\ ~PlayRestart(p)
      <4>1. comm' = comm /\ playPc[p] \in LoopPcs
        BY <1>4, <3>4 DEF PlayConn, PlayUpdate, PlayFlags, PlayEval, PlayIdle, LoopPcs
      <4>2. playPc'[p] \in LoopPcs
        <5>1. Connected(p)'
          <6>1. Linked'
            BY PlayLinkedStep
          <6>2. UNCHANGED netPc
            BY <1>4 DEF PlayWait, PlayRestart, PlayConn, PlayUpdate, PlayFlags, PlayEval,
                        PlayIdle
          <6>3. netPc[PLAYER2] # "refused"
            BY PlayLinked
          <6> QED BY <6>1, <6>2, <6>3 DEF Linked, Refused
        <5>2. playPc'[p] \notin SetupPcs
          <6>1. ~comm[p].need_restart
            BY DEF TurnInv
          <6> QED BY <1>1, <1>4, <3>4, <6>1
                  DEF PlayConn, PlayUpdate, PlayFlags, PlayEval, PlayIdle, PlayGoto, TypeOK,
                      SetupPcs
        <5> QED BY <5>1, <5>2 DEF Connected
      <4> QED BY <3>4, <4>1, <4>2 DEF HasTurn
    <3> QED BY <3>1, <3>2, <3>3, <3>4, PlayersAre
  <2> QED BY <2>1, <2>3, <2>4, UnseenFrame
<1>5. CASE PlayPressRestart(p) \/ PlayPressQuit(p)
  BY <1>5 DEF PlayPressRestart, PlayPressQuit
<1>6. CASE PlayQuit(p)
  BY <1>2, <1>6 DEF PlayQuit, Connected, SetupPcs, LoopPcs
<1> QED BY <1>3, <1>4, <1>5, <1>6 DEF Play

LEMMA PutIsPut ==
  ASSUME EarlyKeys = FALSE, TypeInv, TurnInv, ViewInv, Linked, NEW p \in Players, PlayPut(p)
  PROVE  Game!Put(p)
<1>1. \A q \in Players : Alive(q)
  BY PlayLinked DEF Play
<1>2. HasTurn(p)
  BY PutArrives
<1>3. PICK l \in GetValidLoc(View(p), p) :
              /\ chan' = [chan EXCEPT ![Other(p)] = <<Move(p, l)>>]
              /\ comm' = [comm EXCEPT ![p] = PassTurn(p)]
              /\ View(p)' = Place(View(p), p, l) /\ View(Other(p))' = View(Other(p))
  BY PutArrives
<1>4. ToMove = p /\ LeadingView = View(p) /\ View(Other(p)) = View(p)
  BY <1>1, <1>2, MoverIs
<1>5. ToMove' = Other(p)
  <2>1. PassesTurn(Move(p, l))
    BY DEF Move, PassesTurn
  <2> QED BY <1>2, <1>3, <2>1, HandedOver
<1>6. LeadingView' = Place(LeadingView, p, l)
  <2>1. View(p) \in Boards
    BY InitBoardType DEF View, TypeInv, TypeOK
  <2>2. Discs(Place(View(p), p, l)) = Discs(View(p)) + 1 /\ Discs(View(p)) \in Nat
    BY <2>1, MoveCounts
  <2>3. CASE p = PLAYER1
    BY <1>3, <1>4, <2>2, <2>3, PlayersAre DEF LeadingView
  <2>4. CASE p = PLAYER2
    BY <1>3, <1>4, <2>2, <2>4, PlayersAre DEF LeadingView
  <2> QED BY <2>3, <2>4, PlayersAre
<1>7. l \in Game!GetValidLoc(LeadingView, p)
      /\ LeadingView' = Game!Place(LeadingView, p, l)
  BY <1>4, <1>6, GameValid, GamePlace
<1> QED BY <1>4, <1>5, <1>7, GamePlayers DEF Game!Put, ToMove

LEMMA SkipIsSkip ==
  ASSUME TypeInv, TurnInv, ViewInv, Linked, NEW p \in Players, PlaySkip(p)
  PROVE  Game!Skip(p)
<1>1. \A q \in Players : Alive(q)
  BY PlayLinked DEF Play
<1>2. /\ chan' = [chan EXCEPT ![Other(p)] = <<SkipTo(Other(p))>>]
      /\ comm' = [comm EXCEPT ![p] = PassTurn(p)]
      /\ HasTurn(p) /\ View(p) = board[p]
      /\ ~IsMyTurnValid(board[p], p) /\ ~IsTimeToEnd(board[p])
  BY SkipArrives
<1>3. ToMove = p /\ LeadingView = View(p)
  BY <1>1, <1>2, MoverIs
<1>4. ToMove' = Other(p)
  <2>1. PassesTurn(SkipTo(Other(p)))
    BY DEF SkipTo, PassesTurn
  <2> QED BY <1>2, <2>1, HandedOver
<1>5. LeadingView' = LeadingView
  <2>1. View(PLAYER1)' = View(PLAYER1) /\ View(PLAYER2)' = View(PLAYER2)
    BY SkipViewStep, PlayersAre
  <2> QED BY <2>1 DEF LeadingView
<1>6. ~Game!IsMyTurnValid(LeadingView, p) /\ ~Game!IsTimeToEnd(LeadingView)
  BY <1>2, <1>3, GameTests
<1> QED BY <1>3, <1>4, <1>5, <1>6, GamePlayers DEF Game!Skip, ToMove

LEMMA StepPlaysGame ==
  ASSUME Restarts = {}, EarlyKeys = FALSE, Quits = FALSE,
         TypeInv, TurnInv, ViewInv, Linked, [Next]_vars
  PROVE  [Game!Next]_(Game!vars)
<1>1. CASE UNCHANGED vars
  <2>1. /\ \A q \in Players : View(q)' = View(q)
        /\ HasTurn(PLAYER2)' = HasTurn(PLAYER2) /\ InFlight(PLAYER2)' = InFlight(PLAYER2)
    BY <1>1 DEF vars, View, HasTurn, InFlight
  <2>2. Unseen
    BY <2>1, UnseenFrame
  <2> QED BY <2>2 DEF Unseen, ToMove, Game!vars
<1>2. ASSUME NEW p \in Players, Net(p)
      PROVE  UNCHANGED Game!vars
  <2>1. Unseen
    BY <1>2, NetUnseen
  <2> QED BY <2>1 DEF Unseen, ToMove, Game!vars
<1>3. ASSUME NEW p \in Players, Play(p)
      PROVE  Game!Next \/ UNCHANGED Game!vars
  <2>1. CASE PlayPut(p)
    BY <2>1, PutIsPut, GamePlayers DEF Game!Next
  <2>2. CASE PlaySkip(p)
    BY <2>2, SkipIsSkip, GamePlayers DEF Game!Next
  <2>3. CASE ~PlayPut(p) /\ ~PlaySkip(p)
    <3>1. Unseen
      BY <1>3, <2>3, PlayUnseen
    <3> QED BY <3>1 DEF Unseen, ToMove, Game!vars
  <2> QED BY <2>1, <2>2, <2>3
<1> QED BY <1>1, <1>2, <1>3 DEF Next

(* The two programs play one game of Othello, however reads are coalesced   *)
(* and threads interleave: every step is a legal move of the player whose   *)
(* turn it is, a skip of one who cannot move, or invisible.  Nobody quits   *)
(* or restarts, and the connection is up before the first key: each of the  *)
(* three makes the programs depart from the game.                           *)
THEOREM ProgramsPlayOneGame ==
  ASSUME Restarts = {}, EarlyKeys = FALSE, Quits = FALSE
  PROVE  Spec => PlaysOneGame
<1>1. Init => Game!Init
  <2> SUFFICES ASSUME Init PROVE Game!Init
    OBVIOUS
  <2>1. \A q \in Players : /\ playPc[q] = "none" /\ ~comm[q].need_update
                           /\ chan[q] = <<>>
    BY DEF Init
  <2>2. View(PLAYER1) = InitBoard /\ View(PLAYER2) = InitBoard
    BY <2>1, PlayersAre DEF View, SetupPcs
  <2>3. LeadingView = InitBoard
    BY <2>2 DEF LeadingView
  <2>4. ~HasTurn(PLAYER2) /\ ~InFlight(PLAYER2)
    BY <2>1, PlayersAre DEF HasTurn, LoopPcs, InFlight
  <2> QED BY <2>3, <2>4, GamePlayers DEF Game!Init
<1>2. Linked /\ TypeInv /\ TurnInv /\ ViewInv /\ [Next]_vars => Linked'
  BY LinkedStep
<1>3. Linked /\ TypeInv /\ TurnInv /\ ViewInv /\ [Next]_vars => [Game!Next]_(Game!vars)
  BY StepPlaysGame
<1> QED BY <1>1, <1>2, <1>3, LinkedInit, ViewInvariant, PTL DEF Spec, PlaysOneGame, Game!Spec

-----------------------------------------------------------------------------
(* Restarts of the client in its own turn.  While both programs live, the   *)
(* game is in one of five phases; the phase says what is on its way, what    *)
(* both boards are, and who will have the turn next.                        *)

\* Nothing is on its way to p.
Calm(p) == chan[p] = <<>> /\ ~comm[p].need_update /\ ~comm[p].need_restart

\* p's loop, if it runs, is waiting for the other player.
Waits(p) == playPc[p] \in LoopPcs => comm[p].player = Other(p)

ServersTurn ==
  /\ Owns(PLAYER1) /\ Waits(PLAYER2)
  /\ Calm(PLAYER1) /\ Calm(PLAYER2) /\ View(PLAYER1) = View(PLAYER2)

ClientsTurn ==
  /\ HasTurn(PLAYER2) /\ playPc[PLAYER1] \in LoopPcs /\ Waits(PLAYER1)
  /\ Calm(PLAYER1) /\ Calm(PLAYER2) /\ View(PLAYER1) = View(PLAYER2)

\* A move to p waits in the shared record, or in the channel, or a skip does.
MoveRead(p) ==
  /\ chan[p] = <<>> /\ comm[p].need_update /\ comm[p].player = Other(p)
  /\ After(View(p), Other(p), comm[p].pos, View(Other(p)))

MoveSent(p) ==
  /\ ~comm[p].need_update
  /\ \E l \in Locs : chan[p] = <<Move(Other(p), l)>>
                     /\ After(View(p), Other(p), l, View(Other(p)))

SkipSent(p) ==
  /\ ~comm[p].need_update /\ chan[p] = <<SkipTo(p)>>
  /\ playPc[p] \in LoopPcs /\ View(p) = View(Other(p))

TurnGoesTo(p) ==
  /\ playPc[Other(p)] \in LoopPcs /\ Waits(Other(p)) /\ Calm(Other(p))
  /\ Waits(p) /\ ~comm[p].need_restart
  /\ p = PLAYER1 => playPc[p] \in LoopPcs
  /\ MoveRead(p) \/ MoveSent(p) \/ SkipSent(p)

\* The client is back at the opening, and the server hears of it.
Restarting ==
  /\ playPc[PLAYER2] \in {"restart"} \cup LoopPcs /\ Waits(PLAYER2)
  /\ View(PLAYER2) = InitBoard /\ Calm(PLAYER2)
  /\ Waits(PLAYER1) /\ ~comm[PLAYER1].need_update
  /\ \/ /\ chan[PLAYER1] = <<RestartCmd>> /\ ~comm[PLAYER1].need_restart
        /\ playPc[PLAYER1] \in LoopPcs
     \/ /\ chan[PLAYER1] = <<>> /\ comm[PLAYER1].need_restart
        /\ playPc[PLAYER1] \in {"restart"} \cup LoopPcs

Phases ==
  \/ ServersTurn \/ ClientsTurn \/ Restarting
  \/ TurnGoesTo(PLAYER1) \/ TurnGoesTo(PLAYER2)

\* A thread about to skip has the turn, and cannot move.
SkipsRightly(p) ==
  playPc[p] = "skip" =>
    comm[p].player = p /\ ~IsMyTurnValid(board[p], p) /\ ~IsTimeToEnd(board[p])

\* How the two programs come together.
Wired ==
  /\ netPc[PLAYER1] \in {"boot", "accept"} => playPc[PLAYER1] = "none"
  /\ netPc[PLAYER2] = "boot" => playPc[PLAYER2] = "none"
  /\ comm[PLAYER2].is_start \/ netPc[PLAYER2] = "start" => targetFD[PLAYER2] = "sock"
  /\ playPc[PLAYER2] \in {"restart"} \cup LoopPcs => comm[PLAYER2].is_start

InPhase ==
  /\ Phases
  /\ targetFD[PLAYER1] = "stdin" => ServersTurn /\ View(PLAYER1) = InitBoard
  /\ \A q \in Players : SkipsRightly(q) /\ ~comm[q].need_quit

RestartInv == Wired /\ ((\A q \in Players : Live(q)) => InPhase)

LEMMA RestartInit == Init => RestartInv
<1> SUFFICES ASSUME Init PROVE RestartInv
  OBVIOUS
<1>1. \A q \in Players :
        /\ playPc[q] = "none" /\ chan[q] = <<>> /\ View(q) = InitBoard
        /\ ~comm[q].need_update /\ ~comm[q].need_restart /\ ~comm[q].need_quit
        /\ ~comm[q].is_start /\ netPc[q] = "boot"
  BY DEF Init, View, SetupPcs
<1>2. ServersTurn
  BY <1>1, PlayersAre DEF ServersTurn, Owns, Waits, Calm, SetupPcs, LoopPcs
<1>3. Wired
  BY <1>1, PlayersAre DEF Wired, LoopPcs
<1> QED BY <1>1, <1>2, <1>3, PlayersAre DEF RestartInv, InPhase, Phases, SkipsRightly

-----------------------------------------------------------------------------
(* A program that has left the game does not come back to it.               *)

LEMMA NetKeepsLive ==
  ASSUME TypeInv, Wired, NEW p \in Players, Net(p)
  PROVE  \A q \in Players : Live(q)' => Live(q)
<1> USE DEF NetGoto, PlayGoto
<1>0. TypeOK /\ PLAYER1 \in Players /\ PLAYER2 \in Players /\ PLAYER1 # PLAYER2
      /\ PLAYER1 \in Players \cup {0}
  BY PlayersAre DEF TypeInv
<1>1. CASE p = PLAYER1 /\ NetListen
  BY <1>0, <1>1 DEF NetListen, TypeOK, Live
<1>2. CASE p = PLAYER1 /\ NetAccept
  <2>1. playPc[PLAYER1] = "none"
    BY <1>2 DEF NetAccept, Wired
  <2>2. /\ comm'[PLAYER1].lost_con = comm[PLAYER1].lost_con
        /\ \A q \in Players : q # PLAYER1 => comm'[q] = comm[q] /\ playPc'[q] = playPc[q]
    BY <1>0, <1>2 DEF NetAccept, TypeOK, Comms
  <2> QED BY <2>1, <2>2 DEF Live, SetupPcs
<1>3. CASE p = PLAYER2 /\ NetCreateThread
  <2>1. playPc[PLAYER2] = "none"
    BY <1>3 DEF NetCreateThread, Wired
  <2> QED BY <1>0, <1>3, <2>1 DEF NetCreateThread, TypeOK, Live, SetupPcs
<1>4. CASE p = PLAYER2 /\ NetConnect
  BY <1>0, <1>4 DEF NetConnect, Die, TypeOK, Live, SetupPcs, LoopPcs
<1>5. CASE NetStart(p)
  BY <1>0, <1>5 DEF NetStart, TypeOK, Comms, Live
<1>6. CASE NetTarget(p)
  BY <1>0, <1>6 DEF NetTarget, TypeOK, Live
<1>7. CASE NetCheck(p)
  BY <1>0, <1>7 DEF NetCheck, TypeOK, Live
<1>8. CASE NetReadData(p)
  <2>1. Head(chan[p]) \in Messages
    BY <1>0, <1>8, ReadPrefix
  <2>2. \A q \in Players : comm'[q].lost_con = comm[q].lost_con
    BY <1>0, <1>8, <2>1, UpdateView DEF NetReadData, TypeOK
  <2> QED BY <1>8, <2>2 DEF NetReadData, Live
<1>9. CASE NetReadNothing(p)
  BY <1>0, <1>9 DEF NetReadNothing, TypeOK, Live
<1>10. CASE NetReadEof(p)
  BY <1>0, <1>10 DEF NetReadEof, Die, TypeOK, Live, LoopPcs, SetupPcs
<1>11. CASE NetReadError(p)
  BY <1>0, <1>11 DEF NetReadError, TypeOK, Comms, Live
<1>12. CASE NetClose(p)
  BY <1>0, <1>12 DEF NetClose, TypeOK, Live
<1> QED
  BY <1>1, <1>2, <1>3, <1>4, <1>5, <1>6, <1>7, <1>8, <1>9, <1>10, <1>11, <1>12
  DEF Net

\* What the play thread writes, and where it goes on.
LEMMA WritesOf ==
  ASSUME TypeInv, NEW p \in Players,
         PlaySkip(p) \/ PlayPut(p) \/ PlayPressRestart(p) \/ PlayPressQuit(p)
  PROVE  /\ playPc[p] \in {"skip", "key"}
         /\ \E m \in Messages, c \in {comm[p], PassTurn(p)},
               pc \in {"conn", "restart", "quit"} :
              c \in Comms /\ pc \in PlayPcs /\ SockWrite(p, m, c, pc)
<1>1. TypeOK /\ Other(p) \in Players
  BY OtherPlayer DEF TypeInv
<1>2. comm[p] \in Comms /\ PassTurn(p) \in Comms
  BY <1>1, FieldTypes DEF TypeOK, PassTurn
<1>3. {"conn", "restart", "quit"} \subseteq PlayPcs
  BY DEF PlayPcs, LoopPcs, SetupPcs
<1>4. CASE PlaySkip(p)
  <2>1. SkipTo(Other(p)) \in Messages
    BY <1>1 DEF SkipTo, Messages
  <2> QED BY <1>2, <1>3, <1>4, <2>1 DEF PlaySkip
<1>5. CASE PlayPut(p)
  <2>1. PICK l \in ValidLocs(p) : SockWrite(p, Move(p, l), PassTurn(p), "conn")
    BY <1>5 DEF PlayPut
  <2>2. Move(p, l) \in Messages
    BY <2>1 DEF Move, Messages, ValidLocs, GetValidLoc
  <2> QED BY <1>2, <1>3, <1>5, <2>1, <2>2 DEF PlayPut, KeyTyped
<1>6. CASE PlayPressRestart(p)
  <2>1. RestartCmd \in Messages
    BY DEF RestartCmd, Messages
  <2> QED BY <1>2, <1>3, <1>6, <2>1 DEF PlayPressRestart, KeyTyped
<1>7. CASE PlayPressQuit(p)
  <2>1. QuitCmd \in Messages
    BY DEF QuitCmd, Messages
  <2> QED BY <1>2, <1>3, <1>7, <2>1 DEF PlayPressQuit, KeyTyped
<1> QED BY <1>4, <1>5, <1>6, <1>7

LEMMA PlayKeepsLive ==
  ASSUME TypeInv, NEW p \in Players, Play(p)
  PROVE  \A q \in Players : Live(q)' => Live(q)
<1> USE DEF NetGoto, PlayGoto
<1>0. TypeOK
  BY DEF TypeInv
<1>1. CASE PlayWait(p)
  BY <1>0, <1>1 DEF PlayWait, TypeOK, Live, SetupPcs
<1>2. CASE PlayRestart(p)
  BY <1>0, <1>2 DEF PlayRestart, TypeOK, Comms, Live, SetupPcs
<1>3. CASE PlayConn(p)
  BY <1>0, <1>3 DEF PlayConn, TypeOK, Live, LoopPcs
<1>4. CASE PlayUpdate(p)
  <2>1. \A q \in Players : comm'[q].lost_con = comm[q].lost_con
    <3>1. \/ comm' = comm
          \/ comm' = [comm EXCEPT ![p] = [comm[p] EXCEPT !.need_update = FALSE, !.player = p]]
      BY <1>4 DEF PlayUpdate
    <3>2. [comm[p] EXCEPT !.need_update = FALSE, !.player = p].lost_con = comm[p].lost_con
      <4>1. comm[p] \in Comms
        BY <1>0 DEF TypeOK
      <4> QED BY <4>1 DEF Comms
    <3>3. /\ comm'[p] \in {comm[p], [comm[p] EXCEPT !.need_update = FALSE, !.player = p]}
          /\ \A q \in Players : q # p => comm'[q] = comm[q]
      BY <1>0, <3>1 DEF TypeOK
    <3> QED BY <3>2, <3>3
  <2> QED BY <1>0, <1>4, <2>1 DEF PlayUpdate, TypeOK, Live, LoopPcs
<1>5. CASE PlayFlags(p)
  BY <1>0, <1>5 DEF PlayFlags, TypeOK, Live, LoopPcs
<1>6. CASE PlayEval(p)
  BY <1>0, <1>6 DEF PlayEval, TypeOK, Live, LoopPcs
<1>7. CASE PlayIdle(p)
  BY <1>0, <1>7 DEF PlayIdle, TypeOK, Live, LoopPcs
<1>8. CASE PlayQuit(p)
  BY <1>0, <1>8 DEF PlayQuit, TypeOK, Comms, Live, LoopPcs, SetupPcs
<1>9. CASE PlaySkip(p) \/ PlayPut(p) \/ PlayPressRestart(p) \/ PlayPressQuit(p)
  <2>1. /\ playPc[p] \in {"skip", "key"}
        /\ \E m \in Messages, c \in {comm[p], PassTurn(p)}, pc \in {"conn", "restart", "quit"} :
             c \in Comms /\ pc \in PlayPcs /\ SockWrite(p, m, c, pc)
    BY <1>9, WritesOf
  <2>2. PICK m \in Messages, c \in {comm[p], PassTurn(p)}, pc \in {"conn", "restart", "quit"} :
          c \in Comms /\ pc \in PlayPcs /\ SockWrite(p, m, c, pc)
    BY <2>1
  <2>3. /\ \A q \in Players : q # p => comm'[q] = comm[q] /\ playPc'[q] = playPc[q]
        /\ comm'[p] \in {c, [c EXCEPT !.lost_con = TRUE]}
    BY <1>0, <2>2, SockWriteType, SockWritePlay
  <2>4. c.lost_con = comm[p].lost_con
    BY <1>0, <2>2 DEF PassTurn, TypeOK, Comms
  <2>5. comm[p].lost_con => comm'[p].lost_con
    BY <2>2, <2>3, <2>4 DEF Comms
  <2>6. playPc[p] \in LoopPcs
    BY <2>1 DEF LoopPcs
  <2> QED BY <2>3, <2>5, <2>6 DEF Live
<1> QED BY <1>1, <1>2, <1>3, <1>4, <1>5, <1>6, <1>7, <1>8, <1>9 DEF Play

LEMMA WiredStep ==
  ASSUME TypeInv, Wired, [Next]_vars
  PROVE  Wired'
<1>0. TypeOK /\ PLAYER1 \in Players /\ PLAYER2 \in Players /\ PLAYER1 # PLAYER2
  BY PlayersAre DEF TypeInv
<1>1. CASE UNCHANGED vars
  BY <1>1 DEF vars, Wired
<1>2. ASSUME NEW p \in Players, Net(p)
      PROVE  Wired'
  <2> USE DEF NetGoto, PlayGoto
  <2>1. CASE p = PLAYER1 /\ NetListen
    BY <1>0, <2>1 DEF NetListen, TypeOK, Wired
  <2>2. CASE p = PLAYER1 /\ NetAccept
    BY <1>0, <2>2 DEF NetAccept, TypeOK, Wired
  <2>3. CASE p = PLAYER2 /\ NetCreateThread
    BY <1>0, <2>3 DEF NetCreateThread, TypeOK, Wired, LoopPcs
  <2>4. CASE p = PLAYER2 /\ NetConnect
    BY <1>0, <2>4 DEF NetConnect, Die, TypeOK, Wired, LoopPcs
  <2>5. CASE NetStart(p)
    BY <1>0, <2>5 DEF NetStart, TypeOK, Comms, Wired
  <2>6. CASE NetTarget(p)
    BY <1>0, <2>6 DEF NetTarget, TypeOK, Wired
  <2>7. CASE NetCheck(p)
    BY <1>0, <2>7 DEF NetCheck, TypeOK, Wired
  <2>8. CASE NetReadData(p)
    <3>1. Head(chan[p]) \in Messages
      BY <1>0, <2>8, ReadPrefix
    <3>2. \A q \in Players : comm'[q].is_start = comm[q].is_start
      BY <1>0, <2>8, <3>1, UpdateView DEF NetReadData, TypeOK
    <3> QED BY <1>0, <2>8, <3>2 DEF NetReadData, TypeOK, Wired
  <2>9. CASE NetReadNothing(p)
    BY <1>0, <2>9 DEF NetReadNothing, TypeOK, Wired
  <2>10. CASE NetReadEof(p)
    BY <1>0, <2>10 DEF NetReadEof, Die, TypeOK, Wired, LoopPcs
  <2>11. CASE NetReadError(p)
    BY <1>0, <2>11 DEF NetReadError, TypeOK, Comms, Wired
  <2>12. CASE NetClose(p)
    BY <1>0, <2>12 DEF NetClose, TypeOK, Wired
  <2> QED
    BY <1>2, <2>1, <2>2, <2>3, <2>4, <2>5, <2>6, <2>7, <2>8, <2>9, <2>10, <2>11, <2>12
    DEF Net
<1>3. ASSUME NEW p \in Players, Play(p)
      PROVE  Wired'
  <2>1. /\ playPc[p] # "none"
        /\ \A q \in Players : q # p => playPc'[q] = playPc[q] /\ comm'[q] = comm[q]
        /\ playPc'[p] \in {"restart"} \cup LoopPcs =>
             comm[p].is_start \/ playPc[p] \in {"restart"} \cup LoopPcs
        /\ comm'[p].is_start = comm[p].is_start
        /\ \A q \in Players : netPc'[q] \in {netPc[q], "sigpipe"}
        /\ targetFD' = targetFD
    <3> USE DEF NetGoto, PlayGoto
    <3>1. CASE PlayWait(p)
      BY <1>0, <3>1 DEF PlayWait, TypeOK
    <3>2. CASE PlayRestart(p)
      BY <1>0, <3>2 DEF PlayRestart, TypeOK, Comms
    <3>3. CASE PlayConn(p)
      BY <1>0, <3>3 DEF PlayConn, TypeOK, LoopPcs
    <3>4. CASE PlayUpdate(p)
      BY <1>0, <3>4 DEF PlayUpdate, TypeOK, Comms, LoopPcs
    <3>5. CASE PlayFlags(p)
      BY <1>0, <3>5 DEF PlayFlags, TypeOK, LoopPcs
    <3>6. CASE PlayEval(p)
      BY <1>0, <3>6 DEF PlayEval, TypeOK, LoopPcs
    <3>7. CASE PlayIdle(p)
      BY <1>0, <3>7 DEF PlayIdle, TypeOK, LoopPcs
    <3>8. CASE PlayQuit(p)
      BY <1>0, <3>8 DEF PlayQuit, TypeOK, Comms, LoopPcs
    <3>9. CASE PlaySkip(p) \/ PlayPut(p) \/ PlayPressRestart(p) \/ PlayPressQuit(p)
      <4>1. /\ playPc[p] \in {"skip", "key"}
            /\ \E m \in Messages, c \in {comm[p], PassTurn(p)},
                  pc \in {"conn", "restart", "quit"} :
                 c \in Comms /\ pc \in PlayPcs /\ SockWrite(p, m, c, pc)
        BY <3>9, WritesOf
      <4>2. PICK m \in Messages, c \in {comm[p], PassTurn(p)},
                 pc \in {"conn", "restart", "quit"} :
              c \in Comms /\ pc \in PlayPcs /\ SockWrite(p, m, c, pc)
        BY <4>1
      <4>3. /\ \A q \in Players : q # p => comm'[q] = comm[q] /\ playPc'[q] = playPc[q]
            /\ comm'[p] \in {c, [c EXCEPT !.lost_con = TRUE]}
            /\ \A q \in Players : netPc'[q] \in {netPc[q], "sigpipe"}
        BY <1>0, <4>2, SockWriteType, SockWritePlay
      <4>4. c.is_start = comm[p].is_start
        BY <1>0, <4>2 DEF PassTurn, TypeOK, Comms
      <4>5. comm'[p].is_start = comm[p].is_start
        BY <4>2, <4>3, <4>4 DEF Comms
      <4>6. playPc[p] \in LoopPcs /\ playPc[p] # "none"
        BY <4>1 DEF LoopPcs
      <4>7. targetFD' = targetFD
        BY <3>9 DEF PlaySkip, PlayPut, PlayPressRestart, PlayPressQuit
      <4> QED BY <4>3, <4>5, <4>6, <4>7
    <3> QED BY <1>3, <3>1, <3>2, <3>3, <3>4, <3>5, <3>6, <3>7, <3>8, <3>9 DEF Play
  <2> QED BY <1>0, <2>1 DEF Wired
<1> QED BY <1>1, <1>2, <1>3 DEF Next

-----------------------------------------------------------------------------
(* The phases, step by step.                                                *)

\* Steps that send nothing, take nothing off and hand nothing over.
LEMMA PhaseFrame ==
  ASSUME InPhase, UNCHANGED chan,
         targetFD'[PLAYER1] = "stdin" => targetFD[PLAYER1] = "stdin",
         \A q \in Players :
           /\ comm'[q].player = comm[q].player /\ comm'[q].pos = comm[q].pos
           /\ comm'[q].need_update = comm[q].need_update
           /\ comm'[q].need_restart = comm[q].need_restart
           /\ comm'[q].need_quit = comm[q].need_quit
           /\ View(q)' = View(q)
           /\ (playPc'[q] \in LoopPcs) = (playPc[q] \in LoopPcs)
           /\ playPc[q] \in SetupPcs => playPc'[q] \in SetupPcs
           /\ playPc[q] = "restart" => playPc'[q] = "restart"
           /\ SkipsRightly(q)'
  PROVE  InPhase'
<1>0. /\ PLAYER1 \in Players /\ PLAYER2 \in Players
      /\ Other(PLAYER1) = PLAYER2 /\ Other(PLAYER2) = PLAYER1
      /\ \A q \in Players : q = PLAYER1 \/ q = PLAYER2
  BY PlayersAre
<1>1. \A q \in Players : /\ Calm(q)' = Calm(q) /\ Waits(q)' = Waits(q)
                         /\ HasTurn(q)' = HasTurn(q)
                         /\ View(Other(q))' = View(Other(q))
  BY <1>0 DEF Calm, Waits, HasTurn
<1>2. Owns(PLAYER1) => Owns(PLAYER1)'
  BY <1>0, <1>1 DEF Owns
<1>3. ServersTurn => ServersTurn'
  BY <1>0, <1>1, <1>2 DEF ServersTurn
<1>4. ClientsTurn => ClientsTurn'
  BY <1>0, <1>1 DEF ClientsTurn
<1>5. Restarting => Restarting'
  BY <1>0, <1>1 DEF Restarting
<1>6. ASSUME NEW p \in Players, TurnGoesTo(p)
      PROVE  TurnGoesTo(p)'
  <2>1. MoveRead(p) => MoveRead(p)'
    BY <1>1 DEF MoveRead
  <2>2. MoveSent(p) => MoveSent(p)'
    BY <1>1 DEF MoveSent
  <2>3. SkipSent(p) => SkipSent(p)'
    BY <1>1 DEF SkipSent
  <2>4. Other(p) \in Players
    BY OtherPlayer
  <2> QED BY <1>0, <1>1, <1>6, <2>1, <2>2, <2>3, <2>4 DEF TurnGoesTo
<1>7. Phases'
  BY <1>0, <1>3, <1>4, <1>5, <1>6 DEF InPhase, Phases
<1> QED BY <1>0, <1>3, <1>7 DEF InPhase

\* Who has the turn is the server or the client, and nothing is under way.
LEMMA MoverIsCalm ==
  ASSUME InPhase, NEW p \in Players, HasTurn(p), Live(Other(p))
  PROVE  /\ Calm(p) /\ Calm(Other(p)) /\ Waits(Other(p))
         /\ View(p) = board[p] /\ View(Other(p)) = board[p]
         /\ p = PLAYER1 => ServersTurn
         /\ p = PLAYER2 => ClientsTurn /\ playPc[PLAYER1] \in LoopPcs
         /\ board[p] # InitBoard => playPc[Other(p)] \in LoopPcs
<1>0. /\ PLAYER1 \in Players /\ PLAYER2 \in Players /\ PLAYER1 # PLAYER2
      /\ Other(PLAYER1) = PLAYER2 /\ Other(PLAYER2) = PLAYER1
      /\ p = PLAYER1 \/ p = PLAYER2
  BY PlayersAre
<1>1. playPc[p] \in LoopPcs /\ comm[p].player = p /\ ~Waits(p)
  BY OtherPlayer DEF HasTurn, Waits
<1>2. \A q \in Players : ~TurnGoesTo(q)
  BY <1>0, <1>1, PlayersAre DEF TurnGoesTo
<1>3. ~Restarting
  BY <1>0, <1>1 DEF Restarting
<1>4. (p = PLAYER1 => ServersTurn) /\ (p = PLAYER2 => ClientsTurn)
  BY <1>0, <1>1, <1>2, <1>3 DEF InPhase, Phases, ServersTurn, ClientsTurn
<1>5. View(p) = board[p]
  BY <1>1 DEF View, SetupPcs, LoopPcs
<1>6. /\ Calm(p) /\ Calm(Other(p)) /\ Waits(Other(p)) /\ View(Other(p)) = board[p]
      /\ p = PLAYER2 => playPc[PLAYER1] \in LoopPcs
  BY <1>0, <1>4, <1>5 DEF ServersTurn, ClientsTurn
<1>7. board[p] # InitBoard => playPc[Other(p)] \in LoopPcs
  BY <1>6 DEF View, Live
<1> QED BY <1>4, <1>5, <1>6, <1>7

\* What is read is all that is there.
LEMMA ReadsOne ==
  ASSUME TypeInv, NEW p \in Players, NEW m, chan[p] = <<m>>, NetReadData(p)
  PROVE  /\ chan' = [chan EXCEPT ![p] = <<>>]
         /\ comm' = [comm EXCEPT ![p] = Update(comm[p], m)]
         /\ UNCHANGED <<board, targetFD, playPc>>
<1>1. PICK n \in 1 .. (IF Coalesce THEN Len(chan[p]) ELSE 1) :
        chan' = [chan EXCEPT ![p] = SubSeq(chan[p], n + 1, Len(chan[p]))]
  BY DEF NetReadData
<1>2. Len(chan[p]) = 1 /\ n = 1
  BY <1>1, CoalesceAssumption
<1>3. SubSeq(<<m>>, 2, 1) = <<>>
  OBVIOUS
<1>4. Head(chan[p]) = m
  OBVIOUS
<1>5. SubSeq(chan[p], n + 1, Len(chan[p])) = <<>>
  BY <1>2, <1>3
<1>6. chan' = [chan EXCEPT ![p] = <<>>]
  BY <1>1, <1>5
<1>7. comm' = [comm EXCEPT ![p] = Update(comm[p], Head(chan[p]))]
  BY DEF NetReadData
<1>8. UNCHANGED <<board, targetFD, playPc>>
  BY DEF NetReadData
<1> QED BY <1>4, <1>6, <1>7, <1>8

LEMMA ReadPhase ==
  ASSUME TypeInv, InPhase, NEW p \in Players, NetReadData(p)
  PROVE  InPhase'
<1> DEFINE o == Other(p)
<1>0. /\ PLAYER1 \in Players /\ PLAYER2 \in Players /\ PLAYER1 # PLAYER2
      /\ Other(PLAYER1) = PLAYER2 /\ Other(PLAYER2) = PLAYER1
      /\ p = PLAYER1 \/ p = PLAYER2
      /\ TypeOK /\ o \in Players /\ o # p /\ Other(o) = p
      /\ \A q \in Players : q = p \/ q = o
  BY PlayersAre, OtherPlayer DEF TypeInv
<1>1. chan[p] # <<>>
  BY DEF NetReadData
<1>2. TurnGoesTo(p) \/ (p = PLAYER1 /\ Restarting)
  BY <1>0, <1>1
     DEF InPhase, Phases, ServersTurn, ClientsTurn, TurnGoesTo, Restarting, Calm
<1>3. targetFD[PLAYER1] # "stdin"
  BY <1>0, <1>1 DEF InPhase, ServersTurn, Calm
<1>4. comm[p] \in Comms /\ ~comm[p].need_quit
  BY <1>0 DEF TypeOK, InPhase
<1> HIDE DEF o
<1>5. CASE TurnGoesTo(p)
  <2>1. playPc[p] # "skip"
    BY <1>0, <1>5 DEF TurnGoesTo, Waits, InPhase, SkipsRightly, LoopPcs, o
  <2>2. /\ playPc[o] \in LoopPcs /\ comm[o].player = p /\ Calm(o) /\ Waits(p)
        /\ ~comm[p].need_restart /\ (p = PLAYER1 => playPc[p] \in LoopPcs)
    BY <1>0, <1>5 DEF TurnGoesTo, Waits, o
  <2>3. ~comm[p].need_update
    BY <1>1, <1>5 DEF TurnGoesTo, MoveRead, MoveSent, SkipSent
  <2>4. CASE MoveSent(p)
    <3>1. PICK l \in Locs : chan[p] = <<Move(o, l)>> /\ After(View(p), o, l, View(o))
      BY <2>4 DEF MoveSent, o
    <3>2. /\ chan' = [chan EXCEPT ![p] = <<>>]
          /\ comm' = [comm EXCEPT ![p] = Update(comm[p], Move(o, l))]
          /\ UNCHANGED <<board, targetFD, playPc>>
      BY <3>1, ReadsOne
    <3>3. /\ Update(comm[p], Move(o, l)).player = o
          /\ Update(comm[p], Move(o, l)).pos = l
          /\ Update(comm[p], Move(o, l)).need_update
          /\ Update(comm[p], Move(o, l)).need_restart = comm[p].need_restart
          /\ ~Update(comm[p], Move(o, l)).need_quit
      BY <1>4 DEF Update, Move, Comms
    <3>4. /\ comm'[p].player = o /\ comm'[p].pos = l /\ comm'[p].need_update
          /\ ~comm'[p].need_restart /\ ~comm'[p].need_quit
          /\ comm'[o] = comm[o] /\ chan'[p] = <<>> /\ chan'[o] = chan[o]
      BY <1>0, <2>2, <3>2, <3>3 DEF TypeOK
    <3>5. View(p)' = View(p) /\ View(o)' = View(o)
      BY <3>2 DEF View
    <3>6. MoveRead(p)'
      BY <3>1, <3>4, <3>5 DEF MoveRead, o
    <3>7. Calm(o)' /\ Waits(o)' /\ Waits(p)' /\ playPc'[o] \in LoopPcs
      BY <1>0, <2>2, <3>2, <3>4 DEF Calm, Waits, o
    <3>8. TurnGoesTo(p)'
      BY <1>0, <2>2, <3>2, <3>4, <3>6, <3>7 DEF TurnGoesTo, o
    <3>9. \A q \in Players : SkipsRightly(q)' /\ ~comm'[q].need_quit
      BY <1>0, <2>1, <3>2, <3>4 DEF InPhase, SkipsRightly
    <3> QED BY <1>0, <1>3, <3>2, <3>8, <3>9 DEF InPhase, Phases
  <2>5. CASE SkipSent(p)
    <3>1. chan[p] = <<SkipTo(p)>> /\ View(p) = View(o) /\ playPc[p] \in LoopPcs
      BY <2>5 DEF SkipSent, o
    <3>2. /\ chan' = [chan EXCEPT ![p] = <<>>]
          /\ comm' = [comm EXCEPT ![p] = Update(comm[p], SkipTo(p))]
          /\ UNCHANGED <<board, targetFD, playPc>>
      BY <3>1, ReadsOne
    <3>3. /\ Update(comm[p], SkipTo(p)).player = p
          /\ Update(comm[p], SkipTo(p)).need_update = comm[p].need_update
          /\ Update(comm[p], SkipTo(p)).need_restart = comm[p].need_restart
          /\ ~Update(comm[p], SkipTo(p)).need_quit
      BY <1>4 DEF Update, SkipTo, Comms
    <3>4. /\ comm'[p].player = p /\ ~comm'[p].need_update
          /\ ~comm'[p].need_restart /\ ~comm'[p].need_quit
          /\ comm'[o] = comm[o] /\ chan'[p] = <<>> /\ chan'[o] = chan[o]
      BY <1>0, <2>2, <2>3, <3>2, <3>3 DEF TypeOK
    <3>5. View(p)' = View(o)'
      BY <3>1, <3>2 DEF View
    <3>6. Calm(p)' /\ Calm(o)' /\ Waits(o)' /\ HasTurn(p)' /\ playPc'[o] \in LoopPcs
      BY <1>0, <2>2, <3>1, <3>2, <3>4 DEF Calm, Waits, HasTurn, o
    <3>7. ServersTurn' \/ ClientsTurn'
      BY <1>0, <3>5, <3>6 DEF ServersTurn, ClientsTurn, Owns, o
    <3>8. \A q \in Players : SkipsRightly(q)' /\ ~comm'[q].need_quit
      BY <1>0, <2>1, <3>2, <3>4 DEF InPhase, SkipsRightly
    <3> QED BY <1>3, <3>2, <3>7, <3>8 DEF InPhase, Phases
  <2> QED BY <1>1, <1>5, <2>4, <2>5 DEF TurnGoesTo, MoveRead
<1>6. CASE p = PLAYER1 /\ Restarting
  <2>1. /\ chan[p] = <<RestartCmd>> /\ ~comm[p].need_restart /\ ~comm[p].need_update
        /\ playPc[p] \in LoopPcs /\ Waits(p)
        /\ playPc[o] \in {"restart"} \cup LoopPcs /\ Waits(o)
        /\ View(o) = InitBoard /\ Calm(o) /\ o = PLAYER2
    BY <1>0, <1>1, <1>6 DEF Restarting
  <2>2. /\ chan' = [chan EXCEPT ![p] = <<>>]
        /\ comm' = [comm EXCEPT ![p] = Update(comm[p], RestartCmd)]
        /\ UNCHANGED <<board, targetFD, playPc>>
    BY <2>1, ReadsOne
  <2>3. /\ Update(comm[p], RestartCmd).player = comm[p].player
        /\ Update(comm[p], RestartCmd).need_update = comm[p].need_update
        /\ Update(comm[p], RestartCmd).need_restart
        /\ ~Update(comm[p], RestartCmd).need_quit
    BY <1>4 DEF Update, RestartCmd, Comms
  <2>4. /\ comm'[p].player = comm[p].player /\ ~comm'[p].need_update
        /\ comm'[p].need_restart /\ ~comm'[p].need_quit
        /\ comm'[o] = comm[o] /\ chan'[p] = <<>> /\ chan'[o] = chan[o]
    BY <1>0, <2>1, <2>2, <2>3 DEF TypeOK
  <2>5. Waits(p)' /\ Waits(o)' /\ Calm(o)' /\ View(o)' = View(o)
    BY <2>1, <2>2, <2>4 DEF Waits, Calm, View
  <2>6. Restarting'
    BY <1>6, <2>1, <2>2, <2>4, <2>5 DEF Restarting
  <2>7. \A q \in Players : SkipsRightly(q)' /\ ~comm'[q].need_quit
    BY <1>0, <2>2, <2>4 DEF InPhase, SkipsRightly
  <2> QED BY <1>3, <2>2, <2>6, <2>7 DEF InPhase, Phases
<1> QED BY <1>2, <1>5, <1>6

LEMMA AcceptPhase ==
  ASSUME TypeInv, Wired, InPhase, NetAccept
  PROVE  InPhase'
<1>0. /\ PLAYER1 \in Players /\ PLAYER2 \in Players /\ PLAYER1 # PLAYER2
      /\ Other(PLAYER1) = PLAYER2 /\ Other(PLAYER2) = PLAYER1
      /\ TypeOK /\ \A q \in Players : q = PLAYER1 \/ q = PLAYER2
  BY PlayersAre DEF TypeInv
<1>1. playPc[PLAYER1] = "none"
  BY DEF NetAccept, Wired
<1>2. ServersTurn
  BY <1>0, <1>1 DEF InPhase, Phases, ClientsTurn, Restarting, TurnGoesTo, LoopPcs
<1>3. /\ comm'[PLAYER1].need_update = comm[PLAYER1].need_update
      /\ comm'[PLAYER1].need_restart = comm[PLAYER1].need_restart
      /\ comm'[PLAYER1].need_quit = comm[PLAYER1].need_quit
      /\ comm'[PLAYER2] = comm[PLAYER2]
  BY <1>0 DEF NetAccept, TypeOK, Comms
<1>4. /\ playPc'[PLAYER1] = "wait" /\ playPc'[PLAYER2] = playPc[PLAYER2]
      /\ UNCHANGED <<board, chan, targetFD>>
  BY <1>0 DEF NetAccept, PlayGoto, TypeOK
<1>5. \A q \in Players : Calm(q)' = Calm(q) /\ View(q)' = View(q)
  BY <1>0, <1>1, <1>3, <1>4 DEF Calm, View, SetupPcs
<1>6. Waits(PLAYER2)' = Waits(PLAYER2) /\ Owns(PLAYER1)'
  BY <1>3, <1>4 DEF Waits, Owns, SetupPcs
<1>7. ServersTurn'
  BY <1>0, <1>2, <1>5, <1>6 DEF ServersTurn
<1>8. \A q \in Players : SkipsRightly(q)' /\ ~comm'[q].need_quit
  BY <1>0, <1>3, <1>4 DEF InPhase, SkipsRightly
<1> QED BY <1>0, <1>4, <1>5, <1>7, <1>8 DEF InPhase, Phases

\* Back to the opening: the server with its turn, the client without.
LEMMA RestartPhase ==
  ASSUME TypeInv, InPhase, NEW p \in Players, PlayRestart(p)
  PROVE  InPhase'
<1> DEFINE o == Other(p)
<1>0. /\ PLAYER1 \in Players /\ PLAYER2 \in Players /\ PLAYER1 # PLAYER2
      /\ Other(PLAYER1) = PLAYER2 /\ Other(PLAYER2) = PLAYER1
      /\ p = PLAYER1 \/ p = PLAYER2
      /\ TypeOK /\ o \in Players /\ o # p
      /\ \A q \in Players : q = p \/ q = o
  BY PlayersAre, OtherPlayer DEF TypeInv
<1>1. playPc[p] = "restart" /\ playPc[p] \notin LoopPcs /\ View(p) = InitBoard
  BY DEF PlayRestart, LoopPcs, View, SetupPcs
<1>2. /\ comm'[p].player = PLAYER1 /\ comm'[p].pos = comm[p].pos
      /\ comm'[p].need_update = comm[p].need_update
      /\ ~comm'[p].need_restart
      /\ comm'[p].need_quit = comm[p].need_quit
      /\ comm'[o] = comm[o]
  BY <1>0 DEF PlayRestart, TypeOK, Comms
<1>3. /\ playPc'[p] = "conn" /\ playPc'[o] = playPc[o]
      /\ board'[p] = InitBoard /\ board'[o] = board[o]
      /\ UNCHANGED <<chan, targetFD>>
  BY <1>0 DEF PlayRestart, PlayGoto, TypeOK
<1>4. playPc'[p] \in LoopPcs /\ View(p)' = InitBoard /\ View(o)' = View(o)
  BY <1>3 DEF View, LoopPcs, SetupPcs
<1>5. Calm(o)' = Calm(o) /\ Waits(o)' = Waits(o)
  BY <1>2, <1>3 DEF Calm, Waits
<1>6. \A q \in Players : SkipsRightly(q)' /\ ~comm'[q].need_quit
  BY <1>0, <1>2, <1>3 DEF InPhase, SkipsRightly
<1> HIDE DEF o
<1>7. CASE p = PLAYER1
  <2>1. o = PLAYER2
    BY <1>0, <1>7 DEF o
  <2>2. ServersTurn \/ Restarting
    BY <1>0, <1>1, <1>7 DEF InPhase, Phases, ClientsTurn, TurnGoesTo
  <2>3. /\ Waits(o) /\ Calm(o) /\ View(o) = InitBoard
        /\ chan[p] = <<>> /\ ~comm[p].need_update
    BY <1>1, <1>7, <2>1, <2>2 DEF ServersTurn, Restarting, Calm
  <2>4. Calm(p)' /\ HasTurn(p)'
    BY <1>2, <1>3, <1>4, <1>7, <2>3 DEF Calm, HasTurn
  <2>5. ServersTurn'
    BY <1>4, <1>5, <1>7, <2>1, <2>3, <2>4 DEF ServersTurn, Owns
  <2> QED BY <1>4, <1>6, <1>7, <2>5 DEF InPhase, Phases
<1>8. CASE p = PLAYER2
  <2>1. o = PLAYER1 /\ o # p
    BY <1>0, <1>8 DEF o
  <2>2. Waits(p)'
    BY <1>0, <1>2, <1>8 DEF Waits
  <2>3. ~comm[p].need_restart => Calm(p)' = Calm(p)
    BY <1>2, <1>3 DEF Calm
  <2>4. View(p)' = View(p)
    BY <1>1, <1>4
  <2>5. ServersTurn => ServersTurn'
    <3>1. Owns(o)' = Owns(o)
      BY <1>2, <1>3 DEF Owns, HasTurn
    <3> QED BY <1>4, <1>5, <1>8, <2>1, <2>2, <2>3, <2>4, <3>1 DEF ServersTurn, Calm
  <2>6. Restarting => Restarting'
    BY <1>2, <1>3, <1>4, <1>5, <1>8, <2>1, <2>2, <2>3, <2>4 DEF Restarting, Calm
  <2>7. ~ClientsTurn /\ ~TurnGoesTo(PLAYER1)
    BY <1>0, <1>1, <1>8 DEF ClientsTurn, TurnGoesTo, HasTurn
  <2>8. TurnGoesTo(PLAYER2) => TurnGoesTo(PLAYER2)'
    <3>1. SUFFICES ASSUME TurnGoesTo(p)
                   PROVE  TurnGoesTo(p)'
      BY <1>8
    <3>2. playPc[o] \in LoopPcs /\ Waits(o) /\ Calm(o)
      BY <3>1 DEF TurnGoesTo, o
    <3>3. MoveRead(p) => MoveRead(p)'
      BY <1>2, <1>3, <1>4, <1>8, <2>1, <2>4 DEF MoveRead, o
    <3>4. MoveSent(p) => MoveSent(p)'
      BY <1>2, <1>3, <1>4, <2>4 DEF MoveSent, o
    <3>5. MoveRead(p) \/ MoveSent(p)
      BY <1>1, <3>1 DEF TurnGoesTo, SkipSent
    <3> QED BY <1>2, <1>3, <1>4, <1>5, <2>2, <3>2, <3>3, <3>4, <3>5 DEF TurnGoesTo, o
  <2> QED BY <1>3, <1>4, <1>6, <1>8, <2>1, <2>5, <2>6, <2>7, <2>8 DEF InPhase, Phases
<1> QED BY <1>0, <1>7, <1>8

\* The move that was sent is put on the board.
LEMMA UpdatePhase ==
  ASSUME TypeInv, InPhase, NEW p \in Players, PlayUpdate(p), comm[p].need_update
  PROVE  InPhase'
<1> DEFINE o == Other(p)
<1>0. /\ PLAYER1 \in Players /\ PLAYER2 \in Players /\ PLAYER1 # PLAYER2
      /\ Other(PLAYER1) = PLAYER2 /\ Other(PLAYER2) = PLAYER1
      /\ p = PLAYER1 \/ p = PLAYER2
      /\ TypeOK /\ o \in Players /\ o # p
      /\ \A q \in Players : q = p \/ q = o
  BY PlayersAre, OtherPlayer DEF TypeInv
<1>1. playPc[p] = "update" /\ View(p) = board[p]
  BY DEF PlayUpdate, View, SetupPcs
<1>2. TurnGoesTo(p) /\ MoveRead(p)
  <2>1. TurnGoesTo(p)
    BY <1>0 DEF InPhase, Phases, ServersTurn, ClientsTurn, Restarting, TurnGoesTo, Calm
  <2> QED BY <2>1 DEF TurnGoesTo, MoveSent, SkipSent
<1>3. /\ comm[p].player = o /\ After(board[p], o, comm[p].pos, View(o)) /\ chan[p] = <<>>
      /\ playPc[o] \in LoopPcs /\ Waits(o) /\ Calm(o) /\ ~comm[p].need_restart
  BY <1>1, <1>2 DEF TurnGoesTo, MoveRead
<1>4. board' = [board EXCEPT ![p] = View(o)]
  BY <1>3 DEF PlayUpdate, Received, After
<1>5. /\ comm'[p].player = p /\ ~comm'[p].need_update
      /\ comm'[p].need_restart = comm[p].need_restart
      /\ comm'[p].need_quit = comm[p].need_quit
      /\ comm'[o] = comm[o]
  <2>1. comm' = [comm EXCEPT ![p] = [comm[p] EXCEPT !.need_update = FALSE, !.player = p]]
    BY DEF PlayUpdate
  <2> QED BY <1>0, <2>1 DEF TypeOK, Comms
<1>6. /\ playPc'[p] = "flags" /\ playPc'[o] = playPc[o]
      /\ board'[p] = View(o) /\ board'[o] = board[o]
      /\ UNCHANGED <<chan, targetFD>>
  BY <1>0, <1>4 DEF PlayUpdate, PlayGoto, TypeOK
<1> HIDE DEF o
<1>7. View(p)' = View(o) /\ View(o)' = View(o)
  BY <1>6 DEF View, SetupPcs
<1>8. Calm(p)' /\ Calm(o)' /\ Waits(o)' /\ HasTurn(p)' /\ playPc'[o] \in LoopPcs
  BY <1>3, <1>5, <1>6 DEF Calm, Waits, HasTurn, LoopPcs
<1>9. ServersTurn' \/ ClientsTurn'
  BY <1>0, <1>7, <1>8 DEF ServersTurn, ClientsTurn, Owns, o
<1>10. \A q \in Players : SkipsRightly(q)' /\ ~comm'[q].need_quit
  BY <1>0, <1>5, <1>6 DEF InPhase, SkipsRightly
<1>11. targetFD[PLAYER1] # "stdin"
  BY <1>0 DEF InPhase, ServersTurn, Calm
<1> QED BY <1>6, <1>9, <1>10, <1>11 DEF InPhase, Phases

\* The server goes back to the restart label.
LEMMA FlagPhase ==
  ASSUME TypeInv, InPhase, NEW p \in Players, PlayFlags(p), comm[p].need_restart
  PROVE  InPhase'
<1>0. /\ PLAYER1 \in Players /\ PLAYER2 \in Players /\ PLAYER1 # PLAYER2
      /\ Other(PLAYER1) = PLAYER2 /\ Other(PLAYER2) = PLAYER1
      /\ \A q \in Players : q = PLAYER1 \/ q = PLAYER2
      /\ TypeOK
  BY PlayersAre DEF TypeInv
<1>1. Restarting /\ p = PLAYER1
  BY <1>0 DEF InPhase, Phases, ServersTurn, ClientsTurn, Restarting, TurnGoesTo, Calm
<1>2. /\ playPc'[PLAYER1] = "restart" /\ playPc'[PLAYER2] = playPc[PLAYER2]
      /\ UNCHANGED <<board, comm, chan, targetFD>>
  BY <1>0, <1>1 DEF PlayFlags, PlayGoto, TypeOK
<1>3. /\ Waits(PLAYER1)' /\ Waits(PLAYER2)' = Waits(PLAYER2)
      /\ Calm(PLAYER2)' = Calm(PLAYER2) /\ View(PLAYER2)' = View(PLAYER2)
  BY <1>2 DEF Waits, Calm, View, LoopPcs
<1>4. Restarting'
  BY <1>1, <1>2, <1>3 DEF Restarting
<1>5. \A q \in Players : SkipsRightly(q)' /\ ~comm'[q].need_quit
  BY <1>0, <1>2 DEF InPhase, SkipsRightly
<1>6. targetFD[PLAYER1] # "stdin"
  BY <1>0, <1>1 DEF InPhase, ServersTurn, Calm
<1> QED BY <1>2, <1>4, <1>5, <1>6 DEF InPhase, Phases

\* What hands the turn over leaves, but for the boards.
LEMMA HandedOn ==
  ASSUME TypeInv, InPhase, NEW p \in Players, NEW m, HasTurn(p), Live(Other(p)),
         chan' = [chan EXCEPT ![Other(p)] = <<m>>],
         comm' = [comm EXCEPT ![p] = PassTurn(p)],
         playPc' = [playPc EXCEPT ![p] = "conn"],
         board'[Other(p)] = board[Other(p)]
  PROVE  /\ chan'[Other(p)] = <<m>> /\ ~comm'[Other(p)].need_update
         /\ playPc'[Other(p)] = playPc[Other(p)]
         /\ View(Other(p)) = board[p] /\ View(Other(p))' = board[p]
         /\ View(p)' = board'[p]
         /\ MoveSent(Other(p))' \/ SkipSent(Other(p))' => TurnGoesTo(Other(p))'
         /\ \A q \in Players : SkipsRightly(q)' /\ ~comm'[q].need_quit
<1> DEFINE o == Other(p)
<1>0. /\ PLAYER1 \in Players /\ PLAYER2 \in Players /\ PLAYER1 # PLAYER2
      /\ Other(PLAYER1) = PLAYER2 /\ Other(PLAYER2) = PLAYER1
      /\ p = PLAYER1 \/ p = PLAYER2
      /\ TypeOK /\ o \in Players /\ o # p /\ Other(o) = p
      /\ \A q \in Players : q = p \/ q = o
  BY PlayersAre, OtherPlayer DEF TypeInv
<1>1. /\ Calm(p) /\ Calm(o) /\ Waits(o) /\ View(o) = board[p]
      /\ p = PLAYER2 => playPc[PLAYER1] \in LoopPcs
  BY <1>0, MoverIsCalm
<1>2. /\ comm'[p].player = o
      /\ comm'[p].need_update = comm[p].need_update
      /\ comm'[p].need_restart = comm[p].need_restart
      /\ comm'[p].need_quit = comm[p].need_quit
      /\ comm'[o] = comm[o]
  <2>1. comm[p] \in Comms
    BY <1>0 DEF TypeOK
  <2>2. comm'[p] = PassTurn(p) /\ comm'[o] = comm[o]
    BY <1>0 DEF TypeOK
  <2> QED BY <2>1, <2>2 DEF PassTurn, Comms
<1>3. /\ playPc'[p] = "conn" /\ playPc'[o] = playPc[o]
      /\ chan'[o] = <<m>> /\ chan'[p] = chan[p]
  BY <1>0 DEF TypeOK
<1> HIDE DEF o
<1>4. /\ Calm(p)' /\ Waits(p)' /\ Waits(o)' /\ playPc'[p] \in LoopPcs
      /\ ~comm'[o].need_update /\ ~comm'[o].need_restart
  BY <1>1, <1>2, <1>3 DEF Calm, Waits, LoopPcs, o
<1>5. View(o)' = View(o) /\ View(p)' = board'[p]
  BY <1>3 DEF View, SetupPcs, o
<1>6. MoveSent(o)' \/ SkipSent(o)' => TurnGoesTo(o)'
  BY <1>0, <1>1, <1>3, <1>4 DEF TurnGoesTo
<1>7. \A q \in Players : SkipsRightly(q)' /\ ~comm'[q].need_quit
  <2>1. playPc[o] # "skip"
    BY <1>0, <1>1 DEF Waits, InPhase, SkipsRightly, LoopPcs
  <2> QED BY <1>0, <1>2, <1>3, <2>1 DEF InPhase, SkipsRightly
<1> QED BY <1>1, <1>3, <1>4, <1>5, <1>6, <1>7 DEF o

LEMMA SkipPhase ==
  ASSUME TypeInv, Wired, InPhase, NEW p \in Players, PlaySkip(p),
         \A q \in Players : Live(q), Live(p)'
  PROVE  InPhase'
<1> DEFINE o == Other(p)
<1>0. /\ PLAYER1 \in Players /\ PLAYER2 \in Players /\ PLAYER1 # PLAYER2
      /\ p = PLAYER1 \/ p = PLAYER2
      /\ o = PLAYER1 \/ o = PLAYER2
      /\ TypeOK /\ o \in Players /\ Other(o) = p /\ o # p
  BY PlayersAre, OtherPlayer DEF TypeInv
<1>1. playPc[p] = "skip" /\ UNCHANGED <<board, targetFD>>
      /\ SockWrite(p, SkipTo(o), PassTurn(p), "conn")
  BY DEF PlaySkip
<1>2. HasTurn(p) /\ ~IsMyTurnValid(board[p], p) /\ ~IsTimeToEnd(board[p])
  BY <1>1 DEF InPhase, SkipsRightly, HasTurn, LoopPcs
<1>3. /\ Calm(o) /\ View(p) = board[p]
      /\ p = PLAYER1 => ServersTurn
      /\ p = PLAYER2 => ClientsTurn /\ playPc[PLAYER1] \in LoopPcs
      /\ board[p] # InitBoard => playPc[o] \in LoopPcs
  BY <1>0, <1>2, MoverIsCalm
<1>4. p = PLAYER1 => board[p] # InitBoard
  BY <1>2, FirstMove
<1>5. playPc[o] \in LoopPcs
  BY <1>0, <1>3, <1>4, PlayersAre
<1>6. targetFD[p] = "sock"
  <2>1. p = PLAYER1 => targetFD[p] # "stdin"
    BY <1>3, <1>4 DEF InPhase
  <2>2. p = PLAYER2 => targetFD[p] = "sock"
    BY <1>1 DEF Wired, LoopPcs
  <2> QED BY <1>0, <2>1, <2>2, PlayersAre DEF TypeOK
<1>7. SkipTo(o) \in Messages /\ PassTurn(p) \in Comms
  <2>1. comm[p] \in Comms
    BY DEF TypeInv, TypeOK
  <2> QED BY <1>0, <2>1, FieldTypes DEF SkipTo, Messages, PassTurn
<1> HIDE DEF o
<1>8. /\ chan' = [chan EXCEPT ![o] = <<SkipTo(o)>>]
      /\ comm' = [comm EXCEPT ![p] = PassTurn(p)]
      /\ playPc' = [playPc EXCEPT ![p] = "conn"]
  BY <1>1, <1>3, <1>6, <1>7, LiveWrite DEF Calm, o
<1>9. /\ chan'[o] = <<SkipTo(o)>> /\ ~comm'[o].need_update /\ playPc'[o] = playPc[o]
      /\ View(o)' = board[p] /\ View(p)' = board'[p]
      /\ SkipSent(o)' => TurnGoesTo(o)'
      /\ \A q \in Players : SkipsRightly(q)' /\ ~comm'[q].need_quit
  BY <1>0, <1>1, <1>2, <1>8, HandedOn DEF o
<1>10. SkipSent(o)'
  BY <1>0, <1>1, <1>5, <1>9 DEF SkipSent
<1>11. targetFD'[PLAYER1] # "stdin"
  <2>1. p = PLAYER2 => ~ServersTurn
    BY <1>0, <1>3, PlayersAre DEF ServersTurn, ClientsTurn, HasTurn, Waits
  <2> QED BY <1>0, <1>1, <1>6, <2>1, PlayersAre DEF InPhase
<1> QED BY <1>0, <1>9, <1>10, <1>11, PlayersAre DEF InPhase, Phases

LEMMA PutPhase ==
  ASSUME EarlyKeys = FALSE, TypeInv, InPhase, NEW p \in Players, PlayPut(p),
         \A q \in Players : Live(q), Live(p)'
  PROVE  InPhase'
<1> DEFINE o == Other(p)
<1>0. /\ PLAYER1 \in Players /\ PLAYER2 \in Players /\ PLAYER1 # PLAYER2
      /\ p = PLAYER1 \/ p = PLAYER2
      /\ o = PLAYER1 \/ o = PLAYER2
      /\ TypeOK /\ o \in Players /\ Other(o) = p /\ o # p
  BY PlayersAre, OtherPlayer DEF TypeInv
<1>1. HasTurn(p) /\ targetFD[p] = "sock" /\ UNCHANGED targetFD
  BY DEF PlayPut, KeyTyped, HasTurn, LoopPcs
<1>2. PICK l \in ValidLocs(p) :
        /\ board' = [board EXCEPT ![p] = Place(board[p], p, l)]
        /\ SockWrite(p, Move(p, l), PassTurn(p), "conn")
  BY DEF PlayPut
<1>3. /\ Calm(o) /\ View(p) = board[p]
      /\ p = PLAYER1 => ServersTurn
      /\ p = PLAYER2 => ClientsTurn
  BY <1>0, <1>1, MoverIsCalm
<1>4. l \in GetValidLoc(board[p], p) /\ l \in Locs
  BY <1>2 DEF ValidLocs, GetValidLoc
<1>5. Move(p, l) \in Messages /\ PassTurn(p) \in Comms
  <2>1. comm[p] \in Comms
    BY DEF TypeInv, TypeOK
  <2> QED BY <1>0, <1>4, <2>1, FieldTypes DEF Move, Messages, PassTurn
<1> HIDE DEF o
<1>6. /\ chan' = [chan EXCEPT ![o] = <<Move(p, l)>>]
      /\ comm' = [comm EXCEPT ![p] = PassTurn(p)]
      /\ playPc' = [playPc EXCEPT ![p] = "conn"]
  BY <1>1, <1>2, <1>3, <1>5, LiveWrite DEF Calm, o
<1>7. board'[p] = Place(board[p], p, l) /\ board'[o] = board[o]
  BY <1>0, <1>2 DEF TypeOK
<1>8. /\ chan'[o] = <<Move(p, l)>> /\ ~comm'[o].need_update
      /\ View(o)' = board[p] /\ View(p)' = board'[p]
      /\ MoveSent(o)' => TurnGoesTo(o)'
      /\ \A q \in Players : SkipsRightly(q)' /\ ~comm'[q].need_quit
  BY <1>0, <1>1, <1>6, <1>7, HandedOn DEF o
<1>9. MoveSent(o)'
  <2>1. After(View(o)', p, l, View(p)')
    BY <1>4, <1>7, <1>8 DEF After
  <2> QED BY <1>0, <1>4, <1>8, <2>1 DEF MoveSent
<1>10. targetFD'[PLAYER1] # "stdin"
  <2>1. p = PLAYER2 => ~ServersTurn
    BY <1>0, <1>3, PlayersAre DEF ServersTurn, ClientsTurn, HasTurn, Waits
  <2> QED BY <1>0, <1>1, <2>1, PlayersAre DEF InPhase
<1> QED BY <1>0, <1>8, <1>9, <1>10, PlayersAre DEF InPhase, Phases

\* The client goes back to the opening and says so.
LEMMA PressPhase ==
  ASSUME EarlyKeys = FALSE, Restarts \subseteq {<<PLAYER2, PLAYER2>>},
         TypeInv, InPhase, NEW p \in Players, PlayPressRestart(p),
         \A q \in Players : Live(q), Live(p)'
  PROVE  InPhase'
<1>0. /\ PLAYER1 \in Players /\ PLAYER2 \in Players /\ PLAYER1 # PLAYER2
      /\ Other(PLAYER1) = PLAYER2 /\ Other(PLAYER2) = PLAYER1
      /\ \A q \in Players : q = PLAYER1 \/ q = PLAYER2
      /\ TypeOK
  BY PlayersAre DEF TypeInv
<1>1. p = PLAYER2 /\ comm[PLAYER2].player = PLAYER2
  BY DEF PlayPressRestart
<1>2. /\ HasTurn(PLAYER2) /\ targetFD[PLAYER2] = "sock" /\ UNCHANGED <<board, targetFD>>
      /\ SockWrite(PLAYER2, RestartCmd, comm[PLAYER2], "restart")
  BY <1>1 DEF PlayPressRestart, KeyTyped, HasTurn, LoopPcs
<1>3. ClientsTurn
  BY <1>0, <1>2, MoverIsCalm
<1>4. RestartCmd \in Messages /\ comm[PLAYER2] \in Comms /\ Live(PLAYER2)'
  BY <1>0, <1>1 DEF RestartCmd, Messages, TypeOK
<1>5. /\ chan' = [chan EXCEPT ![PLAYER1] = <<RestartCmd>>]
      /\ comm' = [comm EXCEPT ![PLAYER2] = comm[PLAYER2]]
      /\ playPc' = [playPc EXCEPT ![PLAYER2] = "restart"]
  BY <1>0, <1>2, <1>3, <1>4, LiveWrite DEF ClientsTurn, Calm
<1>6. /\ chan'[PLAYER1] = <<RestartCmd>> /\ chan'[PLAYER2] = chan[PLAYER2]
      /\ comm' = comm
      /\ playPc'[PLAYER2] = "restart" /\ playPc'[PLAYER1] = playPc[PLAYER1]
  BY <1>0, <1>5 DEF TypeOK
<1>7. /\ Waits(PLAYER2)' /\ Waits(PLAYER1)' /\ Calm(PLAYER2)'
      /\ View(PLAYER2)' = InitBoard
  BY <1>3, <1>6 DEF ClientsTurn, Waits, Calm, View, LoopPcs, SetupPcs
<1>8. Restarting'
  BY <1>3, <1>6, <1>7 DEF Restarting, ClientsTurn, Calm
<1>9. \A q \in Players : SkipsRightly(q)' /\ ~comm'[q].need_quit
  BY <1>0, <1>2, <1>6 DEF InPhase, SkipsRightly
<1>10. targetFD[PLAYER1] # "stdin"
  BY <1>0, <1>3 DEF InPhase, ServersTurn, ClientsTurn, HasTurn, Waits
<1> QED BY <1>2, <1>8, <1>9, <1>10 DEF InPhase, Phases

LEMMA NetPhaseStep ==
  ASSUME TypeInv, Wired, InPhase, NEW p \in Players, Net(p),
         \A q \in Players : Live(q), \A q \in Players : Live(q)'
  PROVE  InPhase'
<1>0. /\ PLAYER1 \in Players /\ PLAYER2 \in Players /\ PLAYER1 # PLAYER2
      /\ TypeOK /\ \A q \in Players : SkipsRightly(q) /\ ~comm[q].need_quit
  BY PlayersAre DEF TypeInv, InPhase
<1>1. ASSUME UNCHANGED <<board, playPc, chan>>,
             targetFD'[PLAYER1] = "stdin" => targetFD[PLAYER1] = "stdin",
             \A q \in Players :
               /\ comm'[q].player = comm[q].player /\ comm'[q].pos = comm[q].pos
               /\ comm'[q].need_update = comm[q].need_update
               /\ comm'[q].need_restart = comm[q].need_restart
               /\ comm'[q].need_quit = comm[q].need_quit
      PROVE  InPhase'
  <2>1. \A q \in Players : View(q)' = View(q) /\ SkipsRightly(q)'
    BY <1>0, <1>1 DEF View, SkipsRightly
  <2> QED BY <1>1, <2>1, PhaseFrame
<1>2. CASE UNCHANGED <<board, comm, playPc, chan, targetFD>>
  BY <1>1, <1>2
<1>3. CASE p = PLAYER1 /\ NetAccept
  BY <1>3, AcceptPhase
<1>4. CASE p = PLAYER2 /\ NetCreateThread
  <2>1. playPc[PLAYER2] = "none"
    BY <1>4 DEF NetCreateThread, Wired
  <2>2. /\ playPc'[PLAYER2] = "wait"
        /\ \A q \in Players : q # PLAYER2 => playPc'[q] = playPc[q]
        /\ UNCHANGED <<board, comm, targetFD, chan>>
    BY <1>0, <1>4 DEF NetCreateThread, PlayGoto, TypeOK
  <2>3. \A q \in Players :
          /\ View(q)' = View(q)
          /\ (playPc'[q] \in LoopPcs) = (playPc[q] \in LoopPcs)
          /\ playPc[q] \in SetupPcs => playPc'[q] \in SetupPcs
          /\ playPc[q] = "restart" => playPc'[q] = "restart"
          /\ SkipsRightly(q)'
    BY <1>0, <2>1, <2>2 DEF View, SkipsRightly, SetupPcs, LoopPcs
  <2> QED BY <2>2, <2>3, PhaseFrame
<1>5. CASE p = PLAYER2 /\ NetConnect
  <2>1. netPc[PLAYER1] # "boot"
    <3>1. SUFFICES ASSUME netPc[PLAYER1] = "boot" PROVE FALSE
      OBVIOUS
    <3>2. playPc'[PLAYER2] = "refused"
      BY <1>0, <1>5, <3>1 DEF NetConnect, Die, TypeOK
    <3> QED BY <1>0, <3>2 DEF Live, SetupPcs, LoopPcs
  <2> QED BY <1>2, <1>5, <2>1 DEF NetConnect
<1>6. CASE NetStart(p)
  <2>1. \A q \in Players :
          /\ comm'[q].player = comm[q].player /\ comm'[q].pos = comm[q].pos
          /\ comm'[q].need_update = comm[q].need_update
          /\ comm'[q].need_restart = comm[q].need_restart
          /\ comm'[q].need_quit = comm[q].need_quit
    BY <1>0, <1>6 DEF NetStart, TypeOK, Comms
  <2> QED BY <1>1, <1>6, <2>1 DEF NetStart
<1>7. CASE NetTarget(p)
  <2>1. targetFD'[PLAYER1] = "stdin" => targetFD[PLAYER1] = "stdin"
    BY <1>0, <1>7 DEF NetTarget, TypeOK
  <2> QED BY <1>1, <1>7, <2>1 DEF NetTarget
<1>8. CASE NetReadData(p)
  BY <1>8, ReadPhase
<1>9. CASE NetReadEof(p)
  <2>1. playPc'[p] = "segv"
    BY <1>0, <1>9 DEF NetReadEof, Die, TypeOK
  <2> QED BY <2>1 DEF Live, SetupPcs, LoopPcs
<1>10. CASE NetReadError(p)
  <2>1. comm'[p].lost_con
    BY <1>0, <1>10 DEF NetReadError, TypeOK, Comms
  <2> QED BY <2>1 DEF Live
<1>11. CASE (p = PLAYER1 /\ NetListen) \/ NetCheck(p) \/ NetReadNothing(p) \/ NetClose(p)
  BY <1>2, <1>11 DEF NetListen, NetCheck, NetReadNothing, NetClose
<1> QED BY <1>3, <1>4, <1>5, <1>6, <1>7, <1>8, <1>9, <1>10, <1>11 DEF Net

LEMMA PlayPhaseStep ==
  ASSUME EarlyKeys = FALSE, Restarts \subseteq {<<PLAYER2, PLAYER2>>},
         TypeInv, Wired, InPhase, NEW p \in Players, Play(p),
         \A q \in Players : Live(q), \A q \in Players : Live(q)'
  PROVE  InPhase'
<1>0. /\ PLAYER1 \in Players /\ PLAYER2 \in Players /\ PLAYER1 # PLAYER2
      /\ TypeOK /\ \A q \in Players : SkipsRightly(q) /\ ~comm[q].need_quit
  BY PlayersAre DEF TypeInv, InPhase
\* Steps that only move the thread on.
<1>1. ASSUME NEW from \in PlayPcs, NEW to \in PlayPcs, playPc[p] = from, PlayGoto(p, to),
             UNCHANGED <<board, comm, chan, targetFD>>,
             {from, to} \subseteq LoopPcs \/ (from = "wait" /\ to = "restart"),
             to = "skip" => /\ comm[p].player = p
                            /\ ~IsMyTurnValid(board[p], p) /\ ~IsTimeToEnd(board[p])
      PROVE  InPhase'
  <2>1. playPc'[p] = to /\ \A q \in Players : q # p => playPc'[q] = playPc[q]
    BY <1>0, <1>1 DEF PlayGoto, TypeOK
  <2>2. \A q \in Players :
          /\ View(q)' = View(q)
          /\ (playPc'[q] \in LoopPcs) = (playPc[q] \in LoopPcs)
          /\ playPc[q] \in SetupPcs => playPc'[q] \in SetupPcs
          /\ playPc[q] = "restart" => playPc'[q] = "restart"
    BY <1>1, <2>1 DEF View, SetupPcs, LoopPcs
  <2>3. \A q \in Players : SkipsRightly(q)'
    BY <1>0, <1>1, <2>1 DEF SkipsRightly
  <2> QED BY <1>1, <2>2, <2>3, PhaseFrame
<1> HIDE <1>1
<1>2. LoopPcs \cup {"wait", "restart"} \subseteq PlayPcs
  BY DEF PlayPcs, SetupPcs
<1>3. CASE PlayWait(p)
  BY <1>1, <1>2, <1>3 DEF PlayWait
<1>4. CASE PlayRestart(p)
  BY <1>4, RestartPhase
<1>5. CASE PlayConn(p)
  <2>1. ~comm[p].lost_con
    BY DEF Live
  <2> QED BY <1>1, <1>2, <1>5, <2>1 DEF PlayConn, LoopPcs
<1>6. CASE PlayUpdate(p)
  <2>1. CASE comm[p].need_update
    BY <1>6, <2>1, UpdatePhase
  <2>2. CASE ~comm[p].need_update
    BY <1>1, <1>2, <1>6, <2>2 DEF PlayUpdate, LoopPcs
  <2> QED BY <2>1, <2>2
<1>7. CASE PlayFlags(p)
  <2>1. CASE comm[p].need_restart
    BY <1>7, <2>1, FlagPhase
  <2>2. CASE ~comm[p].need_restart
    BY <1>0, <1>1, <1>2, <1>7, <2>2 DEF PlayFlags, LoopPcs
  <2> QED BY <2>1, <2>2
<1>8. CASE PlayEval(p)
  <2> DEFINE Stuck == /\ comm[p].player = p
                      /\ ~IsMyTurnValid(board[p], p) /\ ~IsTimeToEnd(board[p])
  <2>1. playPc[p] = "eval" /\ UNCHANGED <<board, comm, chan, targetFD>>
        /\ PlayGoto(p, IF Stuck THEN "skip" ELSE "key")
    BY <1>0, <1>8 DEF PlayEval
  <2>2. {"eval", "skip", "key"} \subseteq LoopPcs
    BY DEF LoopPcs
  <2>3. CASE Stuck
    BY <1>1, <1>2, <2>1, <2>2, <2>3
  <2>4. CASE ~Stuck
    BY <1>1, <1>2, <2>1, <2>2, <2>4
  <2> QED BY <2>3, <2>4
<1>9. CASE PlaySkip(p)
  BY <1>9, SkipPhase
<1>10. CASE PlayIdle(p)
  BY <1>1, <1>2, <1>10 DEF PlayIdle, LoopPcs
<1>11. CASE PlayPut(p)
  BY <1>11, PutPhase
<1>12. CASE PlayPressRestart(p)
  BY <1>12, PressPhase
<1>13. CASE PlayPressQuit(p)
  <2>1. playPc'[p] \in {"quit", "sigpipe"}
    BY <1>0, <1>13 DEF PlayPressQuit, SockWrite, Die, PlayGoto, TypeOK
  <2> QED BY <2>1 DEF Live, SetupPcs, LoopPcs
<1>14. CASE PlayQuit(p)
  BY <1>14 DEF PlayQuit, Live, SetupPcs, LoopPcs
<1> QED BY <1>3, <1>4, <1>5, <1>6, <1>7, <1>8, <1>9, <1>10, <1>11, <1>12, <1>13, <1>14
        DEF Play

LEMMA RestartStep ==
  ASSUME EarlyKeys = FALSE, Restarts \subseteq {<<PLAYER2, PLAYER2>>},
         TypeInv, RestartInv, [Next]_vars
  PROVE  RestartInv'
<1>1. Wired /\ Wired'
  BY WiredStep DEF RestartInv
<1>2. CASE UNCHANGED vars
  BY <1>2 DEF vars, RestartInv, Wired, InPhase, Phases, ServersTurn, ClientsTurn, Restarting,
              TurnGoesTo, MoveRead, MoveSent, SkipSent, Owns, HasTurn, Waits, Calm, View,
              SkipsRightly, Live
<1>3. ASSUME NEW p \in Players, Net(p) \/ Play(p), \A q \in Players : Live(q)'
      PROVE  InPhase'
  <2>1. \A q \in Players : Live(q)
    BY <1>1, <1>3, NetKeepsLive, PlayKeepsLive
  <2>2. InPhase
    BY <2>1 DEF RestartInv
  <2>3. CASE Net(p)
    BY <1>1, <1>3, <2>1, <2>2, <2>3, NetPhaseStep
  <2>4. CASE Play(p)
    BY <1>1, <1>3, <2>1, <2>2, <2>4, PlayPhaseStep
  <2> QED BY <1>3, <2>3, <2>4
<1> QED BY <1>1, <1>2, <1>3 DEF Next, RestartInv

LEMMA RestartInvariant ==
  ASSUME EarlyKeys = FALSE, Restarts \subseteq {<<PLAYER2, PLAYER2>>}
  PROVE  Spec => []RestartInv
<1>1. Init => TypeInv /\ RestartInv
  BY TypeInit, RestartInit
<1>2. TypeInv /\ RestartInv /\ [Next]_vars => (TypeInv /\ RestartInv)'
  BY RestartStep, TypeStep
<1> QED BY <1>1, <1>2, PTL DEF Spec

\* At rest, one of the two has the turn, and both see the same board.
LEMMA RestIsATurn ==
  ASSUME RestartInv, AtRest
  PROVE  SameViewAtRest /\ OneTurnAtRest
<1>0. /\ PLAYER1 \in Players /\ PLAYER2 \in Players
      /\ Other(PLAYER1) = PLAYER2 /\ Other(PLAYER2) = PLAYER1
      /\ PLAYER1 # PLAYER2
  BY PlayersAre
<1>1. \A q \in Players : /\ playPc[q] \in LoopPcs /\ Live(q)
                         /\ chan[q] = <<>> /\ ~comm[q].need_update /\ ~comm[q].need_restart
                         /\ View(q) = board[q]
  BY DEF AtRest, Playing, Live, View, SetupPcs, LoopPcs
<1>2. ~Restarting
  BY <1>0, <1>1 DEF Restarting
<1>3. ASSUME NEW p \in Players PROVE ~TurnGoesTo(p)
  BY <1>1, <1>3 DEF TurnGoesTo, MoveRead, MoveSent, SkipSent
<1>4. ServersTurn \/ ClientsTurn
  BY <1>0, <1>1, <1>2, <1>3 DEF RestartInv, InPhase, Phases
<1>5. View(PLAYER1) = View(PLAYER2)
  BY <1>4 DEF ServersTurn, ClientsTurn
<1>6. HasTurn(PLAYER1) <=> ~HasTurn(PLAYER2)
  <2>1. CASE ServersTurn
    BY <1>0, <1>1, <2>1 DEF ServersTurn, Owns, Waits, HasTurn, SetupPcs, LoopPcs
  <2>2. CASE ClientsTurn
    BY <1>0, <1>1, <2>2 DEF ClientsTurn, Waits, HasTurn
  <2> QED BY <1>4, <2>1, <2>2
<1> QED BY <1>0, <1>1, <1>5, <1>6 DEF SameViewAtRest, OneTurnAtRest

(* The two players see the same board (HW_4/README.md:30) also when the      *)
(* client restarts the game, as long as it does so in its own turn: once     *)
(* everything sent has been read and acted on, the boards are equal,         *)
(* whatever was going on when R was pressed.                                 *)
THEOREM RestartsAgree ==
  ASSUME EarlyKeys = FALSE, Restarts \subseteq {<<PLAYER2, PLAYER2>>}
  PROVE  Spec => []SameViewAtRest
<1>1. RestartInv => SameViewAtRest
  BY RestIsATurn DEF SameViewAtRest
<1> QED BY <1>1, RestartInvariant, PTL

(* After such a restart one user has the turn, neither both nor nobody: the  *)
(* restart label of either program gives the turn to the server, and it is   *)
(* the server's loop that is still waiting when the command arrives.         *)
THEOREM RestartsKeepOneTurn ==
  ASSUME EarlyKeys = FALSE, Restarts \subseteq {<<PLAYER2, PLAYER2>>}
  PROVE  Spec => []OneTurnAtRest
<1>1. RestartInv => OneTurnAtRest
  BY RestIsATurn DEF OneTurnAtRest
<1> QED BY <1>1, RestartInvariant, PTL
=============================================================================
