------------------------------- MODULE NetStat -------------------------------
(***************************************************************************)
(* The netstat clone HW_1/main.c: it reads the kernel's socket tables, once *)
(* scans /proc for the sockets each process holds, and joins the two, while *)
(* processes start, end, open and close sockets.                            *)
(*                                                                          *)
(* A step of the program is one call that looks at the outside: a read of a *)
(* table, an opendir, the reading of one cmdline, one readlink.  The text   *)
(* of the rows and the filter string are left out.                          *)
(***************************************************************************)
EXTENDS NetAddr, FiniteSets, SequencesExt

CONSTANTS
  Pids,              \* processes there may be
  Inodes,            \* sockets there may be, by inode number, in table order
  Family,            \* the table of /proc/net each socket is in
  Address,           \* the local address of each socket
  Foreign,           \* processes whose descriptors the user may not see
  Missing,           \* tables this kernel does not have
  MaxFd,             \* descriptors a process may use for sockets
  MAX_INODE_IN_PID,  \* room for sockets in a PROC_HOUSE
  Chunk,             \* lines one read of a table returns
  CommandLines,      \* what main may find in argv: sequences of options
  MaxEvents          \* bound of the runs: changes of the world meanwhile

Files == {"tcp", "tcp6", "udp", "udp6"}

(* -t, -u, anything else, and no option at all (get_connection).            *)
FilesOf(option) ==
  CASE option = "t" -> <<"tcp", "tcp6">>
    [] option = "u" -> <<"udp", "udp6">>
    [] OTHER -> <<>>

Passes(argv) ==
  IF argv = <<>> THEN <<FilesOf("t") \o FilesOf("u")>>
  ELSE [k \in DOMAIN argv |-> FilesOf(argv[k])]

ASSUME ProcessAssumption ==
  IsFiniteSet(Pids) /\ Pids \subseteq Nat \ {0} /\ 1 \in Pids /\ Foreign \subseteq Pids
ASSUME SocketAssumption ==
  /\ IsFiniteSet(Inodes) /\ Inodes \subseteq Nat \ {0}
  /\ Family \in [Inodes -> Files] /\ Missing \subseteq Files
  /\ DOMAIN Address = Inodes
  /\ \A i \in Inodes :
       LET bytes == IF Family[i] \in {"tcp", "udp"} THEN 4 ELSE 16
       IN Address[i] \in [addr : [1 .. bytes -> Byte], port : Port]
ASSUME CommandAssumption == CommandLines \subseteq Seq(STRING)
ASSUME SizeAssumption ==
  {MaxFd, MAX_INODE_IN_PID, Chunk} \subseteq Nat \ {0} /\ MaxEvents \in Nat

VARIABLES
  life,       \* of each process
  fds,        \* the sockets among its descriptors, 0 for none
  lingering,  \* closed sockets whose row is still there (TIME_WAIT)
  held,       \* who ever held a socket (history)
  stirred,    \* sockets opened or given up since the program began (history)
  events,     \* changes of the world since then, for the bound
  pc,
  loc,        \* locals of main and create_db
  scan,       \* locals of pid_factory and create_pid_db
  pid_house,  \* the list from pid_house_head
  conn_house  \* the list from conn_house_head

world == <<life, fds, lingering, held, stirred, events>>
vars == <<world, pc, loc, scan, pid_house, conn_house>>

HeadLine == [sock |-> 0, inode |-> 0]
NoScan == [done |-> FALSE, todo |-> {}, fds |-> {}]

SocketsOf(p) == {fds[p][f] : f \in 1 .. MaxFd} \ {0}
Open == UNION {SocketsOf(p) : p \in Pids}

(* The first so many processes, some of them waited for, each running one   *)
(* with its own sockets in its lowest descriptors.                          *)
Init ==
  /\ life \in [Pids -> {"run", "zombie", "none"}] /\ life[1] = "run"
  /\ fds \in [Pids -> [1 .. MaxFd -> {0} \cup Inodes]]
  /\ \A p \in Pids :
       /\ life[p] # "run" => SocketsOf(p) = {}
       /\ life[p] = "none" => \A q \in Pids : q > p => life[q] = "none"
       /\ \A f \in 1 .. MaxFd : \A g \in 1 .. f - 1 :
            fds[p][f] # 0 => fds[p][g] \notin {0, fds[p][f]}
       /\ \A q \in Pids \ {p} : SocketsOf(p) \cap SocketsOf(q) = {}
  /\ lingering = {}
  /\ held = [i \in Inodes |-> {p \in Pids : i \in SocketsOf(p)}]
  /\ stirred = {}
  /\ events = 0
  /\ pc = "pass"
  /\ \E argv \in CommandLines :
       loc = [passes |-> Passes(argv), pass |-> 1, file |-> 1,
              buf |-> {}, pos |-> 0, line |-> HeadLine, eof |-> FALSE]
  /\ scan = NoScan
  /\ pid_house = <<>>
  /\ conn_house = <<>>

-----------------------------------------------------------------------------
(* The world: processes and sockets.                                        *)

Exists(p) == life[p] \in {"run", "exiting", "zombie"}

Stir(socks) == stirred' = stirred \cup socks

(* TCP may keep the row of a socket nobody holds any more.                  *)
Leave(socks) ==
  \E tw \in SUBSET {i \in socks : Family[i] \in {"tcp", "tcp6"}} :
    lingering' = lingering \cup tw

OpenSocket(p) ==
  /\ life[p] = "run"
  /\ \E f \in 1 .. MaxFd, i \in Inodes :
       /\ fds[p][f] = 0 /\ \A g \in 1 .. f - 1 : fds[p][g] # 0
       /\ held[i] = {}
       /\ fds' = [fds EXCEPT ![p][f] = i]
       /\ held' = [held EXCEPT ![i] = {p}]
       /\ Stir({i})
  /\ UNCHANGED <<life, lingering>>

CloseSocket(p) ==
  /\ life[p] = "run"
  /\ \E f \in {g \in 1 .. MaxFd : fds[p][g] # 0} :
       /\ fds' = [fds EXCEPT ![p][f] = 0]
       /\ Leave({fds[p][f]} \ UNION {SocketsOf(q) : q \in Pids \ {p}})
       /\ Stir({fds[p][f]})
  /\ UNCHANGED <<life, held>>

ForkProcess(p) ==
  /\ life[p] = "run"
  /\ \E q \in Pids :
       /\ life[q] = "none"
       /\ life' = [life EXCEPT ![q] = "run"]
       /\ fds' = [fds EXCEPT ![q] = fds[p]]
       /\ held' = [i \in Inodes |-> held[i] \cup (IF i \in SocketsOf(p) THEN {q} ELSE {})]
  /\ UNCHANGED <<lingering, stirred>>

(* An ending process loses its memory, and with it the text of cmdline,     *)
(* before its descriptors, and stays until its parent has waited for it.    *)
Exit(p) ==
  /\ p # 1 /\ life[p] = "run"
  /\ life' = [life EXCEPT ![p] = "exiting"]
  /\ Stir(SocketsOf(p))
  /\ UNCHANGED <<fds, lingering, held>>

ExitFiles(p) ==
  /\ life[p] = "exiting"
  /\ life' = [life EXCEPT ![p] = "zombie"]
  /\ fds' = [fds EXCEPT ![p] = [f \in 1 .. MaxFd |-> 0]]
  /\ Leave(SocketsOf(p) \ UNION {SocketsOf(q) : q \in Pids \ {p}})
  /\ UNCHANGED <<held, stirred>>

Wait(p) ==
  /\ life[p] = "zombie"
  /\ life' = [life EXCEPT ![p] = "gone"]
  /\ UNCHANGED <<fds, lingering, held, stirred>>

World ==
  /\ events < MaxEvents /\ events' = events + 1
  /\ \E p \in Pids : \/ OpenSocket(p) \/ CloseSocket(p) \/ ForkProcess(p)
                     \/ Exit(p) \/ ExitFiles(p) \/ Wait(p)
  /\ UNCHANGED <<pc, loc, scan, pid_house, conn_house>>

-----------------------------------------------------------------------------
(* Reading a table: stdio asks the kernel for some lines at a time, and the *)
(* kernel goes on behind the last one it gave.  A lingering row has inode 0.*)

File == loc.passes[loc.pass][loc.file]

Rows(room) ==
  LET socks == {i \in Open \cup lingering : Family[i] = File /\ i > loc.pos}
      given == {i \in socks : Cardinality({j \in socks : j <= i}) <= room}
  IN {[sock |-> i, inode |-> IF i \in Open THEN i ELSE 0] : i \in given}

Filled == IF loc.buf # {} THEN loc.buf ELSE Rows(Chunk)

FirstOf(rows) == CHOOSE row \in rows : \A other \in rows : row.sock <= other.sock

Behind(rows) == Max({loc.pos} \cup {row.sock : row \in rows})

(* getline: at the end of the table the buffer keeps the line before.       *)
Getline ==
  loc' = IF Filled = {} THEN [loc EXCEPT !.eof = TRUE]
         ELSE [loc EXCEPT !.line = FirstOf(Filled), !.buf = Filled \ {FirstOf(Filled)},
                          !.pos = Behind(Filled)]

Goto(label) == pc' = label

(* The loops of main and get_connection: the next table of this option, or  *)
(* print_info; fopen is not tested.                                         *)
OpenFile ==
  /\ pc = "pass" /\ loc.pass <= Len(loc.passes)
  /\ loc.file <= Len(loc.passes[loc.pass])
  /\ Goto(IF File \in Missing THEN "crashed" ELSE "head")
  /\ loc' = [loc EXCEPT !.buf = {}, !.pos = 0, !.eof = FALSE]
  /\ UNCHANGED <<world, scan, pid_house, conn_house>>

Printing ==
  /\ pc = "pass" /\ loc.pass <= Len(loc.passes)
  /\ loc.file > Len(loc.passes[loc.pass])

(* It prints and frees nothing: the rows stay for the next option.          *)
print_info ==
  /\ Printing
  /\ loc' = [loc EXCEPT !.pass = @ + 1, !.file = 1]
  /\ UNCHANGED <<world, pc, scan, pid_house, conn_house>>

EndOfProgram ==
  /\ pc = "pass" /\ loc.pass > Len(loc.passes)
  /\ Goto("done")
  /\ UNCHANGED <<world, loc, scan, pid_house, conn_house>>

(* The first getline reads the head line and what follows it.               *)
ReadHead ==
  /\ pc = "head"
  /\ loc' = [loc EXCEPT !.line = HeadLine, !.buf = Rows(Chunk - 1),
                        !.pos = Behind(Rows(Chunk - 1))]
  /\ Goto("first")
  /\ UNCHANGED <<world, scan, pid_house, conn_house>>

(* The second one; its result is not tested.                                *)
ReadFirst ==
  /\ pc = "first"
  /\ Getline
  /\ Goto(IF scan.done THEN "parse" ELSE "scan")
  /\ UNCHANGED <<world, scan, pid_house, conn_house>>

\* Seeded fault: the result of getline is not tested here either.
ReadNextBlind ==
  /\ pc = "next"
  /\ Getline
  /\ Goto("parse")
  /\ UNCHANGED <<world, scan, pid_house, conn_house>>

ReadNext ==
  /\ pc = "next"
  /\ Getline
  /\ Goto(IF Filled = {} THEN "close" ELSE "parse")
  /\ UNCHANGED <<world, scan, pid_house, conn_house>>

CloseFile ==
  /\ pc = "close"
  /\ loc' = [loc EXCEPT !.file = @ + 1]
  /\ Goto("pass")
  /\ UNCHANGED <<world, scan, pid_house, conn_house>>

\* Seeded fault: the loop over a process's sockets stops one short.
OwnersShort(inode) ==
  {k \in DOMAIN pid_house : \E j \in 1 .. Len(pid_house[k].inodes) - 1 :
                              pid_house[k].inodes[j] = inode}

(* The processes that hold inode, as far as the scan knows.                 *)
Owners(inode) ==
  {k \in DOMAIN pid_house : \E j \in DOMAIN pid_house[k].inodes :
                              pid_house[k].inodes[j] = inode}

(* The first of them in the list, 0 for NULL.                               *)
get_connection_owner(inode) ==
  IF Owners(inode) = {} THEN 0 ELSE pid_house[Min(Owners(inode))].pid

\* The local address of the parsed line, in the form its table has.
Shown(line) ==
  IF line.sock = 0 THEN [addr |-> <<>>, port |-> 0]
  ELSE IF File \in {"tcp", "udp"} THEN addr_hex2dec_v4(Field(Address[line.sock]))
  ELSE addr_hex2dec_v6(Field(Address[line.sock]))

info_parser ==
  /\ pc = "parse"
  /\ conn_house' = Append(conn_house,
       [file |-> File, sock |-> loc.line.sock, inode |-> loc.line.inode,
        addr |-> Shown(loc.line), owner |-> get_connection_owner(loc.line.inode)])
  /\ Goto(IF loc.eof THEN "close" ELSE "next")
  /\ UNCHANGED <<world, loc, scan, pid_house>>

-----------------------------------------------------------------------------
(* The scan of /proc.  A directory is listed in one go (getdents returns    *)
(* more entries than there are here); its entries are looked at afterwards. *)

pid_factory ==
  /\ pc = "scan"
  /\ scan' = [scan EXCEPT !.todo = {p \in Pids : Exists(p)}]
  /\ Goto("pid")
  /\ UNCHANGED <<world, loc, pid_house, conn_house>>

EndOfScan ==
  /\ pc = "pid" /\ scan.todo = {}
  /\ scan' = [scan EXCEPT !.done = TRUE]
  /\ Goto("parse")
  /\ UNCHANGED <<world, loc, pid_house, conn_house>>

\* The process whose entry comes next, or is being looked at.
Looking == Min(scan.todo)

(* create_pid_db reads cmdline first.  fopen is not tested: a process that  *)
(* is gone crashes the program.  One without memory has an empty cmdline    *)
(* and gets no entry, but its descriptors are looked at all the same.       *)
ReadCmdline ==
  /\ pc = "pid" /\ scan.todo # {}
  /\ LET p == Looking IN
       /\ Goto(IF Exists(p) THEN "fds" ELSE "crashed")
       /\ pid_house' = IF life[p] = "run"
                       THEN Append(pid_house, [pid |-> p, inodes |-> <<>>])
                       ELSE pid_house
  /\ UNCHANGED <<world, loc, scan, conn_house>>

ListFds ==
  /\ pc = "fds"
  /\ LET p == Looking IN
       IF Exists(p) /\ p \notin Foreign
       THEN /\ scan' = [scan EXCEPT !.fds = {f \in 1 .. MaxFd : fds[p][f] # 0}]
            /\ Goto("link")
       ELSE scan' = [scan EXCEPT !.todo = @ \ {Looking}] /\ Goto("pid")
  /\ UNCHANGED <<world, loc, pid_house, conn_house>>

EndOfFds ==
  /\ pc = "link" /\ scan.fds = {}
  /\ scan' = [scan EXCEPT !.todo = @ \ {Looking}]
  /\ Goto("pid")
  /\ UNCHANGED <<world, loc, pid_house, conn_house>>

\* Seeded fault: the array is taken to have one element less.
FullEarly(inodes) == Len(inodes) >= MAX_INODE_IN_PID - 1

(* inode_num_idx is where the array ends: one store more lands on the       *)
(* index itself.                                                            *)
Full(inodes) == Len(inodes) >= MAX_INODE_IN_PID

\* Seeded fault: an inode is stored with the first process.
store_inode_first(inode) ==
  IF pid_house = <<>> \/ Full(Head(pid_house).inodes)
  THEN Goto("lost") /\ UNCHANGED pid_house
  ELSE /\ pid_house' = [pid_house EXCEPT ![1].inodes = Append(@, inode)]
       /\ UNCHANGED pc

(* With pid_house_tail NULL, or with its array full, what follows is        *)
(* undefined and the model stops.                                           *)
store_inode(inode) ==
  IF pid_house = <<>> \/ Full(Last(pid_house).inodes)
  THEN Goto("lost") /\ UNCHANGED pid_house
  ELSE /\ pid_house' = [pid_house EXCEPT ![Len(pid_house)].inodes = Append(@, inode)]
       /\ UNCHANGED pc

(* readlink on the next entry; a descriptor closed meanwhile is skipped.    *)
ReadLink ==
  /\ pc = "link" /\ scan.fds # {}
  /\ LET f == Min(scan.fds)
         inode == fds[Looking][f]
     IN /\ scan' = [scan EXCEPT !.fds = @ \ {f}]
        /\ IF inode = 0 THEN UNCHANGED <<pc, pid_house>> ELSE store_inode(inode)
  /\ UNCHANGED <<world, loc, conn_house>>

Program ==
  \/ OpenFile \/ print_info \/ EndOfProgram
  \/ ReadHead \/ ReadFirst \/ ReadNext \/ CloseFile \/ info_parser
  \/ pid_factory \/ EndOfScan \/ ReadCmdline \/ ListFds \/ EndOfFds \/ ReadLink

Next == World \/ Program

Spec == Init /\ [][Next]_vars

-----------------------------------------------------------------------------
(* Properties.                                                              *)

Rowed == [file : Files, sock : {0} \cup Inodes, inode : {0} \cup Inodes,
          addr : [addr : Seq(Nat), port : Nat], owner : {0} \cup Pids]

TypeOK ==
  /\ life \in [Pids -> {"none", "run", "exiting", "zombie", "gone"}]
  /\ fds \in [Pids -> [1 .. MaxFd -> {0} \cup Inodes]]
  /\ lingering \subseteq Inodes /\ stirred \subseteq Inodes
  /\ held \in [Inodes -> SUBSET Pids]
  /\ events \in 0 .. MaxEvents
  /\ pc \in {"pass", "head", "first", "next", "parse", "close", "scan",
             "pid", "fds", "link", "done", "crashed", "lost"}
  /\ loc.pass \in 1 .. Len(loc.passes) + 1 /\ loc.pos \in {0} \cup Inodes
  /\ scan \in [done : BOOLEAN, todo : SUBSET Pids, fds : SUBSET (1 .. MaxFd)]
  /\ pid_house \in Seq([pid : Pids, inodes : Seq(Inodes)])
  /\ conn_house \in Seq(Rowed)

Ended(p) == life[p] \in {"exiting", "zombie", "gone"}

(* "get owner from inode num" (main.c:260): a process named beside a        *)
(* connection held that socket.  Only sockets of a process that was ending  *)
(* while it was scanned go to the process before it in the list.            *)
CreditsHolder ==
  \A k \in DOMAIN conn_house :
    LET c == conn_house[k] IN
    c.owner # 0 => \/ c.owner \in held[c.inode]
                   \/ \E q \in held[c.inode] : c.owner < q /\ Ended(q)

\* How often create_db has been called for the table of a file so far.
Opened(pass) ==
  CASE pass < loc.pass -> Len(loc.passes[pass])
    [] pass > loc.pass -> 0
    [] OTHER -> IF pc \in {"pass", "crashed"} THEN loc.file - 1 ELSE loc.file

TimesOpened(f) ==
  Cardinality({slot \in (1 .. Len(loc.passes)) \X (1 .. 4) :
                 slot[2] <= Opened(slot[1]) /\ loc.passes[slot[1]][slot[2]] = f})

RowsOf(f, sock) ==
  Cardinality({k \in DOMAIN conn_house : conn_house[k].file = f /\ conn_house[k].sock = sock})

(* One row per socket and reading of its table, however lines and tables    *)
(* change between two reads of the kernel; and no more than one row that is *)
(* no socket at all (the head line of an empty table, which the getline of  *)
(* main.c:466 does not "get rid of").                                       *)
RowsPerRead ==
  \A f \in Files : \A sock \in {0} \cup Inodes : RowsOf(f, sock) <= TimesOpened(f)

\* The scan has an entry for p.
Met(p) == \E k \in DOMAIN pid_house : pid_house[k].pid = p

(* The program finds what holds still: a socket that nobody opened or gave  *)
(* up since the start has its row whenever its table is printed.  The row   *)
(* names a process that held it, if the user may look at one that was there *)
(* for the scan: the one that had the socket from the start, which has the  *)
(* lowest number, or a child that was met.  (A child forked later from one  *)
(* the user may not look at, as sshd's, comes too late.)                    *)
QuietSocketsListed ==
  Printing =>
    \A i \in Open \ stirred :
      Family[i] \in Range(loc.passes[loc.pass]) =>
        /\ RowsOf(Family[i], i) = TimesOpened(Family[i])
        /\ (\E p \in held[i] \ Foreign : p = Min(held[i]) \/ Met(p)) =>
             \A k \in DOMAIN conn_house :
               conn_house[k].sock = i => conn_house[k].owner \in held[i]

(* The columns show where the sockets are: IPv4 addresses and all ports     *)
(* come out as they are, whatever order the kernel prints their bytes in.   *)
AddressesShown ==
  \A k \in DOMAIN conn_house :
    LET c == conn_house[k] IN
    c.sock # 0 => /\ c.addr.port = Address[c.sock].port
                  /\ c.file \in {"tcp", "udp"} => c.addr = Address[c.sock]

(* Processes with no more sockets than there is room for do no harm: the    *)
(* program dies only if a process ended meanwhile, or a table is missing.   *)
DeathNeedsEnding ==
  pc \in {"crashed", "lost"} =>
    \/ \E p \in Pids : Ended(p)
    \/ loc.file <= Len(loc.passes[loc.pass]) /\ File \in Missing
=============================================================================
