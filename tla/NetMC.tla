-------------------------------- MODULE NetMC --------------------------------
(* Values for the runs of NetStat.                                          *)
EXTENDS NetStat

V4(a, b, c, d, p) == [addr |-> <<a, b, c, d>>, port |-> p]
V6(p) == [addr |-> [k \in 1 .. 16 |-> k], port |-> p]

Families == (1 :> "tcp" @@ 2 :> "tcp" @@ 3 :> "tcp6")
Addresses == (1 :> V4(127, 0, 18, 1, 631) @@ 2 :> V4(10, 200, 3, 4, 65535)
              @@ 3 :> V6(8080))
Argvs == {<<>>, <<"t", "?", "t">>}

\* Bound: at the start the first so many sockets are open, and a process has
\* its own in order of their numbers.
ScanInit ==
  /\ Init
  /\ Open = 1 .. Cardinality(Open)
  /\ \A p \in Pids, f, g \in 1 .. MaxFd :
       f < g /\ fds[p][g] # 0 => fds[p][f] < fds[p][g]

ScanSpec == ScanInit /\ [][Next]_vars
=============================================================================
