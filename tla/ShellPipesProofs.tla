-------------------------- MODULE ShellPipesProofs --------------------------
(***************************************************************************)
(* Proofs about ShellPipes.tla for every set of lines, number of children,  *)
(* size of a pipe and length of a session.                                  *)
(***************************************************************************)
EXTENDS ShellPipes, SequenceTheorems, FiniteSetTheorems, WellFoundedInduction, TLAPS

-----------------------------------------------------------------------------
(* Descriptor tables.                                                       *)

Object == [at : {"tty", "in", "out", "read", "write"}, pipe : Nat]
Tables == UNION {[D -> Object] : D \in {E \in SUBSET Nat : IsFiniteSet(E)}}

LEMMA LeastExists ==
  ASSUME NEW S, S \subseteq Nat, S # {}
  PROVE  \E m \in S : \A k \in S : m <= k
<1> DEFINE R == {ss \in Nat \X Nat : ss[1] < ss[2]}
<1>1. IsWellFoundedOn(R, Nat)
  BY NatLessThanWellFounded DEF OpToRel
<1>2. \A k, m \in Nat : k < m => <<k, m>> \in R
  OBVIOUS
<1> HIDE DEF R
<1>3. PICK m \in S : \A k \in S : ~ (<<k, m>> \in R)
  BY <1>1, WFMin
<1>4. \A k \in S : ~(k < m)
  BY <1>2, <1>3
<1> QED BY <1>4

LEMMA TableFacts ==
  ASSUME NEW t \in Tables
  PROVE  /\ IsFiniteSet(DOMAIN t) /\ DOMAIN t \subseteq Nat
         /\ t \in [DOMAIN t -> Object]
         /\ \A d \in DOMAIN t : t[d] \in Object
BY DEF Tables

LEMMA ObjectTypes ==
  ASSUME NEW k \in Nat
  PROVE  {Tty, InFile, OutFile, Rd(k), Wr(k)} \subseteq Object
BY DEF Object, Tty, InFile, OutFile, Rd, Wr

LEMMA WithFacts ==
  ASSUME NEW t \in Tables, NEW d \in Nat, NEW object \in Object
  PROVE  /\ With(t, d, object) \in Tables
         /\ DOMAIN With(t, d, object) = DOMAIN t \cup {d}
         /\ With(t, d, object)[d] = object
         /\ \A e \in DOMAIN t : e # d => With(t, d, object)[e] = t[e]
<1>1. IsFiniteSet(DOMAIN t \cup {d}) /\ DOMAIN t \cup {d} \subseteq Nat
  BY TableFacts, FS_AddElement
<1>2. With(t, d, object) \in [DOMAIN t \cup {d} -> Object]
  BY TableFacts DEF With
<1>3. With(t, d, object) \in Tables
  BY <1>1, <1>2 DEF Tables
<1> QED BY <1>3 DEF With

LEMMA CloseFacts ==
  ASSUME NEW t \in Tables, NEW d \in Nat
  PROVE  /\ Close(t, d) \in Tables
         /\ DOMAIN Close(t, d) = DOMAIN t \ {d}
         /\ \A e \in DOMAIN t : e # d => Close(t, d)[e] = t[e]
<1>1. IsFiniteSet(DOMAIN t \ {d}) /\ DOMAIN t \ {d} \subseteq Nat
  BY TableFacts, FS_RemoveElement
<1>2. Close(t, d) \in [DOMAIN t \ {d} -> Object]
  BY TableFacts DEF Close
<1>3. Close(t, d) \in Tables
  BY <1>1, <1>2 DEF Tables
<1> QED BY <1>3 DEF Close

\* There is a lowest free number, and it is free.
LEMMA LowestFree ==
  ASSUME NEW t \in Tables
  PROVE  Lowest(t) \in Nat /\ Lowest(t) \notin DOMAIN t
<1> DEFINE n == Cardinality(DOMAIN t)
           gaps == (0 .. n) \ DOMAIN t
<1>1. IsFiniteSet(DOMAIN t) /\ DOMAIN t \subseteq Nat /\ n \in Nat
  BY TableFacts, FS_CardinalityType
<1>2. gaps # {}
  <2>1. Cardinality(0 .. n) = n + 1
    BY <1>1, FS_Interval
  <2>2. ~(0 .. n \subseteq DOMAIN t)
    <3>1. SUFFICES ASSUME 0 .. n \subseteq DOMAIN t
                   PROVE  FALSE
      OBVIOUS
    <3>2. Cardinality(0 .. n) <= Cardinality(DOMAIN t)
      BY <1>1, <3>1, FS_Subset
    <3> QED BY <1>1, <2>1, <3>2
  <2> QED BY <2>2
<1>3. PICK d \in gaps : \A e \in gaps : d <= e
  <2>1. gaps \subseteq Nat
    BY <1>1
  <2> HIDE DEF gaps
  <2> QED BY <1>2, <2>1, LeastExists
<1>4. \A e \in 0 .. d - 1 : e \in DOMAIN t
  BY <1>1, <1>3
<1>5. \E f \in 0 .. n : f \notin DOMAIN t /\ \A e \in 0 .. f - 1 : e \in DOMAIN t
  BY <1>3, <1>4
<1> QED BY <1>1, <1>5 DEF Lowest

LEMMA DupFacts ==
  ASSUME NEW t \in Tables, NEW d \in DOMAIN t
  PROVE  /\ Dup(t, d) \in Tables
         /\ DOMAIN Dup(t, d) = DOMAIN t \cup {Lowest(t)}
         /\ Dup(t, d)[Lowest(t)] = t[d]
         /\ \A e \in DOMAIN t : Dup(t, d)[e] = t[e]
<1> DEFINE object == t[d]
           new == Lowest(t)
<1>1. object \in Object /\ new \in Nat /\ new \notin DOMAIN t
  BY TableFacts, LowestFree
<1> HIDE DEF object, new
<1>2. /\ With(t, new, object) \in Tables
      /\ DOMAIN With(t, new, object) = DOMAIN t \cup {new}
      /\ With(t, new, object)[new] = object
      /\ \A e \in DOMAIN t : e # new => With(t, new, object)[e] = t[e]
  BY <1>1, WithFacts
<1>3. Dup(t, d) = With(t, new, object)
  BY DEF Dup, object, new
<1>4. \A e \in DOMAIN t : With(t, new, object)[e] = t[e]
  BY <1>1, <1>2
<1> HIDE DEF With
<1> QED BY <1>2, <1>3, <1>4 DEF object, new

-----------------------------------------------------------------------------
(* The invariant about descriptors.                                         *)

Commands == Programs \cup Builtins \cup {"null", "exit"}

Process == [life : {"none", "born", "run", "zombie", "killed", "reaped"},
            cmd : Commands, line : Nat, idx : Nat, rest : SUBSET Commands,
            pipe : Nat, fds : Tables, in : Nat, out : Nat, got : Nat, put : Nat]

Types ==
  /\ shellFds \in Tables
  /\ pc \in {"prompt", "stage", "piped", "wait", "exited"}
  /\ line \in Lines \cup {Empty}
  /\ local \in [idx : Nat, in : Nat, pid : Nat, stdio : Object \X Object]
  /\ proc \in [Children -> Process]
  /\ fill \in Seq(Nat)
  /\ lines \in 0 .. MaxLines

\* The shell's standard descriptors are never a pipe.
StandardFds ==
  pc # "exited" => /\ 0 .. 2 \subseteq DOMAIN shellFds
                   /\ shellFds[0] \in {Tty, InFile}
                   /\ shellFds[1] \in {Tty, OutFile}
                   /\ shellFds[2] = Tty

IsEnd(object) == object.at \in {"read", "write"}

\* Of the pipes there are, the shell has every read end, and a write end only
\* between fork and close: that of the last pipe, once.
PipeEnds ==
  /\ \A d \in DOMAIN shellFds :
       /\ IsEnd(shellFds[d]) => shellFds[d].pipe \in DOMAIN fill
       /\ shellFds[d].at = "write" => pc = "piped" /\ shellFds[d].pipe = Len(fill)
  /\ \A d, e \in DOMAIN shellFds :
       shellFds[d].at = "write" /\ shellFds[e].at = "write" => d = e
  /\ pc = "piped" => /\ fill # <<>>
                     /\ \E d \in DOMAIN shellFds : shellFds[d] = Wr(Len(fill))
  /\ pc # "exited" =>
       \A k \in DOMAIN fill : \E d \in DOMAIN shellFds : shellFds[d] = Rd(k)

\* Where run is in its line, and where the next command will read.
Position ==
  /\ pc \in {"stage", "piped"} => line \in Lines /\ local.idx \in 1 .. Len(line.cmds)
  /\ pc = "piped" => local.idx < Len(line.cmds)
  /\ pc = "stage" =>
       IF local.idx = 1 THEN local.in = 0
       ELSE /\ fill # <<>> /\ local.in \in DOMAIN shellFds
            /\ shellFds[local.in] = Rd(Len(fill))
  /\ pc \in {"stage", "piped", "wait"} => local.stdio = <<shellFds[0], shellFds[1]>>
  /\ pc = "wait" => local.pid \in Children

\* What a living child has open.
ChildTable(p) ==
  LET fds == proc[p].fds
  IN /\ 0 .. 2 \subseteq DOMAIN fds
     /\ \A d \in DOMAIN fds :
          /\ IsEnd(fds[d]) => fds[d].pipe \in DOMAIN fill
          /\ fds[d].at = "write" => fds[d].pipe = proc[p].pipe
     /\ proc[p].life = "born" =>
          /\ proc[p].in \in DOMAIN fds \ {1, 2}
          /\ proc[p].out \in DOMAIN fds \ {0, 2}
          /\ proc[p].in # proc[p].out

FdInv == /\ Types /\ StandardFds /\ PipeEnds /\ Position
         /\ \A p \in Live : ChildTable(p)

-----------------------------------------------------------------------------
(* What the shell's calls do to its table.                                  *)

LEMMA LineTypes ==
  ASSUME NEW l \in Lines
  PROVE  /\ l.cmds \in Seq(Commands) /\ Len(l.cmds) \in Nat \ {0}
         /\ l.in \in {"no", "file", "missing"} /\ l.out \in BOOLEAN
<1>1. l \in Line /\ l.cmds # <<>>
  BY LinesAssumption
<1>2. l.cmds \in Seq(Commands)
  BY <1>1 DEF Line, Commands
<1> QED BY <1>1, <1>2, EmptySeq DEF Line

\* The two ends of a new pipe.
NewIn == Lowest(shellFds)
WithIn == With(shellFds, NewIn, Rd(Len(fill) + 1))
NewOut == Lowest(WithIn)
Opened == With(WithIn, NewOut, Wr(Len(fill) + 1))

LEMMA OpenedFacts ==
  ASSUME Types, StandardFds, pc # "exited"
  PROVE  /\ Opened \in Tables
         /\ NewIn \in Nat /\ NewOut \in Nat /\ NewIn # NewOut
         /\ NewIn \notin 0 .. 2 /\ NewOut \notin 0 .. 2
         /\ NewIn \notin DOMAIN shellFds /\ NewOut \notin DOMAIN shellFds
         /\ DOMAIN Opened = DOMAIN shellFds \cup {NewIn, NewOut}
         /\ Opened[NewIn] = Rd(Len(fill) + 1)
         /\ Opened[NewOut] = Wr(Len(fill) + 1)
         /\ \A d \in DOMAIN shellFds : Opened[d] = shellFds[d]
<1> DEFINE k == Len(fill) + 1
<1>1. shellFds \in Tables /\ k \in Nat /\ 0 .. 2 \subseteq DOMAIN shellFds
  BY LenProperties DEF Types, StandardFds
<1>2. Rd(k) \in Object /\ Wr(k) \in Object
  BY <1>1, ObjectTypes
<1>3. NewIn \in Nat /\ NewIn \notin DOMAIN shellFds
  BY <1>1, LowestFree DEF NewIn
<1>d. WithIn = With(shellFds, NewIn, Rd(k)) /\ Opened = With(WithIn, NewOut, Wr(k))
  BY DEF WithIn, Opened
<1> HIDE DEF k
<1>4. /\ WithIn \in Tables /\ DOMAIN WithIn = DOMAIN shellFds \cup {NewIn}
      /\ WithIn[NewIn] = Rd(k)
      /\ \A d \in DOMAIN shellFds : d # NewIn => WithIn[d] = shellFds[d]
  <2> DEFINE one == With(shellFds, NewIn, Rd(k))
  <2>1. /\ one \in Tables /\ DOMAIN one = DOMAIN shellFds \cup {NewIn}
        /\ one[NewIn] = Rd(k)
        /\ \A d \in DOMAIN shellFds : d # NewIn => one[d] = shellFds[d]
    BY <1>1, <1>2, <1>3, WithFacts
  <2> QED BY <1>d, <2>1
<1>5. NewOut \in Nat /\ NewOut \notin DOMAIN WithIn
  BY <1>4, LowestFree DEF NewOut
<1>6. /\ Opened \in Tables /\ DOMAIN Opened = DOMAIN WithIn \cup {NewOut}
      /\ Opened[NewOut] = Wr(k)
      /\ \A d \in DOMAIN WithIn : d # NewOut => Opened[d] = WithIn[d]
  <2> DEFINE two == With(WithIn, NewOut, Wr(k))
  <2>1. /\ two \in Tables /\ DOMAIN two = DOMAIN WithIn \cup {NewOut}
        /\ two[NewOut] = Wr(k)
        /\ \A d \in DOMAIN WithIn : d # NewOut => two[d] = WithIn[d]
    BY <1>2, <1>4, <1>5, WithFacts
  <2> QED BY <1>d, <2>1
<1> QED BY <1>1, <1>3, <1>4, <1>5, <1>6 DEF k

LEMMA RedirectedFacts ==
  ASSUME Types, StandardFds, pc # "exited"
  PROVE  /\ Redirected \in Tables
         /\ stdin_copy \in Nat \ DOMAIN shellFds
         /\ stdout_copy \in Nat \ DOMAIN shellFds
         /\ stdin_copy # stdout_copy
         /\ DOMAIN Redirected = DOMAIN shellFds \cup {stdin_copy, stdout_copy}
         /\ Redirected[stdin_copy] = shellFds[0]
         /\ Redirected[stdout_copy] = shellFds[1]
         /\ Redirected[0] = IF line.in = "file" THEN InFile ELSE shellFds[0]
         /\ Redirected[1] = IF line.out THEN OutFile ELSE shellFds[1]
         /\ \A d \in DOMAIN shellFds \ {0, 1} : Redirected[d] = shellFds[d]
<1> DEFINE one == Dup(shellFds, 0)
           a == stdin_copy
           b == stdout_copy
<1>1. /\ shellFds \in Tables /\ 0 .. 2 \subseteq DOMAIN shellFds
      /\ shellFds[0] \in Object /\ shellFds[1] \in Object
  BY TableFacts DEF Types, StandardFds
<1>2. a \in Nat /\ a \notin DOMAIN shellFds
  BY <1>1, LowestFree DEF stdin_copy
<1>3. /\ one \in Tables /\ DOMAIN one = DOMAIN shellFds \cup {a}
      /\ one[a] = shellFds[0] /\ \A d \in DOMAIN shellFds : one[d] = shellFds[d]
  <2>1. 0 \in DOMAIN shellFds
    BY <1>1
  <2> QED BY <1>1, <2>1, DupFacts DEF stdin_copy
<1>4. b = Lowest(one) /\ Copied = Dup(one, 1)
  BY DEF Copied, stdout_copy
<1> HIDE DEF one, a, b
<1>5. b \in Nat /\ b \notin DOMAIN one
  BY <1>3, <1>4, LowestFree
<1>6. /\ Copied \in Tables /\ DOMAIN Copied = DOMAIN one \cup {b}
      /\ Copied[b] = one[1] /\ \A d \in DOMAIN one : Copied[d] = one[d]
  <2>1. 1 \in DOMAIN one
    BY <1>1, <1>3
  <2> QED BY <1>3, <1>4, <2>1, DupFacts
<1>7. /\ DOMAIN Copied = DOMAIN shellFds \cup {a, b} /\ a # b
      /\ Copied[a] = shellFds[0] /\ Copied[b] = shellFds[1]
      /\ \A d \in DOMAIN shellFds : Copied[d] = shellFds[d]
  BY <1>1, <1>2, <1>3, <1>5, <1>6
<1>8. DOMAIN Redirected = DOMAIN Copied
  BY DEF Redirected
<1>9. \A d \in DOMAIN Copied :
        Redirected[d] = IF d = 0 /\ line.in = "file" THEN InFile
                        ELSE IF d = 1 /\ line.out THEN OutFile ELSE Copied[d]
  BY DEF Redirected
<1>10. Redirected \in Tables
  <2>1. \A d \in DOMAIN Copied : Redirected[d] \in Object
    BY <1>6, <1>9, TableFacts, ObjectTypes
  <2>2. Redirected = [d \in DOMAIN Redirected |-> Redirected[d]]
    BY DEF Redirected
  <2>3. Redirected \in [DOMAIN Copied -> Object]
    BY <1>8, <2>1, <2>2
  <2> QED BY <1>6, <2>3, TableFacts DEF Tables
<1>11. 0 \in DOMAIN shellFds /\ 1 \in DOMAIN shellFds
  BY <1>1
<1>12. a # 0 /\ a # 1 /\ b # 0 /\ b # 1
  BY <1>2, <1>3, <1>5, <1>11
<1>13. /\ Redirected[a] = shellFds[0] /\ Redirected[b] = shellFds[1]
       /\ \A d \in DOMAIN shellFds \ {0, 1} : Redirected[d] = shellFds[d]
  BY <1>7, <1>9, <1>12
<1>14. /\ Redirected[0] = IF line.in = "file" THEN InFile ELSE shellFds[0]
       /\ Redirected[1] = IF line.out THEN OutFile ELSE shellFds[1]
  BY <1>7, <1>9, <1>11
<1> QED BY <1>2, <1>3, <1>5, <1>7, <1>8, <1>10, <1>13, <1>14 DEF a, b

\* Everything is as it was before the line, but for the copies that stay open.
LEMMA RestoredFacts ==
  ASSUME Types, StandardFds, pc # "exited", line \in Lines
  PROVE  /\ Restored \in Tables
         /\ DOMAIN Restored = DOMAIN shellFds
                              \cup {d \in {stdin_copy} : line.in = "no"}
                              \cup {d \in {stdout_copy} : ~line.out}
         /\ \A d \in DOMAIN shellFds : Restored[d] = shellFds[d]
         /\ line.in = "no" => Restored[stdin_copy] = shellFds[0]
         /\ ~line.out => Restored[stdout_copy] = shellFds[1]
<1> DEFINE a == stdin_copy
           b == stdout_copy
           back == With(Redirected, 0, Redirected[a])
           in == IF line.in = "no" THEN Redirected ELSE Close(back, a)
           forth == With(in, 1, Redirected[b])
<1>1. /\ Redirected \in Tables
      /\ a \in Nat /\ b \in Nat /\ a \notin DOMAIN shellFds /\ b \notin DOMAIN shellFds
      /\ a # b /\ DOMAIN Redirected = DOMAIN shellFds \cup {a, b}
      /\ Redirected[a] = shellFds[0] /\ Redirected[b] = shellFds[1]
      /\ line.in = "no" => Redirected[0] = shellFds[0]
      /\ ~line.out => Redirected[1] = shellFds[1]
      /\ \A d \in DOMAIN shellFds \ {0, 1} : Redirected[d] = shellFds[d]
  BY RedirectedFacts
<1>2. 0 \in DOMAIN shellFds /\ 1 \in DOMAIN shellFds
  BY DEF StandardFds
<1>3. shellFds[0] \in Object /\ shellFds[1] \in Object
  BY <1>2, TableFacts DEF Types
<1> HIDE DEF a, b
<1>4. /\ back \in Tables /\ DOMAIN back = DOMAIN Redirected
      /\ back[0] = shellFds[0]
      /\ \A d \in DOMAIN Redirected : d # 0 => back[d] = Redirected[d]
  <2>1. /\ back \in Tables /\ DOMAIN back = DOMAIN Redirected \cup {0}
        /\ back[0] = Redirected[a]
        /\ \A d \in DOMAIN Redirected : d # 0 => back[d] = Redirected[d]
    BY <1>1, <1>3, WithFacts
  <2> QED BY <1>1, <1>2, <2>1
<1> HIDE DEF back
<1>5. /\ Close(back, a) \in Tables /\ DOMAIN Close(back, a) = DOMAIN back \ {a}
      /\ \A d \in DOMAIN back : d # a => Close(back, a)[d] = back[d]
  BY <1>1, <1>4, CloseFacts
<1>6. /\ in \in Tables
      /\ DOMAIN in = DOMAIN shellFds \cup {b} \cup {d \in {a} : line.in = "no"}
      /\ in[0] = shellFds[0] /\ in[b] = shellFds[1] /\ in[1] = Redirected[1]
      /\ line.in = "no" => in[a] = shellFds[0]
      /\ \A d \in DOMAIN shellFds \ {0, 1} : in[d] = shellFds[d]
  <2>1. CASE line.in = "no"
    BY <1>1, <2>1
  <2>2. CASE line.in # "no"
    BY <1>1, <1>2, <1>4, <1>5, <2>2
  <2> QED BY <2>1, <2>2
<1>r. Restored = IF ~line.out THEN in ELSE Close(forth, b)
  BY DEF Restored, in, forth, back, a, b
<1> HIDE DEF in
<1>7. /\ forth \in Tables /\ DOMAIN forth = DOMAIN in
      /\ forth[1] = shellFds[1]
      /\ \A d \in DOMAIN in : d # 1 => forth[d] = in[d]
  <2>1. /\ forth \in Tables /\ DOMAIN forth = DOMAIN in \cup {1}
        /\ forth[1] = Redirected[b]
        /\ \A d \in DOMAIN in : d # 1 => forth[d] = in[d]
    <3> DEFINE object == Redirected[b]
    <3>1. in \in Tables /\ object \in Object /\ 1 \in Nat
      BY <1>1, <1>3, <1>6
    <3> HIDE DEF object
    <3>2. /\ With(in, 1, object) \in Tables
          /\ DOMAIN With(in, 1, object) = DOMAIN in \cup {1}
          /\ With(in, 1, object)[1] = object
          /\ \A d \in DOMAIN in : d # 1 => With(in, 1, object)[d] = in[d]
      BY <3>1, WithFacts
    <3> QED BY <3>2 DEF object
  <2> QED BY <1>1, <1>2, <1>6, <2>1
<1> HIDE DEF forth
<1>8. /\ Close(forth, b) \in Tables /\ DOMAIN Close(forth, b) = DOMAIN forth \ {b}
      /\ \A d \in DOMAIN forth : d # b => Close(forth, b)[d] = forth[d]
  BY <1>1, <1>7, CloseFacts
<1>9. /\ Restored \in Tables
      /\ DOMAIN Restored = DOMAIN shellFds \cup {d \in {a} : line.in = "no"}
                           \cup {d \in {b} : ~line.out}
      /\ \A d \in DOMAIN shellFds : Restored[d] = shellFds[d]
      /\ line.in = "no" => Restored[a] = shellFds[0]
      /\ ~line.out => Restored[b] = shellFds[1]
  <2>1. CASE ~line.out
    BY <1>1, <1>2, <1>6, <1>r, <2>1
  <2>2. CASE line.out
    <3>1. Restored = Close(forth, b)
      BY <1>r, <2>2
    <3> QED BY <1>1, <1>2, <1>6, <1>7, <1>8, <2>2, <3>1
  <2> QED BY <2>1, <2>2
<1> QED BY <1>9 DEF a, b

LEMMA MoveFacts ==
  ASSUME NEW t \in Tables, NEW from \in DOMAIN t, NEW to \in Nat
  PROVE  /\ Move(t, from, to) \in Tables
         /\ DOMAIN Move(t, from, to)
              = IF from = to THEN DOMAIN t ELSE (DOMAIN t \cup {to}) \ {from}
         /\ Move(t, from, to)[to] = t[from]
         /\ \A d \in DOMAIN t \ {from, to} : Move(t, from, to)[d] = t[d]
<1>1. from \in Nat /\ t[from] \in Object
  BY TableFacts
<1>2. CASE from = to
  BY <1>2 DEF Move
<1>3. CASE from # to
  <2> DEFINE one == With(t, to, t[from])
  <2>1. /\ one \in Tables /\ DOMAIN one = DOMAIN t \cup {to} /\ one[to] = t[from]
        /\ \A d \in DOMAIN t : d # to => one[d] = t[d]
    BY <1>1, WithFacts
  <2>2. Move(t, from, to) = Close(one, from)
    BY <1>3 DEF Move
  <2> HIDE DEF one
  <2>3. /\ Close(one, from) \in Tables /\ DOMAIN Close(one, from) = DOMAIN one \ {from}
        /\ \A d \in DOMAIN one : d # from => Close(one, from)[d] = one[d]
    BY <1>1, <2>1, CloseFacts
  <2> QED BY <1>3, <2>1, <2>2, <2>3
<1> QED BY <1>2, <1>3

-----------------------------------------------------------------------------
(* FdInv is inductive: one lemma for each action.                           *)

LEMMA NoProcType == Closed \in Tables /\ NoProc \in Process
<1>1. Closed \in Tables
  <2>1. IsFiniteSet({}) /\ Closed \in [{} -> Object]
    BY FS_EmptySet DEF Closed
  <2> QED BY <2>1 DEF Tables
<1> QED BY <1>1 DEF NoProc, Process, Commands

Forked(p, table, fd_in, fd_out, pipe) ==
  /\ proc[p].life = "none" /\ local' = [local EXCEPT !.pid = p]
  /\ \A q \in Children \ {p} : proc'[q] = proc[q]
  /\ proc'[p].life = "born" /\ proc'[p].line = lines
  /\ proc'[p].idx = local.idx /\ proc'[p].pipe = pipe
  /\ proc'[p].fds = table /\ proc'[p].in = fd_in /\ proc'[p].out = fd_out
  /\ proc'[p].got = 0 /\ proc'[p].put = 0

\* The process made by fork() is a new one, and holds what it was given.
LEMMA ForkFacts ==
  ASSUME Types, line \in Lines, local.idx \in 1 .. Len(line.cmds),
         NEW table \in Tables, NEW fd_in \in Nat, NEW fd_out \in Nat, NEW pipe \in Nat,
         Fork(table, fd_in, fd_out, pipe)
  PROVE  /\ proc' \in [Children -> Process]
         /\ \E p \in Children : Forked(p, table, fd_in, fd_out, pipe)
<1> DEFINE rest == {line.cmds[i] : i \in local.idx + 1 .. Len(line.cmds)}
           Made == [NoProc EXCEPT !.life = "born", !.cmd = Cmd, !.line = lines,
                                  !.idx = local.idx, !.rest = rest, !.pipe = pipe,
                                  !.fds = table, !.in = fd_in, !.out = fd_out]
<1>1. PICK p \in Free : /\ proc' = [proc EXCEPT ![p] = Made]
                        /\ local' = [local EXCEPT !.pid = p]
  BY DEF Fork
<1>2. /\ Made.life = "born" /\ Made.line = lines /\ Made.idx = local.idx
      /\ Made.pipe = pipe /\ Made.fds = table /\ Made.in = fd_in /\ Made.out = fd_out
      /\ Made.got = 0 /\ Made.put = 0
  BY DEF NoProc
<1>3. Made \in Process
  <2>1. line.cmds \in Seq(Commands) /\ Len(line.cmds) \in Nat
    BY LineTypes
  <2>2. Cmd \in Commands
    BY <2>1, ElementOfSeq DEF Cmd
  <2>3. \A i \in local.idx + 1 .. Len(line.cmds) : line.cmds[i] \in Commands
    BY <2>1, ElementOfSeq
  <2>4. rest \in SUBSET Commands
    BY <2>3
  <2>5. lines \in Nat /\ local.idx \in Nat
    BY <2>1, SizeAssumption DEF Types
  <2> HIDE DEF rest
  <2> QED BY NoProcType, <2>2, <2>4, <2>5 DEF Process
<1> HIDE DEF Made
<1>4. p \in Children /\ proc[p].life = "none" /\ proc' = [proc EXCEPT ![p] = Made]
  BY <1>1 DEF Free
<1>5. proc' \in [Children -> Process] /\ proc'[p] = Made
      /\ \A q \in Children \ {p} : proc'[q] = proc[q]
  BY <1>3, <1>4 DEF Types
<1>6. Forked(p, table, fd_in, fd_out, pipe)
  BY <1>1, <1>2, <1>4, <1>5 DEF Forked
<1> QED BY <1>4, <1>5, <1>6

LEMMA ChildKeeps ==
  ASSUME NEW p \in Children, ChildTable(p), proc'[p] = proc[p],
         DOMAIN fill \subseteq DOMAIN fill'
  PROVE  ChildTable(p)'
BY DEF ChildTable

\* A fresh child with a copy of a table of the shell's.
LEMMA ChildBorn ==
  ASSUME NEW p \in Children, Types', proc'[p].life = "born",
         0 .. 2 \subseteq DOMAIN proc'[p].fds,
         \A d \in DOMAIN proc'[p].fds :
           /\ IsEnd(proc'[p].fds[d]) => proc'[p].fds[d].pipe \in DOMAIN fill'
           /\ proc'[p].fds[d].at = "write" => proc'[p].fds[d].pipe = proc'[p].pipe,
         proc'[p].in \in DOMAIN proc'[p].fds \ {1, 2},
         proc'[p].out \in DOMAIN proc'[p].fds \ {0, 2},
         proc'[p].in # proc'[p].out
  PROVE  ChildTable(p)'
BY DEF ChildTable, IsEnd

LEMMA FdInvInit == Init => FdInv
<1> SUFFICES ASSUME Init PROVE FdInv
  OBVIOUS
<1> USE DEF Init
<1>1. shellFds \in Tables
  <2>1. IsFiniteSet(0 .. 2)
    <3>1. \A n \in Nat : IsFiniteSet(0 .. n)
      BY FS_Interval
    <3> QED BY <3>1
  <2>2. [d \in 0 .. 2 |-> Tty] \in [0 .. 2 -> Object]
    BY ObjectTypes
  <2>3. 0 .. 2 \in SUBSET Nat
    OBVIOUS
  <2> QED BY <2>1, <2>2, <2>3 DEF Tables
<1>2. NoProc \in Process
  BY NoProcType
<1>3. Types
  <2>1. fill \in Seq(Nat) /\ lines \in 0 .. MaxLines
    BY SizeAssumption
  <2>2. local \in [idx : Nat, in : Nat, pid : Nat, stdio : Object \X Object]
    BY ObjectTypes DEF NoLocal
  <2> QED BY <1>1, <1>2, <2>1, <2>2 DEF Types
<1>4. StandardFds /\ PipeEnds /\ Position
  BY DEF StandardFds, PipeEnds, Position, IsEnd, Tty
<1>5. Live = {}
  BY DEF Live, NoProc
<1> QED BY <1>3, <1>4, <1>5 DEF FdInv

LEMMA FdInvReadLine == ASSUME FdInv, ReadLine PROVE FdInv'
<1>0. /\ Types /\ StandardFds /\ PipeEnds /\ Position /\ \A p \in Live : ChildTable(p)
      /\ pc = "prompt" /\ pc' = "stage" /\ lines < MaxLines /\ line' \in Lines
      /\ lines' = lines + 1 /\ UNCHANGED <<shellFds, proc, fill>>
  BY DEF FdInv, ReadLine
<1>1. local' = [idx |-> 1, in |-> 0, pid |-> 0, stdio |-> <<shellFds[0], shellFds[1]>>]
  BY DEF ReadLine, NoLocal
<1>2. line' \in Lines /\ lines' \in 0 .. MaxLines
  BY <1>0, SizeAssumption DEF Types
<1>t. Types'
  <2>1. shellFds[0] \in Object /\ shellFds[1] \in Object
    BY <1>0, TableFacts DEF Types, StandardFds
  <2>2. <<shellFds[0], shellFds[1]>> \in Object \X Object
    BY <2>1
  <2>3. local' \in [idx : Nat, in : Nat, pid : Nat, stdio : Object \X Object]
    BY <1>1, <2>2
  <2> QED BY <1>0, <1>2, <2>3 DEF Types
<1>3. StandardFds' /\ PipeEnds'
  BY <1>0 DEF StandardFds, PipeEnds
<1>4. Position'
  <2>1. Len(line'.cmds) \in Nat \ {0}
    BY <1>2, LineTypes
  <2>2. local'.idx = 1 /\ local'.in = 0 /\ local'.stdio = <<shellFds[0], shellFds[1]>>
    BY <1>1
  <2>3. 1 \in 1 .. Len(line'.cmds) /\ line' \in Lines
    BY <1>2, <2>1
  <2> QED BY <1>0, <2>2, <2>3 DEF Position
<1>5. ASSUME NEW p \in Live' PROVE ChildTable(p)'
  BY <1>0, <1>5, ChildKeeps DEF Live
<1> QED BY <1>t, <1>3, <1>4, <1>5 DEF FdInv

LEMMA FdInvStage == ASSUME FdInv, Stage PROVE FdInv'
<1> DEFINE k == Len(fill) + 1
           r == NewIn
           w == NewOut
<1>1. /\ pc = "stage" /\ pc' = "piped" /\ ~IsLast /\ UNCHANGED <<line, lines>>
      /\ shellFds' = Opened /\ fill' = Append(fill, 0)
      /\ IF Cmd \in Programs THEN Fork(Opened, local.in, w, k)
         ELSE UNCHANGED <<proc, local>>
  BY DEF Stage, Opened, WithIn, NewIn, NewOut
<1>2. /\ Types /\ StandardFds /\ PipeEnds /\ Position
      /\ \A p \in Live : ChildTable(p)
  BY DEF FdInv
<1>3. /\ fill \in Seq(Nat) /\ Len(fill) \in Nat /\ DOMAIN fill = 1 .. Len(fill)
      /\ fill' \in Seq(Nat) /\ Len(fill') = k /\ DOMAIN fill' = 1 .. k /\ k \in Nat
  BY <1>1, <1>2, LenProperties, AppendProperties DEF Types
<1>4. /\ Opened \in Tables
      /\ r \in Nat /\ w \in Nat /\ r # w /\ r \notin 0 .. 2 /\ w \notin 0 .. 2
      /\ r \notin DOMAIN shellFds /\ w \notin DOMAIN shellFds
      /\ DOMAIN Opened = DOMAIN shellFds \cup {r, w}
      /\ Opened[r] = Rd(k) /\ Opened[w] = Wr(k)
      /\ \A d \in DOMAIN shellFds : Opened[d] = shellFds[d]
  BY <1>1, <1>2, OpenedFacts
<1> HIDE DEF r, w
<1>5. line \in Lines /\ local.idx \in 1 .. Len(line.cmds) /\ local.in \in Nat
      /\ Len(line.cmds) \in Nat
  BY <1>1, <1>2, LineTypes DEF Position, Types
<1>6. /\ proc' \in [Children -> Process]
      /\ local' \in [idx : Nat, in : Nat, pid : Nat, stdio : Object \X Object]
      /\ local'.idx = local.idx /\ local'.stdio = local.stdio
      /\ \A q \in Children :
           \/ proc'[q] = proc[q]
           \/ /\ proc'[q].life = "born" /\ proc'[q].pipe = k
              /\ proc'[q].fds = Opened /\ proc'[q].in = local.in /\ proc'[q].out = w
  <2>1. CASE Cmd \in Programs
    <3>1. Fork(Opened, local.in, w, k) /\ w \in Nat
      BY <1>1, <1>4, <2>1
    <3> HIDE DEF k
    <3>2. /\ proc' \in [Children -> Process]
          /\ \E p \in Children : Forked(p, Opened, local.in, w, k)
      BY <1>2, <1>3, <1>4, <1>5, <3>1, ForkFacts
    <3>3. \A p \in Children : p \in Nat
      BY ChildrenAssumption
    <3> QED BY <1>2, <3>2, <3>3 DEF Types, Forked
  <2>2. CASE Cmd \notin Programs
    BY <1>1, <1>2, <2>2 DEF Types
  <2> QED BY <2>1, <2>2
<1>7. Types'
  BY <1>1, <1>2, <1>3, <1>4, <1>6 DEF Types
<1>8. StandardFds'
  BY <1>1, <1>2, <1>4 DEF StandardFds
<1>9. PipeEnds'
  <2>1. \A d \in DOMAIN shellFds : shellFds[d].at # "write"
    BY <1>1, <1>2 DEF PipeEnds
  <2>2. DOMAIN shellFds' = DOMAIN shellFds \cup {r, w}
        /\ shellFds'[r] = Rd(k) /\ shellFds'[w] = Wr(k)
        /\ \A d \in DOMAIN shellFds : shellFds'[d] = shellFds[d]
    BY <1>1, <1>4
  <2>3. \A d \in DOMAIN shellFds' : shellFds'[d].at = "write" => d = w
    BY <2>1, <2>2 DEF Rd
  <2>4. \A d \in DOMAIN shellFds' :
          IsEnd(shellFds'[d]) => shellFds'[d].pipe \in DOMAIN fill'
    BY <1>2, <1>3, <2>2 DEF PipeEnds, Rd, Wr
  <2>5. shellFds'[w].pipe = Len(fill') /\ shellFds'[w] = Wr(Len(fill'))
    BY <1>3, <2>2 DEF Wr
  <2>6. \A j \in DOMAIN fill' : \E d \in DOMAIN shellFds' : shellFds'[d] = Rd(j)
    <3>1. \A j \in DOMAIN fill : \E d \in DOMAIN shellFds : shellFds[d] = Rd(j)
      BY <1>1, <1>2 DEF PipeEnds
    <3>2. \A j \in DOMAIN fill : \E d \in DOMAIN shellFds' : shellFds'[d] = Rd(j)
      BY <2>2, <3>1
    <3>3. \A j \in DOMAIN fill' : j \in DOMAIN fill \/ j = k
      BY <1>3
    <3> QED BY <2>2, <3>2, <3>3
  <2>7. fill' # <<>>
    BY <1>1, <1>3, AppendProperties
  <2> QED BY <1>1, <2>2, <2>3, <2>4, <2>5, <2>6, <2>7 DEF PipeEnds, IsEnd
<1>10. Position'
  <2>1. shellFds'[0] = shellFds[0] /\ shellFds'[1] = shellFds[1]
    BY <1>1, <1>2, <1>4 DEF StandardFds
  <2> QED BY <1>1, <1>2, <1>5, <1>6, <2>1 DEF Position, IsLast
<1>11. ASSUME NEW p \in Live' PROVE ChildTable(p)'
  <2>1. p \in Children /\ DOMAIN fill \subseteq DOMAIN fill'
    BY <1>3, <1>11 DEF Live
  <2>2. CASE proc'[p] = proc[p]
    BY <1>2, <1>11, <2>1, <2>2, ChildKeeps DEF Live
  <2>3. CASE /\ proc'[p].life = "born" /\ proc'[p].pipe = k
             /\ proc'[p].fds = Opened /\ proc'[p].in = local.in /\ proc'[p].out = w
    <3>1. 0 .. 2 \subseteq DOMAIN shellFds
      BY <1>1, <1>2 DEF StandardFds
    <3>2. \A d \in DOMAIN shellFds' :
            /\ IsEnd(shellFds'[d]) => shellFds'[d].pipe \in DOMAIN fill'
            /\ shellFds'[d].at = "write" => shellFds'[d].pipe = k
      BY <1>3, <1>9 DEF PipeEnds, IsEnd
    <3>3. local.in \in DOMAIN shellFds \ {1, 2}
      <4>1. CASE local.idx = 1
        BY <1>1, <1>2, <3>1, <4>1 DEF Position
      <4>2. CASE local.idx # 1
        BY <1>1, <1>2, <4>2 DEF Position, StandardFds, Rd, Tty, OutFile
      <4> QED BY <4>1, <4>2
    <3> HIDE DEF k
    <3>4. p \in Children /\ 0 .. 2 \subseteq DOMAIN proc'[p].fds
      BY <1>4, <2>1, <2>3, <3>1
    <3>5. \A d \in DOMAIN proc'[p].fds :
            /\ IsEnd(proc'[p].fds[d]) => proc'[p].fds[d].pipe \in DOMAIN fill'
            /\ proc'[p].fds[d].at = "write" => proc'[p].fds[d].pipe = proc'[p].pipe
      BY <1>1, <2>3, <3>2
    <3>6. /\ proc'[p].in \in DOMAIN proc'[p].fds \ {1, 2}
          /\ proc'[p].out \in DOMAIN proc'[p].fds \ {0, 2}
          /\ proc'[p].in # proc'[p].out
      BY <1>4, <2>3, <3>3
    <3> QED BY <1>7, <2>3, <3>4, <3>5, <3>6, ChildBorn
  <2> QED BY <1>6, <2>1, <2>2, <2>3
<1> QED BY <1>7, <1>8, <1>9, <1>10, <1>11 DEF FdInv

\* The ends of the pipe made last are found where Stage put them.
LEMMA PipeFdFacts ==
  ASSUME PipeEnds, pc = "piped"
  PROVE  /\ PIPE_IN_FD \in DOMAIN shellFds /\ shellFds[PIPE_IN_FD] = Rd(Len(fill))
         /\ PIPE_OUT_FD \in DOMAIN shellFds /\ shellFds[PIPE_OUT_FD] = Wr(Len(fill))
<1>1. \E d \in DOMAIN shellFds : shellFds[d] = Wr(Len(fill))
  BY DEF PipeEnds
<1>2. Len(fill) \in DOMAIN fill
  BY <1>1 DEF PipeEnds, IsEnd, Wr
<1>3. \E d \in DOMAIN shellFds : shellFds[d] = Rd(Len(fill))
  BY <1>2 DEF PipeEnds
<1> QED BY <1>1, <1>3 DEF PIPE_IN_FD, PIPE_OUT_FD, pipe_fd

LEMMA FdInvCloseWriteEnd == ASSUME FdInv, CloseWriteEnd PROVE FdInv'
<1> DEFINE i == PIPE_IN_FD
           o == PIPE_OUT_FD
<1>1. /\ pc = "piped" /\ pc' = "stage" /\ UNCHANGED <<line, proc, fill, lines>>
      /\ shellFds' = Close(shellFds, o)
      /\ local' = [local EXCEPT !.idx = @ + 1, !.in = i]
  BY DEF CloseWriteEnd, NextStage
<1>2. /\ Types /\ StandardFds /\ PipeEnds /\ Position
      /\ \A p \in Live : ChildTable(p)
  BY DEF FdInv
<1>3. /\ i \in DOMAIN shellFds /\ shellFds[i] = Rd(Len(fill))
      /\ o \in DOMAIN shellFds /\ shellFds[o] = Wr(Len(fill))
  BY <1>1, <1>2, PipeFdFacts
<1> HIDE DEF i, o
<1>4. /\ i \in Nat /\ o \in Nat /\ i # o /\ o \notin 0 .. 2
  <2>1. shellFds \in Tables
    BY <1>2 DEF Types
  <2>2. i \in Nat /\ o \in Nat
    BY <1>3, <2>1, TableFacts
  <2> QED BY <1>1, <1>2, <1>3, <2>2 DEF StandardFds, Rd, Wr, Tty, InFile, OutFile
<1>5. /\ shellFds' \in Tables /\ DOMAIN shellFds' = DOMAIN shellFds \ {o}
      /\ \A d \in DOMAIN shellFds : d # o => shellFds'[d] = shellFds[d]
  <2>1. shellFds \in Tables
    BY <1>2 DEF Types
  <2> QED BY <1>1, <1>4, <2>1, CloseFacts
<1>6. /\ line \in Lines /\ local.idx \in 1 .. Len(line.cmds) /\ local.idx < Len(line.cmds)
      /\ Len(line.cmds) \in Nat
      /\ local'.idx = local.idx + 1 /\ local'.in = i /\ local'.stdio = local.stdio
      /\ local' \in [idx : Nat, in : Nat, pid : Nat, stdio : Object \X Object]
  <2>1. /\ line \in Lines /\ local.idx \in 1 .. Len(line.cmds)
        /\ local.idx < Len(line.cmds) /\ Len(line.cmds) \in Nat
    BY <1>1, <1>2, LineTypes DEF Position
  <2>2. local \in [idx : Nat, in : Nat, pid : Nat, stdio : Object \X Object]
    BY <1>2 DEF Types
  <2>3. local' \in [idx : Nat, in : Nat, pid : Nat, stdio : Object \X Object]
    <3>1. local.idx + 1 \in Nat
      BY <2>2
    <3>2. local' = [local EXCEPT !.idx = local.idx + 1, !.in = i]
      BY <1>1, <2>2
    <3> DEFINE n == local.idx + 1
    <3> HIDE DEF n
    <3>3. n \in Nat /\ local' = [local EXCEPT !.idx = n, !.in = i]
      BY <3>1, <3>2 DEF n
    <3> QED BY <1>4, <2>2, <3>3
  <2>4. /\ local'.idx = local.idx + 1 /\ local'.in = i /\ local'.stdio = local.stdio
    BY <1>1, <2>2
  <2> QED BY <2>1, <2>3, <2>4
<1>7. Types'
  BY <1>1, <1>2, <1>5, <1>6 DEF Types
<1>8. StandardFds'
  BY <1>1, <1>2, <1>4, <1>5 DEF StandardFds
<1>9. PipeEnds'
  <2>1. \A d \in DOMAIN shellFds : shellFds[d].at = "write" => d = o
    BY <1>2, <1>3 DEF PipeEnds, Wr
  <2>2. \A d \in DOMAIN shellFds' : d \in DOMAIN shellFds /\ shellFds'[d] = shellFds[d]
                                    /\ shellFds[d].at # "write"
    BY <1>5, <2>1
  <2>3. \A k \in DOMAIN fill : \E d \in DOMAIN shellFds' : shellFds'[d] = Rd(k)
    <3>1. \A k \in DOMAIN fill : \E d \in DOMAIN shellFds : shellFds[d] = Rd(k)
      BY <1>1, <1>2 DEF PipeEnds
    <3>2. \A d \in DOMAIN shellFds, k \in DOMAIN fill : shellFds[d] = Rd(k) => d # o
      BY <1>3 DEF Rd, Wr
    <3> QED BY <1>5, <3>1, <3>2
  <2> QED BY <1>1, <1>2, <2>2, <2>3 DEF PipeEnds, IsEnd
<1>10. Position'
  <2>1. shellFds'[0] = shellFds[0] /\ shellFds'[1] = shellFds[1]
    BY <1>1, <1>2, <1>4, <1>5 DEF StandardFds
  <2>2. fill # <<>>
    BY <1>1, <1>2 DEF PipeEnds
  <2>3. i \in DOMAIN shellFds' /\ shellFds'[i] = Rd(Len(fill))
    BY <1>3, <1>4, <1>5
  <2> QED BY <1>1, <1>2, <1>6, <2>1, <2>2, <2>3 DEF Position
<1>11. ASSUME NEW p \in Live' PROVE ChildTable(p)'
  BY <1>1, <1>2, <1>11, ChildKeeps DEF Live
<1> QED BY <1>7, <1>8, <1>9, <1>10, <1>11 DEF FdInv

\* What both ways to end a line need of the table they leave.
LEMMA LineEnds ==
  ASSUME Types, StandardFds, PipeEnds, pc = "stage", fill' = fill,
         shellFds' \in Tables, DOMAIN shellFds \subseteq DOMAIN shellFds',
         pc' \in {"prompt", "wait"},
         \A d \in DOMAIN shellFds \ {0, 1} : shellFds'[d] = shellFds[d],
         shellFds'[0] \in {shellFds[0], InFile}, shellFds'[1] \in {shellFds[1], OutFile},
         \A d \in DOMAIN shellFds' \ DOMAIN shellFds : shellFds'[d] \in {shellFds[0], shellFds[1]}
  PROVE  StandardFds' /\ PipeEnds'
<1>1. /\ {0, 1, 2} \subseteq DOMAIN shellFds /\ shellFds[0] \in {Tty, InFile}
      /\ shellFds[1] \in {Tty, OutFile} /\ shellFds[2] = Tty
  BY DEF StandardFds
<1>2. StandardFds'
  BY <1>1 DEF StandardFds
<1>3. \A d \in DOMAIN shellFds : shellFds[d].at # "write"
  BY DEF PipeEnds
<1>4. \A d \in DOMAIN shellFds' : IsEnd(shellFds'[d]) =>
        d \in DOMAIN shellFds /\ shellFds'[d] = shellFds[d]
  BY <1>1 DEF IsEnd, Tty, InFile, OutFile
<1>5. \A k \in DOMAIN fill : \E d \in DOMAIN shellFds' : shellFds'[d] = Rd(k)
  <2>1. \A k \in DOMAIN fill : \E d \in DOMAIN shellFds : shellFds[d] = Rd(k)
    BY DEF PipeEnds
  <2>2. \A d \in DOMAIN shellFds, k \in DOMAIN fill : shellFds[d] = Rd(k) => d \notin {0, 1}
    BY <1>1 DEF Rd, Tty, InFile, OutFile
  <2> QED BY <2>1, <2>2
<1>6. PipeEnds'
  BY <1>3, <1>4, <1>5 DEF PipeEnds, IsEnd
<1> QED BY <1>2, <1>6

LEMMA FdInvLastProgram == ASSUME FdInv, LastProgram PROVE FdInv'
<1>1. /\ pc = "stage" /\ pc' = "wait" /\ UNCHANGED <<line, fill, lines>>
      /\ shellFds' = Restored /\ Fork(Redirected, local.in, 1, 0)
  BY DEF LastProgram
<1>2. /\ Types /\ StandardFds /\ PipeEnds /\ Position
      /\ \A p \in Live : ChildTable(p)
  BY DEF FdInv
<1>3. line \in Lines /\ local.idx \in 1 .. Len(line.cmds) /\ local.in \in Nat
  BY <1>1, <1>2 DEF Position, Types
<1>4. /\ shellFds' \in Tables /\ DOMAIN shellFds \subseteq DOMAIN shellFds'
      /\ \A d \in DOMAIN shellFds : shellFds'[d] = shellFds[d]
      /\ \A d \in DOMAIN shellFds' \ DOMAIN shellFds :
           shellFds'[d] \in {shellFds[0], shellFds[1]}
  BY <1>1, <1>2, <1>3, RestoredFacts
<1>5. 0 \in DOMAIN shellFds /\ 1 \in DOMAIN shellFds /\ 2 \in DOMAIN shellFds
  BY <1>1, <1>2 DEF StandardFds
<1>6. StandardFds' /\ PipeEnds'
  BY <1>1, <1>2, <1>4, <1>5, LineEnds
<1>7. Redirected \in Tables
  BY <1>1, <1>2, RedirectedFacts
<1>8. /\ proc' \in [Children -> Process]
      /\ \E p \in Children : Forked(p, Redirected, local.in, 1, 0)
  BY <1>1, <1>2, <1>3, <1>7, ForkFacts
<1>9. /\ local' \in [idx : Nat, in : Nat, pid : Nat, stdio : Object \X Object]
      /\ local'.stdio = local.stdio /\ local'.pid \in Children
      /\ \A q \in Children :
           \/ proc'[q] = proc[q]
           \/ /\ proc'[q].life = "born" /\ proc'[q].pipe = 0
              /\ proc'[q].fds = Redirected /\ proc'[q].in = local.in /\ proc'[q].out = 1
  <2>1. \A p \in Children : p \in Nat
    BY ChildrenAssumption
  <2> QED BY <1>2, <1>8, <2>1 DEF Types, Forked
<1>10. Types'
  BY <1>1, <1>2, <1>4, <1>8, <1>9 DEF Types
<1>11. Position'
  BY <1>1, <1>2, <1>4, <1>5, <1>9 DEF Position
<1>12. ASSUME NEW p \in Live' PROVE ChildTable(p)'
  <2>1. p \in Children
    BY <1>12 DEF Live
  <2>2. CASE proc'[p] = proc[p]
    BY <1>1, <1>2, <1>12, <2>1, <2>2, ChildKeeps DEF Live
  <2>3. CASE /\ proc'[p].life = "born" /\ proc'[p].pipe = 0
             /\ proc'[p].fds = Redirected /\ proc'[p].in = local.in /\ proc'[p].out = 1
    <3>1. /\ DOMAIN shellFds \subseteq DOMAIN Redirected
          /\ \A d \in DOMAIN Redirected :
               \/ d \in DOMAIN shellFds /\ Redirected[d] = shellFds[d]
               \/ Redirected[d] \in {shellFds[0], shellFds[1], InFile, OutFile}
      BY <1>1, <1>2, RedirectedFacts
    <3>2. \A d \in DOMAIN shellFds : /\ shellFds[d].at # "write"
                                     /\ IsEnd(shellFds[d]) => shellFds[d].pipe \in DOMAIN fill
      BY <1>1, <1>2 DEF PipeEnds
    <3>3. \A d \in DOMAIN Redirected :
            /\ Redirected[d].at # "write"
            /\ IsEnd(Redirected[d]) => Redirected[d].pipe \in DOMAIN fill
      BY <1>5, <3>1, <3>2 DEF IsEnd, InFile, OutFile
    <3>4. local.in \in DOMAIN shellFds \ {1, 2}
      <4>1. CASE local.idx = 1
        BY <1>1, <1>2, <1>5, <4>1 DEF Position
      <4>2. CASE local.idx # 1
        BY <1>1, <1>2, <4>2 DEF Position, StandardFds, Rd, Tty, OutFile
      <4> QED BY <4>1, <4>2
    <3>5. 0 .. 2 \subseteq DOMAIN proc'[p].fds
      BY <1>5, <2>3, <3>1
    <3>6. \A d \in DOMAIN proc'[p].fds :
            /\ IsEnd(proc'[p].fds[d]) => proc'[p].fds[d].pipe \in DOMAIN fill'
            /\ proc'[p].fds[d].at = "write" => proc'[p].fds[d].pipe = proc'[p].pipe
      BY <1>1, <2>3, <3>3
    <3>7. /\ proc'[p].in \in DOMAIN proc'[p].fds \ {1, 2}
          /\ proc'[p].out \in DOMAIN proc'[p].fds \ {0, 2}
          /\ proc'[p].in # proc'[p].out
      BY <1>5, <2>3, <3>1, <3>4
    <3> QED BY <1>10, <2>1, <2>3, <3>5, <3>6, <3>7, ChildBorn
  <2> QED BY <1>9, <2>1, <2>2, <2>3
<1> QED BY <1>6, <1>10, <1>11, <1>12 DEF FdInv

LEMMA FdInvLastBuiltin == ASSUME FdInv, LastBuiltin PROVE FdInv'
<1>1. /\ pc = "stage" /\ pc' = "prompt" /\ UNCHANGED <<line, proc, fill, lines>>
      /\ shellFds' = Redirected /\ local' = NoLocal
  BY DEF LastBuiltin
<1>2. /\ Types /\ StandardFds /\ PipeEnds /\ Position
      /\ \A p \in Live : ChildTable(p)
  BY DEF FdInv
<1>3. /\ shellFds' \in Tables /\ DOMAIN shellFds \subseteq DOMAIN shellFds'
      /\ \A d \in DOMAIN shellFds \ {0, 1} : shellFds'[d] = shellFds[d]
      /\ shellFds'[0] \in {shellFds[0], InFile} /\ shellFds'[1] \in {shellFds[1], OutFile}
      /\ \A d \in DOMAIN shellFds' \ DOMAIN shellFds :
           shellFds'[d] \in {shellFds[0], shellFds[1]}
  BY <1>1, <1>2, RedirectedFacts
<1>4. StandardFds' /\ PipeEnds'
  BY <1>1, <1>2, <1>3, LineEnds
<1>5. local' \in [idx : Nat, in : Nat, pid : Nat, stdio : Object \X Object]
  BY <1>1, ObjectTypes DEF NoLocal
<1>6. Types'
  BY <1>1, <1>2, <1>3, <1>5 DEF Types
<1>7. Position'
  BY <1>1 DEF Position
<1>8. ASSUME NEW p \in Live' PROVE ChildTable(p)'
  BY <1>1, <1>2, <1>8, ChildKeeps DEF Live
<1> QED BY <1>4, <1>6, <1>7, <1>8 DEF FdInv

LEMMA FdInvExit == ASSUME FdInv, Exit PROVE FdInv'
<1>1. /\ pc' = "exited" /\ UNCHANGED <<line, local, proc, fill, lines>>
      /\ shellFds' = Closed
  BY DEF Exit
<1>2. /\ Types /\ \A p \in Live : ChildTable(p)
  BY DEF FdInv
<1>3. Types'
  BY <1>1, <1>2, NoProcType DEF Types
<1>4. DOMAIN shellFds' = {}
  BY <1>1 DEF Closed
<1>5. StandardFds' /\ PipeEnds' /\ Position'
  BY <1>1, <1>4 DEF StandardFds, PipeEnds, Position
<1>6. ASSUME NEW p \in Live' PROVE ChildTable(p)'
  BY <1>1, <1>2, <1>6, ChildKeeps DEF Live
<1> QED BY <1>3, <1>5, <1>6 DEF FdInv

LEMMA FdInvWait == ASSUME FdInv, Wait PROVE FdInv'
<1>1. /\ pc = "wait" /\ pc' = "prompt" /\ UNCHANGED <<shellFds, line, fill, lines>>
      /\ local' = NoLocal
      /\ proc' = proc \/ /\ proc[local.pid].life \in {"zombie", "killed"}
                         /\ proc' = [proc EXCEPT ![local.pid].life = "reaped"]
  BY DEF Wait
<1>2. /\ Types /\ StandardFds /\ PipeEnds /\ Position
      /\ \A p \in Live : ChildTable(p)
  BY DEF FdInv
<1>3. local' \in [idx : Nat, in : Nat, pid : Nat, stdio : Object \X Object]
  BY <1>1, ObjectTypes DEF NoLocal
<1>4. Types'
  <2>1. proc' \in [Children -> Process]
    <3>1. \A q \in Process : [q EXCEPT !.life = "reaped"] \in Process
      BY DEF Process
    <3>2. local.pid \in Children
      BY <1>1, <1>2 DEF Position
    <3> QED BY <1>1, <1>2, <3>1, <3>2 DEF Types
  <2> QED BY <1>1, <1>2, <1>3, <2>1 DEF Types
<1>5. StandardFds' /\ PipeEnds' /\ Position'
  BY <1>1, <1>2 DEF StandardFds, PipeEnds, Position
<1>6. ASSUME NEW p \in Live' PROVE ChildTable(p)'
  <2>1. p \in Children /\ proc'[p] = proc[p]
    BY <1>1, <1>2, <1>6 DEF Live, Types, Process
  <2> QED BY <1>1, <1>2, <1>6, <2>1, ChildKeeps DEF Live
<1> QED BY <1>4, <1>5, <1>6 DEF FdInv

\* The table of a child behind its dup2 and close calls.
Executed(p) == Move(Move(proc[p].fds, proc[p].in, 0), proc[p].out, 1)

LEMMA ExecFacts ==
  ASSUME Types, NEW p \in Children, ChildTable(p), proc[p].life = "born"
  PROVE  /\ Executed(p) \in Tables /\ 0 .. 2 \subseteq DOMAIN Executed(p)
         /\ Executed(p)[0] = proc[p].fds[proc[p].in]
         /\ Executed(p)[1] = proc[p].fds[proc[p].out]
         /\ \A d \in DOMAIN Executed(p) :
              \E e \in DOMAIN proc[p].fds : Executed(p)[d] = proc[p].fds[e]
<1> DEFINE t == proc[p].fds
           i == proc[p].in
           o == proc[p].out
           u == Move(t, i, 0)
           v == Move(u, o, 1)
<1>1. /\ t \in Tables /\ 0 \in DOMAIN t /\ 1 \in DOMAIN t /\ 2 \in DOMAIN t
      /\ i \in DOMAIN t /\ i # 1 /\ i # 2 /\ o \in DOMAIN t /\ o # 0 /\ o # 2 /\ i # o
  BY DEF Types, Process, ChildTable
<1>d. Executed(p) = v
  BY DEF Executed
<1> HIDE DEF t, i, o, u, v
<1>2. /\ u \in Tables
      /\ DOMAIN u = IF i = 0 THEN DOMAIN t ELSE (DOMAIN t \cup {0}) \ {i}
      /\ u[0] = t[i] /\ \A d \in DOMAIN t \ {i, 0} : u[d] = t[d]
  BY <1>1, MoveFacts DEF u
<1>3. o \in DOMAIN u /\ u[o] = t[o] /\ 0 \in DOMAIN u /\ 1 \in DOMAIN u /\ 2 \in DOMAIN u
  BY <1>1, <1>2
<1>4. /\ v \in Tables
      /\ DOMAIN v = IF o = 1 THEN DOMAIN u ELSE (DOMAIN u \cup {1}) \ {o}
      /\ v[1] = u[o] /\ \A d \in DOMAIN u \ {o, 1} : v[d] = u[d]
  <2>1. \A to \in Nat :
          /\ Move(u, o, to) \in Tables
          /\ DOMAIN Move(u, o, to) = IF o = to THEN DOMAIN u ELSE (DOMAIN u \cup {to}) \ {o}
          /\ Move(u, o, to)[to] = u[o]
          /\ \A d \in DOMAIN u \ {o, to} : Move(u, o, to)[d] = u[d]
    BY <1>2, <1>3, MoveFacts
  <2> QED BY <2>1 DEF v
<1>5. 0 .. 2 \subseteq DOMAIN v
  BY <1>1, <1>3, <1>4
<1>6. v[0] = t[i] /\ v[1] = t[o]
  BY <1>1, <1>2, <1>3, <1>4
<1>7. \A d \in DOMAIN v : \E e \in DOMAIN t : v[d] = t[e]
  <2>1. \A d \in DOMAIN u : \E e \in DOMAIN t : u[d] = t[e]
    BY <1>1, <1>2
  <2> QED BY <1>3, <1>4, <2>1
<1> QED BY <1>4, <1>5, <1>6, <1>7, <1>d DEF t, i, o

\* A step of a child changes it alone; it lives on with what it had open, has
\* set up its descriptors, or has closed everything.
LEMMA RunFacts ==
  ASSUME FdInv, NEW p \in Children, Run(p)
  PROVE  /\ p \in Live /\ UNCHANGED <<shellFds, pc, line, local, lines>>
         /\ proc' \in [Children -> Process]
         /\ \A q \in Children \ {p} : proc'[q] = proc[q]
         /\ proc'[p].pipe = proc[p].pipe /\ proc'[p].line = proc[p].line
         /\ proc'[p].idx = proc[p].idx
         /\ \/ proc'[p].life \in {"zombie", "killed"}
            \/ /\ proc[p].life = "run" /\ proc'[p].life = "run"
               /\ proc'[p].fds = proc[p].fds
            \/ /\ proc[p].life = "born" /\ proc'[p].life = "run"
               /\ proc'[p].fds = Executed(p)
         /\ fill' \in Seq(Nat) /\ Len(fill') = Len(fill) /\ DOMAIN fill' = DOMAIN fill
<1>1. /\ Types /\ (p \in Live => ChildTable(p))
      /\ UNCHANGED <<shellFds, pc, line, local, lines>>
  BY DEF FdInv, Run
<1>2. proc \in [Children -> Process] /\ fill \in Seq(Nat)
  BY <1>1 DEF Types
<1>3. ASSUME NEW life \in {"zombie", "killed"}, proc' = Ended(p, life)
      PROVE  /\ proc' \in [Children -> Process]
             /\ \A q \in Children \ {p} : proc'[q] = proc[q]
             /\ proc'[p].pipe = proc[p].pipe /\ proc'[p].line = proc[p].line
             /\ proc'[p].idx = proc[p].idx
             /\ proc'[p].life \in {"zombie", "killed"}
  <2> DEFINE e == [proc[p] EXCEPT !.life = life, !.fds = Closed]
  <2>1. proc' = [proc EXCEPT ![p] = e]
    BY <1>2, <1>3 DEF Ended
  <2>2. /\ e \in Process /\ e.pipe = proc[p].pipe /\ e.line = proc[p].line
        /\ e.idx = proc[p].idx /\ e.life = life
    BY <1>2, NoProcType DEF Process
  <2> QED BY <1>2, <2>1, <2>2
<1>4. ASSUME NEW n \in Nat,
             \/ proc' = [proc EXCEPT ![p].got = n] \/ proc' = [proc EXCEPT ![p].put = n]
      PROVE  /\ proc' \in [Children -> Process]
             /\ \A q \in Children \ {p} : proc'[q] = proc[q]
             /\ proc'[p].pipe = proc[p].pipe /\ proc'[p].line = proc[p].line
             /\ proc'[p].idx = proc[p].idx
             /\ proc'[p].life = proc[p].life /\ proc'[p].fds = proc[p].fds
  <2> DEFINE g == [proc[p] EXCEPT !.got = n]
             w == [proc[p] EXCEPT !.put = n]
  <2>1. \A e \in {g, w} : /\ e \in Process /\ e.pipe = proc[p].pipe
                           /\ e.line = proc[p].line /\ e.idx = proc[p].idx
                           /\ e.life = proc[p].life /\ e.fds = proc[p].fds
    BY <1>2 DEF Process
  <2>2. proc' = [proc EXCEPT ![p] = g] \/ proc' = [proc EXCEPT ![p] = w]
    BY <1>2, <1>4
  <2> HIDE DEF g, w
  <2> QED BY <1>2, <2>1, <2>2
<1>5. proc[p].got \in Nat /\ proc[p].put \in Nat
  BY <1>2 DEF Process
<1>6. ASSUME NEW k \in DOMAIN fill, NEW n \in Nat, fill' = [fill EXCEPT ![k] = n]
      PROVE  fill' \in Seq(Nat) /\ Len(fill') = Len(fill) /\ DOMAIN fill' = DOMAIN fill
  BY <1>2, <1>6, ExceptSeq, LenProperties
<1>7. CASE Exec(p)
  <2>1. proc[p].life = "born" /\ fill' = fill /\ p \in Live /\ ChildTable(p)
    BY <1>1, <1>7 DEF Exec, Live
  <2>2. CASE proc[p].cmd = "bad"
    BY <1>1, <1>2, <1>3, <1>7, <2>1, <2>2 DEF Exec
  <2>3. CASE proc[p].cmd # "bad"
    <3> DEFINE e == [proc[p] EXCEPT !.life = "run", !.fds = Executed(p)]
    <3>1. proc' = [proc EXCEPT ![p] = e]
      BY <1>2, <1>7, <2>3 DEF Exec, Executed
    <3>2. Executed(p) \in Tables
      BY <1>1, <2>1, ExecFacts
    <3>3. /\ e \in Process /\ e.pipe = proc[p].pipe /\ e.line = proc[p].line
          /\ e.idx = proc[p].idx /\ e.life = "run" /\ e.fds = Executed(p)
      BY <1>2, <3>2 DEF Process
    <3> HIDE DEF e
    <3> QED BY <1>1, <1>2, <2>1, <3>1, <3>3
  <2> QED BY <2>2, <2>3
<1>8. CASE Read(p)
  <2>1. proc[p].life = "run" /\ p \in Live /\ ChildTable(p)
    BY <1>1, <1>8 DEF Read, Live
  <2> DEFINE from == proc[p].fds[0]
             k == from.pipe
  <2>2. \/ from.at = "read" /\ fill[k] > 0 /\ proc' = Got(p)
           /\ fill' = [fill EXCEPT ![k] = @ - 1]
        \/ proc' = Ended(p, "zombie") /\ fill' = fill
        \/ proc' = Got(p) /\ fill' = fill
    BY <1>8 DEF Read
  <2>3. CASE from.at = "read" /\ fill[k] > 0 /\ proc' = Got(p)
             /\ fill' = [fill EXCEPT ![k] = @ - 1]
    <3>1. k \in DOMAIN fill
      BY <2>1, <2>3 DEF ChildTable, IsEnd
    <3> HIDE DEF k
    <3>2. fill[k] \in Nat /\ fill[k] - 1 \in Nat /\ fill' = [fill EXCEPT ![k] = fill[k] - 1]
      BY <1>2, <2>3, <3>1, ElementOfSeq, LenProperties
    <3>3. proc' = [proc EXCEPT ![p].got = proc[p].got + 1] /\ proc[p].got + 1 \in Nat
      BY <1>2, <1>5, <2>3 DEF Got
    <3> QED BY <1>1, <1>4, <1>6, <2>1, <3>1, <3>2, <3>3
  <2>4. CASE proc' = Ended(p, "zombie") /\ fill' = fill
    BY <1>1, <1>2, <1>3, <2>1, <2>4
  <2>5. CASE proc' = Got(p) /\ fill' = fill
    <3>1. proc' = [proc EXCEPT ![p].got = proc[p].got + 1] /\ proc[p].got + 1 \in Nat
      BY <1>2, <1>5, <2>5 DEF Got
    <3> QED BY <1>1, <1>2, <1>4, <2>1, <2>5, <3>1
  <2> QED BY <2>2, <2>3, <2>4, <2>5
<1>9. CASE Write(p)
  <2>1. proc[p].life = "run" /\ p \in Live /\ ChildTable(p)
    BY <1>1, <1>9 DEF Write, Live
  <2> DEFINE to == proc[p].fds[1]
             k == to.pipe
             put == [proc EXCEPT ![p].put = @ + 1]
  <2>2. \/ to.at = "write" /\ proc' = put /\ fill' = [fill EXCEPT ![k] = @ + 1]
        \/ proc' = Ended(p, "killed") /\ fill' = fill
        \/ proc' = put /\ fill' = fill
    BY <1>9 DEF Write
  <2>p. put = [proc EXCEPT ![p].put = proc[p].put + 1] /\ proc[p].put + 1 \in Nat
    BY <1>2, <1>5
  <2> HIDE DEF put
  <2>3. CASE to.at = "write" /\ proc' = put /\ fill' = [fill EXCEPT ![k] = @ + 1]
    <3>1. k \in DOMAIN fill
      BY <2>1, <2>3 DEF ChildTable, IsEnd
    <3> HIDE DEF k
    <3>2. fill[k] + 1 \in Nat /\ fill' = [fill EXCEPT ![k] = fill[k] + 1]
      BY <1>2, <2>3, <3>1, ElementOfSeq, LenProperties
    <3> QED BY <1>1, <1>4, <1>6, <2>1, <2>3, <2>p, <3>1, <3>2
  <2>4. CASE proc' = Ended(p, "killed") /\ fill' = fill
    BY <1>1, <1>2, <1>3, <2>1, <2>4
  <2>5. CASE proc' = put /\ fill' = fill
    BY <1>1, <1>2, <1>4, <2>1, <2>5, <2>p
  <2> QED BY <2>2, <2>3, <2>4, <2>5
<1>10. CASE Finish(p)
  BY <1>1, <1>2, <1>3, <1>10 DEF Finish, Live
<1> QED BY <1>7, <1>8, <1>9, <1>10 DEF Run

LEMMA FdInvRun == ASSUME FdInv, NEW p \in Children, Run(p) PROVE FdInv'
<1>1. /\ Types /\ StandardFds /\ PipeEnds /\ Position
      /\ \A q \in Live : ChildTable(q)
  BY DEF FdInv
<1>2. /\ p \in Live /\ UNCHANGED <<shellFds, pc, line, local, lines>>
      /\ proc' \in [Children -> Process]
      /\ \A q \in Children \ {p} : proc'[q] = proc[q]
      /\ proc'[p].pipe = proc[p].pipe
      /\ fill' \in Seq(Nat) /\ Len(fill') = Len(fill) /\ DOMAIN fill' = DOMAIN fill
  BY RunFacts
<1>3. Types'
  BY <1>1, <1>2 DEF Types
<1>4. fill # <<>> => fill' # <<>>
  BY <1>1, <1>2, EmptySeq DEF Types
<1>5. StandardFds' /\ PipeEnds' /\ Position'
  BY <1>1, <1>2, <1>4 DEF StandardFds, PipeEnds, Position
<1>6. ASSUME NEW q \in Live' PROVE ChildTable(q)'
  <2>1. q \in Children
    BY <1>6 DEF Live
  <2>2. CASE q # p
    BY <1>1, <1>2, <1>6, <2>1, <2>2, ChildKeeps DEF Live
  <2>3. CASE q = p /\ proc'[p].fds = proc[p].fds /\ proc'[p].life = "run"
    BY <1>1, <1>2, <2>3 DEF ChildTable
  <2>4. CASE q = p /\ proc[p].life = "born" /\ proc'[p].life = "run"
             /\ proc'[p].fds = Executed(p)
    <3>1. ChildTable(p) /\ p \in Children
      BY <1>1, <1>2
    <3>2. /\ 0 .. 2 \subseteq DOMAIN Executed(p)
          /\ \A d \in DOMAIN Executed(p) :
               \E e \in DOMAIN proc[p].fds : Executed(p)[d] = proc[p].fds[e]
      BY <1>1, <2>4, <3>1, ExecFacts
    <3>3. \A d \in DOMAIN Executed(p) :
            /\ IsEnd(Executed(p)[d]) => Executed(p)[d].pipe \in DOMAIN fill'
            /\ Executed(p)[d].at = "write" => Executed(p)[d].pipe = proc'[p].pipe
      BY <1>2, <3>1, <3>2 DEF ChildTable
    <3> QED BY <2>4, <3>2, <3>3 DEF ChildTable, IsEnd
  <2> QED BY <1>6, <2>1, <2>2, <2>3, <2>4, RunFacts DEF Live
<1> QED BY <1>3, <1>5, <1>6 DEF FdInv

LEMMA FdInvStutter == ASSUME FdInv, UNCHANGED vars PROVE FdInv'
<1>1. /\ Types /\ StandardFds /\ PipeEnds /\ Position
      /\ \A p \in Live : ChildTable(p)
  BY DEF FdInv
<1>2. Types' /\ StandardFds' /\ PipeEnds' /\ Position'
  BY <1>1 DEF vars, Types, StandardFds, PipeEnds, Position
<1>3. ASSUME NEW p \in Live' PROVE ChildTable(p)'
  BY <1>1, <1>3, ChildKeeps DEF vars, Live
<1> QED BY <1>2, <1>3 DEF FdInv

LEMMA FdInvNext == FdInv /\ [Next]_vars => FdInv'
BY FdInvReadLine, FdInvStage, FdInvCloseWriteEnd, FdInvLastProgram, FdInvLastBuiltin,
   FdInvExit, FdInvWait, FdInvRun, FdInvStutter DEF Next, Shell

LEMMA FdInvHolds == Spec => []FdInv
BY FdInvInit, FdInvNext, PTL DEF Spec

-----------------------------------------------------------------------------
(* Theorems.                                                                *)

\* A pipe's reader sees the end of its data as soon as the commands before it
\* have ended: only they, and the shell between its fork and its close, have
\* the pipe open to write.
THEOREM EndOfDataIsSeen == Spec => []WritersUpstream
<1>1. FdInv => WritersUpstream
  <2> SUFFICES ASSUME FdInv, NEW k \in DOMAIN fill
               PROVE  /\ \A p \in Writers(k) : proc[p].pipe = k
                      /\ Wr(k) \in Held(shellFds) => pc = "piped" /\ k = Len(fill)
    BY DEF WritersUpstream
  <2>1. PipeEnds /\ \A p \in Live : ChildTable(p)
    BY DEF FdInv
  <2>2. \A p \in Writers(k) : proc[p].pipe = k
    BY <2>1 DEF Writers, Held, ChildTable, Wr
  <2>3. Wr(k) \in Held(shellFds) => pc = "piped" /\ k = Len(fill)
    BY <2>1 DEF Held, PipeEnds, Wr
  <2> QED BY <2>2, <2>3
<1> QED BY <1>1, FdInvHolds, PTL

\* However descriptors were copied, opened and closed for it, and whatever
\* earlier lines left open: behind the fork of a line's last program the shell's
\* own input and output are what they were when the line began.
THEOREM StdioComesBack == Spec => []StdioRestored
<1>1. FdInv => StdioRestored
  BY DEF FdInv, Position, StdioRestored
<1> QED BY <1>1, FdInvHolds, PTL

-----------------------------------------------------------------------------
(* What a session costs.                                                    *)

\* The table's size: the standard descriptors, a read end for each pipe, at
\* most two copies for each line that is over, and the write end just made.
Kept == Cardinality(DOMAIN shellFds) - 3 - Len(fill) - (IF pc = "piped" THEN 1 ELSE 0)
LinesOver == lines - (IF pc \in {"stage", "piped"} THEN 1 ELSE 0)
TableSize == pc # "exited" => Kept \in 0 .. 2 * LinesOver

LEMMA TableSizeInit == Init => TableSize
<1> SUFFICES ASSUME Init PROVE TableSize
  OBVIOUS
<1>1. Cardinality(DOMAIN shellFds) = 3
  <2>1. \A n \in Nat : Cardinality(0 .. n) = n + 1
    <3>1. ASSUME NEW n \in Nat PROVE Cardinality(0 .. n) = n + 1
      BY FS_Interval
    <3> QED BY <3>1
  <2>2. DOMAIN shellFds = 0 .. 2 /\ Cardinality(0 .. 2) = 2 + 1
    BY <2>1 DEF Init
  <2> QED BY <2>2
<1>2. Len(fill) = 0 /\ pc = "prompt" /\ lines = 0
  BY DEF Init
<1>3. LinesOver = 0
  <2>1. pc \notin {"stage", "piped"}
    BY <1>2
  <2>2. LinesOver = lines - 0
    BY <2>1 DEF LinesOver
  <2> QED BY <1>2, <2>2
<1>4. Kept = 0
  BY <1>1, <1>2 DEF Kept
<1> QED BY <1>3, <1>4 DEF TableSize

LEMMA TwoMore ==
  ASSUME NEW S, IsFiniteSet(S), NEW a, NEW b, a \notin S, b \notin S, a # b
  PROVE  /\ IsFiniteSet(S \cup {a}) /\ IsFiniteSet(S \cup {a, b})
         /\ Cardinality(S) \in Nat
         /\ Cardinality(S \cup {a}) = Cardinality(S) + 1
         /\ Cardinality(S \cup {a, b}) = Cardinality(S) + 2
<1>1. Cardinality(S) \in Nat
  BY FS_CardinalityType
<1>2. IsFiniteSet(S \cup {a}) /\ Cardinality(S \cup {a}) = Cardinality(S) + 1
  BY FS_AddElement
<1>3. /\ IsFiniteSet((S \cup {a}) \cup {b})
      /\ Cardinality((S \cup {a}) \cup {b}) = Cardinality(S \cup {a}) + 1
  BY <1>2, FS_AddElement
<1>4. (S \cup {a}) \cup {b} = S \cup {a, b}
  OBVIOUS
<1> QED BY <1>1, <1>2, <1>3, <1>4

LEMMA TableSizeNext == FdInv /\ TableSize /\ [Next]_vars => TableSize'
<1> SUFFICES ASSUME FdInv, TableSize, [Next]_vars
             PROVE  TableSize'
  OBVIOUS
<1> DEFINE size == Cardinality(DOMAIN shellFds)
<1>1. Types /\ StandardFds /\ PipeEnds /\ Position
  BY DEF FdInv
<1>2. /\ IsFiniteSet(DOMAIN shellFds) /\ size \in Nat /\ lines \in Nat
      /\ Len(fill) \in Nat
  <2>1. IsFiniteSet(DOMAIN shellFds)
    BY <1>1, TableFacts DEF Types
  <2>2. lines \in Nat /\ Len(fill) \in Nat
    BY <1>1, SizeAssumption, LenProperties DEF Types
  <2> QED BY <2>1, <2>2, FS_CardinalityType
<1>3. CASE ReadLine
  <2>1. /\ pc = "prompt" /\ pc' = "stage" /\ lines' = lines + 1
        /\ UNCHANGED <<shellFds, fill>>
    BY <1>3 DEF ReadLine
  <2>2. size - 3 - Len(fill) \in 0 .. 2 * lines
    BY <1>2, <2>1 DEF TableSize, Kept, LinesOver
  <2> QED BY <1>2, <2>1, <2>2 DEF TableSize, Kept, LinesOver
<1>4. CASE Stage
  <2>1. /\ pc = "stage" /\ pc' = "piped" /\ lines' = lines /\ shellFds' = Opened
        /\ fill' = Append(fill, 0)
    BY <1>4 DEF Stage, Opened, WithIn, NewIn, NewOut
  <2>2. Len(fill') = Len(fill) + 1
    BY <1>1, <2>1, AppendProperties DEF Types
  <2>3. Cardinality(DOMAIN shellFds') = size + 2
    <3>1. /\ DOMAIN shellFds' = DOMAIN shellFds \cup {NewIn, NewOut} /\ NewIn # NewOut
          /\ NewIn \notin DOMAIN shellFds /\ NewOut \notin DOMAIN shellFds
      BY <1>1, <2>1, OpenedFacts
    <3>2. Cardinality(DOMAIN shellFds \cup {NewIn, NewOut}) = size + 2
      BY <1>2, <3>1, TwoMore
    <3> QED BY <3>1, <3>2
  <2>4. size - 3 - Len(fill) \in 0 .. 2 * (lines - 1)
    BY <1>2, <2>1 DEF TableSize, Kept, LinesOver
  <2> QED BY <1>2, <2>1, <2>2, <2>3, <2>4 DEF TableSize, Kept, LinesOver
<1>5. CASE CloseWriteEnd
  <2>1. /\ pc = "piped" /\ pc' = "stage" /\ lines' = lines /\ fill' = fill
        /\ shellFds' = Close(shellFds, PIPE_OUT_FD)
    BY <1>5 DEF CloseWriteEnd, NextStage
  <2>2. PIPE_OUT_FD \in DOMAIN shellFds
    BY <1>1, <2>1, PipeFdFacts
  <2>3. DOMAIN shellFds' = DOMAIN shellFds \ {PIPE_OUT_FD}
    BY <2>1 DEF Close
  <2>4. Cardinality(DOMAIN shellFds') = size - 1
    BY <1>2, <2>2, <2>3, FS_RemoveElement
  <2>5. size - 3 - Len(fill) - 1 \in 0 .. 2 * (lines - 1)
    BY <1>2, <2>1 DEF TableSize, Kept, LinesOver
  <2> QED BY <1>2, <2>1, <2>4, <2>5 DEF TableSize, Kept, LinesOver
<1>6. CASE LastProgram
  <2>1. /\ pc = "stage" /\ pc' = "wait" /\ lines' = lines /\ fill' = fill
        /\ shellFds' = Restored /\ line \in Lines
    BY <1>1, <1>6 DEF LastProgram, Position
  <2>2. /\ stdin_copy \notin DOMAIN shellFds /\ stdout_copy \notin DOMAIN shellFds
        /\ stdin_copy # stdout_copy
    BY <1>1, <2>1, RedirectedFacts
  <2>3. /\ Cardinality(DOMAIN shellFds \cup {stdin_copy}) = size + 1
        /\ Cardinality(DOMAIN shellFds \cup {stdout_copy}) = size + 1
        /\ Cardinality(DOMAIN shellFds \cup {stdin_copy, stdout_copy}) = size + 2
    BY <1>2, <2>2, TwoMore
  <2>4. DOMAIN shellFds' \in {DOMAIN shellFds, DOMAIN shellFds \cup {stdin_copy},
                              DOMAIN shellFds \cup {stdout_copy},
                              DOMAIN shellFds \cup {stdin_copy, stdout_copy}}
    <3>1. DOMAIN shellFds' = DOMAIN shellFds
                             \cup {d \in {stdin_copy} : line.in = "no"}
                             \cup {d \in {stdout_copy} : ~line.out}
      BY <1>1, <2>1, RestoredFacts
    <3>2. {d \in {stdin_copy} : line.in = "no"}
            = IF line.in = "no" THEN {stdin_copy} ELSE {}
      OBVIOUS
    <3>3. {d \in {stdout_copy} : ~line.out} = IF ~line.out THEN {stdout_copy} ELSE {}
      OBVIOUS
    <3> QED BY <3>1, <3>2, <3>3
  <2>5. size - 3 - Len(fill) \in 0 .. 2 * (lines - 1)
    BY <1>2, <2>1 DEF TableSize, Kept, LinesOver
  <2>6. Cardinality(DOMAIN shellFds') \in {size, size + 1, size + 2}
    BY <2>3, <2>4
  <2> QED BY <1>2, <2>1, <2>5, <2>6 DEF TableSize, Kept, LinesOver
<1>7. CASE LastBuiltin
  <2>1. /\ pc = "stage" /\ pc' = "prompt" /\ lines' = lines /\ fill' = fill
        /\ shellFds' = Redirected
    BY <1>7 DEF LastBuiltin
  <2>2. Cardinality(DOMAIN shellFds') = size + 2
    <3>1. /\ DOMAIN shellFds' = DOMAIN shellFds \cup {stdin_copy, stdout_copy}
          /\ stdin_copy # stdout_copy
          /\ stdin_copy \notin DOMAIN shellFds /\ stdout_copy \notin DOMAIN shellFds
      BY <1>1, <2>1, RedirectedFacts
    <3>2. Cardinality(DOMAIN shellFds \cup {stdin_copy, stdout_copy}) = size + 2
      BY <1>2, <3>1, TwoMore
    <3> QED BY <3>1, <3>2
  <2>3. size - 3 - Len(fill) \in 0 .. 2 * (lines - 1)
    BY <1>2, <2>1 DEF TableSize, Kept, LinesOver
  <2> QED BY <1>2, <2>1, <2>2, <2>3 DEF TableSize, Kept, LinesOver
<1>8. CASE Exit
  BY <1>8 DEF Exit, TableSize
<1>9. CASE Wait
  BY <1>9 DEF Wait, TableSize, Kept, LinesOver
<1>10. ASSUME NEW p \in Children, Run(p)
       PROVE  TableSize'
  <2>1. UNCHANGED <<shellFds, pc, lines>> /\ Len(fill') = Len(fill)
    BY <1>10, RunFacts
  <2> QED BY <2>1 DEF TableSize, Kept, LinesOver
<1>11. CASE UNCHANGED vars
  BY <1>11 DEF vars, TableSize, Kept, LinesOver
<1> QED BY <1>3, <1>4, <1>5, <1>6, <1>7, <1>8, <1>9, <1>10, <1>11 DEF Next, Shell

\* The session's cost in descriptors is the pipes made and at most two copies
\* for each line, whatever the lines were: run's descriptor table grows, but by
\* nothing else, and no read end is ever closed.
THEOREM LeakIsBounded == Spec => []LeakBounded
<1>1. Spec => []TableSize
  BY FdInvHolds, TableSizeInit, TableSizeNext, PTL DEF Spec
<1>2. FdInv /\ TableSize => LeakBounded
  <2> SUFFICES ASSUME FdInv, TableSize, pc = "prompt"
               PROVE  /\ Cardinality(DOMAIN shellFds) - 3 - Len(fill) \in 0 .. 2 * lines
                      /\ \A k \in DOMAIN fill : Rd(k) \in Held(shellFds)
    BY DEF LeakBounded
  <2>1. lines \in Nat /\ Len(fill) \in Nat
    BY SizeAssumption, LenProperties DEF FdInv, Types
  <2>2. Kept \in 0 .. 2 * lines
    BY <2>1 DEF TableSize, LinesOver
  <2>3. \A k \in DOMAIN fill : Rd(k) \in Held(shellFds)
    BY DEF FdInv, PipeEnds, Held
  <2>4. Cardinality(DOMAIN shellFds) \in Nat
    BY TableFacts, FS_CardinalityType DEF FdInv, Types
  <2> QED BY <2>1, <2>2, <2>3, <2>4 DEF Kept
<1> QED BY <1>1, <1>2, FdInvHolds, PTL

-----------------------------------------------------------------------------
(* Who reads what.                                                          *)

Made == {p \in Children : proc[p].life # "none"}

\* What a child will have, or has, as descriptors 0 and 1.
Input(p) == proc[p].fds[IF proc[p].life = "born" THEN proc[p].in ELSE 0]
Output(p) == proc[p].fds[IF proc[p].life = "born" THEN proc[p].out ELSE 1]

Places == \A p \in Made : /\ proc[p].line \in 1 .. lines /\ proc[p].idx \in Nat \ {0}
                          /\ proc[p].pipe \in 0 .. Len(fill)

\* A child reads from a pipe unless it is its line's first, and writes to the
\* pipe that was made for it, if one was.
Ends == \A p \in Live : /\ Input(p).at = "read" <=> proc[p].idx > 1
                        /\ IF proc[p].pipe = 0 THEN Output(p).at # "write"
                           ELSE Output(p) = Wr(proc[p].pipe)

\* The next one of a child's line, and no other, has that pipe as its input.
Neighbours == \A p \in Made, q \in Live :
                Next_to(p, q) <=> proc[p].pipe # 0 /\ Input(q) = Rd(proc[p].pipe)

\* While run is at a line, the line's processes are those before the next
\* command, and the pipe made last is the previous command's.
Latest ==
  /\ pc \in {"stage", "piped"} => lines # 0
  /\ pc = "stage" =>
       \A p \in Made :
         /\ proc[p].line = lines => proc[p].idx < local.idx /\ proc[p].pipe # 0
         /\ local.idx > 1 => (proc[p].pipe = Len(fill)
                                <=> proc[p].line = lines /\ proc[p].idx = local.idx - 1)
  /\ pc = "piped" =>
       \A p \in Made :
         /\ proc[p].line = lines => proc[p].idx <= local.idx /\ proc[p].pipe # 0
         /\ proc[p].pipe = Len(fill) <=> proc[p].line = lines /\ proc[p].idx = local.idx

LineInv == Places /\ Ends /\ Neighbours /\ Latest

LEMMA LineInvInit == Init => LineInv
<1> SUFFICES ASSUME Init PROVE LineInv
  OBVIOUS
<1>1. Made = {} /\ Live = {} /\ pc = "prompt"
  BY DEF Init, Made, Live, NoProc
<1> QED BY <1>1 DEF LineInv, Places, Ends, Neighbours, Latest

\* A fork keeps the line straight if the child is given the last pipe to read,
\* unless it is the first, and a pipe of its own to write, or none.
LEMMA ForkKeepsStraight ==
  ASSUME FdInv, Places, Ends, Neighbours, Latest, pc = "stage", lines' = lines,
         NEW table \in Tables, NEW fd_in, NEW fd_out, NEW pipe \in Nat, NEW n \in Children,
         Forked(n, table, fd_in, fd_out, pipe),
         IF local.idx = 1 THEN table[fd_in].at # "read" ELSE table[fd_in] = Rd(Len(fill)),
         \/ pipe = 0 /\ table[fd_out].at # "write" /\ Len(fill') = Len(fill)
         \/ pipe = Len(fill) + 1 /\ table[fd_out] = Wr(pipe) /\ Len(fill') = pipe
  PROVE  Places' /\ Ends' /\ Neighbours'
<1>1. /\ n \notin Made /\ Made' = Made \cup {n} /\ n \in Live' /\ Live' \subseteq Live \cup {n}
      /\ proc'[n].life = "born" /\ proc'[n].line = lines /\ proc'[n].idx = local.idx
      /\ proc'[n].pipe = pipe
      /\ \A p \in Children \ {n} : proc'[p] = proc[p]
  BY DEF Forked, Made, Live
<1>2. Input(n)' = table[fd_in] /\ Output(n)' = table[fd_out]
  BY <1>1 DEF Forked, Input, Output
<1>3. /\ Len(fill) \in Nat /\ DOMAIN fill = 1 .. Len(fill) /\ lines \in Nat
      /\ local.idx \in Nat \ {0} /\ lines # 0 /\ (local.idx > 1 => Len(fill) # 0)
  <2>1. Types /\ Position
    BY DEF FdInv
  <2>2. local.idx \in Nat \ {0} /\ (local.idx > 1 => fill # <<>>)
    BY <2>1, LineTypes DEF Position
  <2>3. lines \in Nat /\ fill \in Seq(Nat)
    BY <2>1, SizeAssumption DEF Types
  <2>4. lines # 0
    BY DEF Latest
  <2> QED BY <2>2, <2>3, <2>4, LenProperties, EmptySeq
<1>4. \A p \in Made : /\ p \in Children \ {n} /\ proc'[p] = proc[p]
                      /\ proc[p].line \in 1 .. lines /\ proc[p].idx \in Nat \ {0}
                      /\ proc[p].pipe \in 0 .. Len(fill)
  BY <1>1 DEF Made, Places
<1>5. \A p \in Live' \ {n} : /\ p \in Live /\ p \in Made /\ Input(p)' = Input(p)
                             /\ Output(p)' = Output(p)
  BY <1>1 DEF Live, Made, Input, Output
<1>6. Places'
  BY <1>1, <1>3, <1>4 DEF Places
<1>7. Ends'
  <2>1. /\ Input(n)'.at = "read" <=> proc'[n].idx > 1
        /\ IF pipe = 0 THEN Output(n)'.at # "write" ELSE Output(n)' = Wr(pipe)
    BY <1>1, <1>2, <1>3 DEF Rd
  <2> QED BY <1>1, <1>4, <1>5, <2>1 DEF Ends
<1>8. Neighbours'
  <2> SUFFICES ASSUME NEW p \in Made', NEW q \in Live'
               PROVE  Next_to(p, q)' <=> proc'[p].pipe # 0 /\ Input(q)' = Rd(proc'[p].pipe)
    BY DEF Neighbours
  <2>1. CASE p # n /\ q # n
    <3>1. p \in Made /\ q \in Live /\ proc'[p] = proc[p] /\ proc'[q] = proc[q]
          /\ Input(q)' = Input(q)
      BY <1>1, <1>4, <1>5, <2>1
    <3>2. Next_to(p, q) <=> proc[p].pipe # 0 /\ Input(q) = Rd(proc[p].pipe)
      BY <3>1 DEF Neighbours
    <3>3. Next_to(p, q)' <=> Next_to(p, q)
      BY <3>1 DEF Next_to
    <3> QED BY <3>1, <3>2, <3>3
  <2>2. CASE p = n /\ q # n
    <3>1. ~Next_to(n, q)'
      BY <1>1, <1>3, <1>4, <1>5, <2>2 DEF Latest, Next_to
    <3>2. Input(q) # Rd(Len(fill) + 1)
      <4>1. Input(q).at = "read" => Input(q).pipe \in DOMAIN fill
        <5>1. ChildTable(q)
          BY <1>5, <2>2 DEF FdInv
        <5> QED BY <5>1, <1>5, <2>2 DEF ChildTable, IsEnd, Input
      <4> QED BY <1>3, <4>1 DEF Rd
    <3> QED BY <1>1, <1>5, <2>2, <3>1, <3>2
  <2>3. CASE p # n /\ q = n
    <3>1. p \in Made /\ proc'[p] = proc[p] /\ proc[p].pipe \in 0 .. Len(fill)
          /\ proc[p].idx \in Nat \ {0}
      BY <1>1, <1>4, <2>3
    <3>2. CASE local.idx = 1
      BY <1>1, <1>2, <2>3, <3>1, <3>2 DEF Next_to, Rd
    <3>3. CASE local.idx # 1
      <4>1. proc[p].pipe = Len(fill) <=> proc[p].line = lines /\ proc[p].idx = local.idx - 1
        BY <1>3, <3>1, <3>3 DEF Latest
      <4>2. Input(n)' = Rd(proc[p].pipe) <=> proc[p].pipe = Len(fill)
        BY <1>2, <3>3 DEF Rd
      <4> QED BY <1>1, <1>3, <2>3, <3>1, <3>3, <4>1, <4>2 DEF Next_to
    <3> QED BY <3>2, <3>3
  <2>4. CASE p = n /\ q = n
    BY <1>1, <1>2, <1>3, <2>4 DEF Next_to, Rd
  <2> QED BY <2>1, <2>2, <2>3, <2>4
<1> QED BY <1>6, <1>7, <1>8

\* Nothing about the line changes when no process does.
LEMMA SameProcesses ==
  ASSUME Places, Ends, Neighbours, proc' = proc, lines' \in {lines, lines + 1},
         lines \in Nat, Len(fill) \in Nat, Len(fill') \in {Len(fill), Len(fill) + 1}
  PROVE  Places' /\ Ends' /\ Neighbours'
<1>1. Made' = Made /\ Live' = Live
  BY DEF Made, Live
<1>2. \A p \in Children : Input(p)' = Input(p) /\ Output(p)' = Output(p)
  BY DEF Input, Output
<1>3. Places'
  BY <1>1 DEF Places
<1>4. Ends' /\ Neighbours'
  BY <1>1, <1>2 DEF Ends, Neighbours, Live, Next_to
<1> QED BY <1>3, <1>4

LEMMA LineInvNext == FdInv /\ LineInv /\ [Next]_vars => LineInv'
<1> SUFFICES ASSUME FdInv, LineInv, [Next]_vars
             PROVE  LineInv'
  OBVIOUS
<1>1. /\ Types /\ StandardFds /\ PipeEnds /\ Position
      /\ Places /\ Ends /\ Neighbours /\ Latest
  BY DEF FdInv, LineInv
<1>2. /\ lines \in Nat /\ fill \in Seq(Nat) /\ Len(fill) \in Nat
      /\ \A p \in Made : /\ proc[p].line \in 1 .. lines /\ proc[p].idx \in Nat \ {0}
                         /\ proc[p].pipe \in 0 .. Len(fill)
  BY <1>1, SizeAssumption, LenProperties DEF Types, Places
<1>3. CASE ReadLine
  <2>1. /\ pc' = "stage" /\ lines' = lines + 1 /\ proc' = proc /\ fill' = fill
        /\ local'.idx = 1
    BY <1>3 DEF ReadLine, NoLocal
  <2>2. Places' /\ Ends' /\ Neighbours'
    BY <1>1, <1>2, <2>1, SameProcesses
  <2>3. Latest'
    BY <1>2, <2>1 DEF Latest, Made
  <2> QED BY <2>2, <2>3 DEF LineInv
<1>4. CASE Stage
  <2>1. /\ pc = "stage" /\ pc' = "piped" /\ lines' = lines /\ fill' = Append(fill, 0)
        /\ IF Cmd \in Programs THEN Fork(Opened, local.in, NewOut, Len(fill) + 1)
           ELSE UNCHANGED <<proc, local>>
    BY <1>4 DEF Stage, Opened, WithIn, NewIn, NewOut
  <2>2. Len(fill') = Len(fill) + 1
    BY <1>1, <2>1, AppendProperties DEF Types
  <2>3. /\ lines # 0
        /\ \A p \in Made : proc[p].line = lines => proc[p].idx < local.idx /\ proc[p].pipe # 0
    BY <1>1, <2>1 DEF Latest
  <2>4. local.idx \in Nat
    BY <1>1 DEF Types
  <2>5. CASE Cmd \in Programs
    <3>1. Opened \in Tables /\ NewOut \in Nat /\ Opened[NewOut] = Wr(Len(fill) + 1)
          /\ \A d \in DOMAIN shellFds : Opened[d] = shellFds[d]
      BY <1>1, <2>1, OpenedFacts
    <3>2. IF local.idx = 1 THEN Opened[local.in].at # "read"
          ELSE Opened[local.in] = Rd(Len(fill))
      BY <1>1, <2>1, <3>1 DEF Position, StandardFds, Tty, InFile
    <3>3. /\ line \in Lines /\ local.idx \in 1 .. Len(line.cmds) /\ local.in \in Nat
          /\ Fork(Opened, local.in, NewOut, Len(fill) + 1) /\ Len(fill) + 1 \in Nat
      BY <1>1, <1>2, <2>1, <2>5 DEF Position, Types
    <3>4. PICK n \in Children : Forked(n, Opened, local.in, NewOut, Len(fill) + 1)
      BY <1>1, <3>1, <3>3, ForkFacts
    <3>5. Places' /\ Ends' /\ Neighbours'
      BY <1>1, <2>1, <2>2, <3>1, <3>2, <3>3, <3>4, ForkKeepsStraight
    <3>6. local'.idx = local.idx
      BY <1>1, <3>4 DEF Forked, Types
    <3>7. /\ Made' = Made \cup {n} /\ \A p \in Made : proc'[p] = proc[p]
          /\ proc'[n].line = lines /\ proc'[n].idx = local.idx
          /\ proc'[n].pipe = Len(fill) + 1
      BY <3>4 DEF Forked, Made
    <3>8. Latest'
      BY <1>2, <2>1, <2>2, <2>3, <2>4, <3>6, <3>7 DEF Latest
    <3> QED BY <3>5, <3>8 DEF LineInv
  <2>6. CASE Cmd \notin Programs
    <3>1. UNCHANGED <<proc, local>>
      BY <2>1, <2>6
    <3>2. Places' /\ Ends' /\ Neighbours'
      BY <1>1, <1>2, <2>1, <2>2, <3>1, SameProcesses
    <3>3. Latest'
      BY <1>2, <2>1, <2>2, <2>3, <2>4, <3>1 DEF Latest, Made
    <3> QED BY <3>2, <3>3 DEF LineInv
  <2> QED BY <2>5, <2>6
<1>5. CASE CloseWriteEnd
  <2>1. /\ pc = "piped" /\ pc' = "stage" /\ UNCHANGED <<line, proc, fill, lines>>
        /\ local' = [local EXCEPT !.idx = @ + 1, !.in = PIPE_IN_FD]
    BY <1>5 DEF CloseWriteEnd, NextStage
  <2>2. Places' /\ Ends' /\ Neighbours'
    BY <1>1, <1>2, <2>1, SameProcesses
  <2>3. local'.idx = local.idx + 1 /\ local.idx \in Nat
    BY <1>1, <2>1 DEF Types
  <2>4. Latest'
    BY <1>1, <1>2, <2>1, <2>3 DEF Latest, Made
  <2> QED BY <2>2, <2>4 DEF LineInv
<1>6. CASE LastProgram
  <2>1. /\ pc = "stage" /\ pc' = "wait" /\ UNCHANGED <<line, fill, lines>>
        /\ Fork(Redirected, local.in, 1, 0)
    BY <1>6 DEF LastProgram
  <2>2. /\ Redirected \in Tables
        /\ Redirected[0] = IF line.in = "file" THEN InFile ELSE shellFds[0]
        /\ Redirected[1] = IF line.out THEN OutFile ELSE shellFds[1]
        /\ \A d \in DOMAIN shellFds \ {0, 1} : Redirected[d] = shellFds[d]
    BY <1>1, <2>1, RedirectedFacts
  <2>3. IF local.idx = 1 THEN Redirected[local.in].at # "read"
        ELSE Redirected[local.in] = Rd(Len(fill))
    BY <1>1, <2>1, <2>2 DEF Position, StandardFds, Tty, InFile, OutFile, Rd
  <2>4. Redirected[1].at # "write"
    BY <1>1, <2>1, <2>2 DEF StandardFds, Tty, OutFile
  <2>5. line \in Lines /\ local.idx \in 1 .. Len(line.cmds) /\ local.in \in Nat
    BY <1>1, <2>1 DEF Position, Types
  <2>6. PICK n \in Children : Forked(n, Redirected, local.in, 1, 0)
    BY <1>1, <2>1, <2>2, <2>5, ForkFacts
  <2>7. Places' /\ Ends' /\ Neighbours'
    BY <1>1, <2>1, <2>2, <2>3, <2>4, <2>6, ForkKeepsStraight
  <2>8. Latest'
    BY <2>1 DEF Latest
  <2> QED BY <2>7, <2>8 DEF LineInv
<1>7. CASE LastBuiltin
  <2>1. pc' = "prompt" /\ UNCHANGED <<proc, fill, lines>>
    BY <1>7 DEF LastBuiltin
  <2>2. Places' /\ Ends' /\ Neighbours'
    BY <1>1, <1>2, <2>1, SameProcesses
  <2> QED BY <2>1, <2>2 DEF LineInv, Latest
<1>8. CASE Exit
  <2>1. pc' = "exited" /\ UNCHANGED <<proc, fill, lines>>
    BY <1>8 DEF Exit
  <2>2. Places' /\ Ends' /\ Neighbours'
    BY <1>1, <1>2, <2>1, SameProcesses
  <2> QED BY <2>1, <2>2 DEF LineInv, Latest
<1>9. CASE Wait
  <2>1. /\ pc = "wait" /\ pc' = "prompt" /\ UNCHANGED <<fill, lines>>
        /\ \/ proc' = proc
           \/ /\ proc[local.pid].life \in {"zombie", "killed"}
              /\ proc' = [proc EXCEPT ![local.pid].life = "reaped"]
    BY <1>9 DEF Wait
  <2>2. local.pid \in Children /\ proc \in [Children -> Process]
    BY <1>1, <2>1 DEF Position, Types
  <2>3. /\ Made' = Made /\ Live' = Live
        /\ \A p \in Live : proc'[p] = proc[p]
        /\ \A p \in Made : /\ proc'[p].line = proc[p].line /\ proc'[p].idx = proc[p].idx
                           /\ proc'[p].pipe = proc[p].pipe
    BY <2>1, <2>2 DEF Made, Live, Process
  <2>4. Places' /\ Ends' /\ Neighbours'
    BY <1>1, <2>1, <2>3 DEF Places, Ends, Neighbours, Next_to, Input, Output
  <2> QED BY <2>1, <2>4 DEF LineInv, Latest
<1>10. ASSUME NEW p \in Children, Run(p)
       PROVE  LineInv'
  <2>1. /\ p \in Live /\ UNCHANGED <<shellFds, pc, line, local, lines>>
        /\ proc' \in [Children -> Process]
        /\ \A q \in Children \ {p} : proc'[q] = proc[q]
        /\ proc'[p].pipe = proc[p].pipe /\ proc'[p].line = proc[p].line
        /\ proc'[p].idx = proc[p].idx
        /\ \/ proc'[p].life \in {"zombie", "killed"}
           \/ /\ proc[p].life = "run" /\ proc'[p].life = "run"
              /\ proc'[p].fds = proc[p].fds
           \/ /\ proc[p].life = "born" /\ proc'[p].life = "run"
              /\ proc'[p].fds = Executed(p)
        /\ Len(fill') = Len(fill)
    BY <1>10, RunFacts
  <2>2. /\ Made' = Made /\ Live' \subseteq Live
        /\ \A q \in Made : /\ q \in Children /\ proc'[q].line = proc[q].line
                           /\ proc'[q].idx = proc[q].idx /\ proc'[q].pipe = proc[q].pipe
    BY <2>1 DEF Made, Live
  <2>3. \A q \in Live' : Input(q)' = Input(q) /\ Output(q)' = Output(q)
    <3>1. ASSUME NEW q \in Live'
          PROVE  Input(q)' = Input(q) /\ Output(q)' = Output(q)
      <4>1. CASE q # p
        BY <2>1, <4>1 DEF Live, Input, Output
      <4>2. CASE q = p /\ proc[p].life = "run"
        BY <2>1, <3>1, <4>2 DEF Live, Input, Output
      <4>3. CASE q = p /\ proc[p].life = "born"
        <5>1. ChildTable(p)
          BY <2>1 DEF FdInv
        <5>2. /\ Executed(p)[0] = proc[p].fds[proc[p].in]
              /\ Executed(p)[1] = proc[p].fds[proc[p].out]
          BY <1>1, <4>3, <5>1, ExecFacts
        <5> QED BY <2>1, <3>1, <4>3, <5>2 DEF Live, Input, Output
      <4> QED BY <2>1, <4>1, <4>2, <4>3 DEF Live
    <3> QED BY <3>1
  <2>4. Places'
    BY <1>1, <2>1, <2>2 DEF Places
  <2>5. Ends'
    BY <1>1, <2>2, <2>3 DEF Ends, Live, Made
  <2>6. Neighbours'
    BY <1>1, <2>2, <2>3 DEF Neighbours, Next_to, Live, Made
  <2>7. Latest'
    BY <1>1, <2>1, <2>2 DEF Latest
  <2> QED BY <2>4, <2>5, <2>6, <2>7 DEF LineInv
<1>11. CASE UNCHANGED vars
  <2>1. UNCHANGED <<proc, lines, fill, pc, local>>
    BY <1>11 DEF vars
  <2>2. Places' /\ Ends' /\ Neighbours'
    BY <1>1, <1>2, <2>1, SameProcesses
  <2>3. Latest'
    BY <1>1, <2>1 DEF Latest, Made
  <2> QED BY <2>2, <2>3 DEF LineInv
<1> QED BY <1>3, <1>4, <1>5, <1>6, <1>7, <1>8, <1>9, <1>10, <1>11 DEF Next, Shell

\* What a program writes is read by the next command of its line and by nobody
\* else, for lines and pipelines of any length and whatever the lines before
\* left open or running.
THEOREM PipesAreStraight == Spec => []StraightPipe
<1>1. Spec => []LineInv
  BY FdInvHolds, LineInvInit, LineInvNext, PTL DEF Spec
<1>2. LineInv => StraightPipe
  <2> SUFFICES ASSUME LineInv, NEW p \in Running
               PROVE  LET in == proc[p].fds[0]
                          out == proc[p].fds[1]
                      IN /\ (in.at = "read") <=> (proc[p].idx > 1)
                         /\ (out.at = "write") <=> (proc[p].pipe # 0)
                         /\ \A q \in Running :
                              Next_to(p, q) <=> (out.at = "write" /\ proc[q].fds[0] = Rd(out.pipe))
    BY DEF StraightPipe
  <2>1. \A q \in Running : /\ q \in Live /\ q \in Made /\ Input(q) = proc[q].fds[0]
                           /\ Output(q) = proc[q].fds[1]
    BY DEF Running, Live, Made, Input, Output
  <2>2. /\ Input(p).at = "read" <=> proc[p].idx > 1
        /\ IF proc[p].pipe = 0 THEN Output(p).at # "write"
           ELSE Output(p) = Wr(proc[p].pipe)
        /\ \A q \in Running : Next_to(p, q) <=> proc[p].pipe # 0 /\ Input(q) = Rd(proc[p].pipe)
    BY <2>1 DEF LineInv, Ends, Neighbours
  <2> QED BY <2>1, <2>2 DEF Wr
<1> QED BY <1>1, <1>2, PTL
=============================================================================
