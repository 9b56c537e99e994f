------------------------------ MODULE ShellPipes ------------------------------
(***************************************************************************)
(* Descriptors and data in the shell of HW_3/main.cpp: what run does with   *)
(* pipe, fork, dup, dup2, open and close for the commands of a line, and    *)
(* how the programs then read and write each other's data.  Job control is  *)
(* the module ShellJobs.                                                    *)
(*                                                                          *)
(* A step of the shell is one turn of run's loop up to its fork, the close  *)
(* behind it, the last command, or the wait.  A child sets up its           *)
(* descriptors and executes the program in one step of its own: nothing it  *)
(* closes there is another process's business before.  The programs and the *)
(* kernel's pipes are external.                                             *)
(***************************************************************************)
EXTENDS Naturals, FiniteSets, SequencesExt

CONSTANTS
  Lines,     \* what may be typed, see Line below
  Children,  \* the processes fork() may make
  PipeBuf,   \* what a pipe has room for
  Supply,    \* what a source writes, and what a file or the user has to give
  MaxLines   \* bound of the runs: lines typed

(* A parsed line: its commands, "&", "<" with a file that is there or not,  *)
(* and ">".  "source" only writes, "head" takes one item, "filter" copies   *)
(* all of its input, "bad" cannot be executed, "null" is no command.        *)
Programs == {"source", "head", "filter", "bad"}
Builtins == {"jobs", "export"}
Line == [cmds : Seq(Programs \cup Builtins \cup {"null", "exit"}),
         amp : BOOLEAN, in : {"no", "file", "missing"}, out : BOOLEAN]

ASSUME LinesAssumption == Lines \subseteq Line /\ \A l \in Lines : l.cmds # <<>>
ASSUME ChildrenAssumption == IsFiniteSet(Children) /\ Children \subseteq Nat \ {0}
ASSUME SizeAssumption == {PipeBuf, Supply} \subseteq Nat \ {0} /\ MaxLines \in Nat

VARIABLES
  shellFds,  \* the shell's descriptor table: what each open number stands for
  pc,
  line,      \* cmd_buf, parsed
  local,     \* locals of run; stdio: descriptors 0 and 1 as the line began (history)
  proc,      \* the children; line, idx, rest, pipe: their place (history)
  fill,      \* items in each pipe made so far
  lines      \* lines typed so far

vars == <<shellFds, pc, line, local, proc, fill, lines>>

Tty == [at |-> "tty", pipe |-> 0]
InFile == [at |-> "in", pipe |-> 0]
OutFile == [at |-> "out", pipe |-> 0]
Rd(k) == [at |-> "read", pipe |-> k]
Wr(k) == [at |-> "write", pipe |-> k]
Closed == [d \in {} |-> Tty]

NoProc == [life |-> "none", cmd |-> "null", line |-> 0, idx |-> 0, rest |-> {},
           pipe |-> 0, fds |-> Closed, in |-> 0, out |-> 1, got |-> 0, put |-> 0]
NoLocal == [idx |-> 0, in |-> 0, pid |-> 0, stdio |-> <<Tty, Tty>>]
Empty == [cmds |-> <<"null">>, amp |-> FALSE, in |-> "no", out |-> FALSE]

Init ==
  /\ shellFds = [d \in 0 .. 2 |-> Tty]
  /\ pc = "prompt"
  /\ line = Empty
  /\ local = NoLocal
  /\ proc = [p \in Children |-> NoProc]
  /\ fill = <<>>
  /\ lines = 0

-----------------------------------------------------------------------------
(* Descriptors.  A new one gets the lowest free number.                     *)

Lowest(t) == CHOOSE d \in 0 .. Cardinality(DOMAIN t) :
               d \notin DOMAIN t /\ \A e \in 0 .. d - 1 : e \in DOMAIN t

With(t, d, object) == [e \in DOMAIN t \cup {d} |-> IF e = d THEN object ELSE t[e]]
Close(t, d) == [e \in DOMAIN t \ {d} |-> t[e]]
Dup(t, d) == With(t, Lowest(t), t[d])

Held(t) == {t[d] : d \in DOMAIN t}
Live == {p \in Children : proc[p].life \in {"born", "run"}}
Writers(k) == {p \in Live : Wr(k) \in Held(proc[p].fds)}
Readers(k) == {p \in Live : Rd(k) \in Held(proc[p].fds)}
Written(k) == Writers(k) # {} \/ Wr(k) \in Held(shellFds)
Readable(k) == Readers(k) # {} \/ Rd(k) \in Held(shellFds)

-----------------------------------------------------------------------------
(* The shell.                                                               *)

Cmd == line.cmds[local.idx]
IsLast == local.idx = Len(line.cmds)
Free == {p \in Children : proc[p].life = "none"}
ProgramsOf(l) == {i \in DOMAIN l.cmds : l.cmds[i] \in Programs}

ReadLine ==
  /\ pc = "prompt" /\ lines < MaxLines
  /\ \E l \in Lines : Cardinality(ProgramsOf(l)) <= Cardinality(Free) /\ line' = l
  /\ lines' = lines + 1
  /\ local' = [NoLocal EXCEPT !.idx = 1, !.stdio = <<shellFds[0], shellFds[1]>>]
  /\ pc' = "stage"
  /\ UNCHANGED <<shellFds, proc, fill>>

(* fork() in sub_command: the child gets a copy of every descriptor.        *)
Fork(table, fd_in, fd_out, pipe) ==
  \E p \in Free :
    /\ \A r \in Free : p <= r
    /\ proc' = [proc EXCEPT ![p] =
         [NoProc EXCEPT !.life = "born", !.cmd = Cmd, !.line = lines, !.idx = local.idx,
                        !.rest = {line.cmds[i] : i \in local.idx + 1 .. Len(line.cmds)},
                        !.pipe = pipe, !.fds = table, !.in = fd_in, !.out = fd_out]]
    /\ local' = [local EXCEPT !.pid = p]

(* A command that is not the last: pipe(), then sub_command, which for a    *)
(* builtin forks nothing and writes to the shell's own output.              *)
Stage ==
  /\ pc = "stage" /\ ~IsLast
  /\ LET k == Len(fill) + 1
         r == Lowest(shellFds)
         w == Lowest(With(shellFds, r, Rd(k)))
         opened == With(With(shellFds, r, Rd(k)), w, Wr(k))
     IN /\ shellFds' = opened
        /\ fill' = Append(fill, 0)
        /\ IF Cmd \in Programs THEN Fork(opened, local.in, w, k)
           ELSE UNCHANGED <<proc, local>>
  /\ pc' = "piped"
  /\ UNCHANGED <<line, lines>>

(* pipe_fd is where the pipe made last has its ends.                        *)
pipe_fd(object) == CHOOSE d \in DOMAIN shellFds : shellFds[d] = object
PIPE_IN_FD == pipe_fd(Rd(Len(fill)))
PIPE_OUT_FD == pipe_fd(Wr(Len(fill)))

NextStage(table, fd) ==
  /\ pc = "piped"
  /\ shellFds' = table
  /\ local' = [local EXCEPT !.idx = @ + 1, !.in = fd]
  /\ pc' = "stage"
  /\ UNCHANGED <<line, proc, fill, lines>>

\* Seeded faults: the write end stays open; the next command reads where this
\* one did.
CloseNothing == NextStage(shellFds, PIPE_IN_FD)
KeepIn == NextStage(Close(shellFds, PIPE_OUT_FD), local.in)

(* After the fork the shell closes the write end, and keeps the read end    *)
(* open for ever.                                                           *)
CloseWriteEnd == NextStage(Close(shellFds, PIPE_OUT_FD), PIPE_IN_FD)

(* Before the last command: copies of descriptors 0 and 1, then the files.  *)
(* A file that cannot be opened leaves descriptor 0 as it is.               *)
stdin_copy == Lowest(shellFds)
stdout_copy == Lowest(Dup(shellFds, 0))
Copied == Dup(Dup(shellFds, 0), 1)
Redirected ==
  [d \in DOMAIN Copied |->
     IF d = 0 /\ line.in = "file" THEN InFile
     ELSE IF d = 1 /\ line.out THEN OutFile ELSE Copied[d]]

\* Seeded fault: the copy of standard input is made standard output again.
RestoredAcross ==
  LET in == IF line.in = "no" THEN Redirected
            ELSE Close(With(Redirected, 0, Redirected[stdin_copy]), stdin_copy)
  IN IF ~line.out THEN in
     ELSE Close(With(in, 1, Redirected[0]), stdout_copy)

(* Behind it: what was redirected is put back and its copy closed; the copy *)
(* of what was not stays open.                                              *)
Restored ==
  LET in == IF line.in = "no" THEN Redirected
            ELSE Close(With(Redirected, 0, Redirected[stdin_copy]), stdin_copy)
  IN IF ~line.out THEN in
     ELSE Close(With(in, 1, Redirected[stdout_copy]), stdout_copy)

LastProgram ==
  /\ pc = "stage" /\ IsLast /\ Cmd \in Programs
  /\ Fork(Redirected, local.in, 1, 0)
  /\ shellFds' = Restored
  /\ pc' = "wait"
  /\ UNCHANGED <<line, fill, lines>>

(* A builtin, or nothing after the last pipe: nothing is put back.          *)
LastBuiltin ==
  /\ pc = "stage" /\ IsLast /\ Cmd \in Builtins \cup {"null"}
  /\ shellFds' = Redirected
  /\ pc' = "prompt"
  /\ local' = NoLocal
  /\ UNCHANGED <<line, proc, fill, lines>>

Exit ==
  /\ pc = "stage" /\ line.cmds = <<"exit">>
  /\ shellFds' = Closed
  /\ pc' = "exited"
  /\ UNCHANGED <<line, local, proc, fill, lines>>

(* Only the last process of a line is waited for, and none with "&".        *)
Wait ==
  /\ pc = "wait"
  /\ IF line.amp THEN UNCHANGED proc
     ELSE /\ proc[local.pid].life \in {"zombie", "killed"}
          /\ proc' = [proc EXCEPT ![local.pid].life = "reaped"]
  /\ pc' = "prompt"
  /\ local' = NoLocal
  /\ UNCHANGED <<shellFds, line, fill, lines>>

-----------------------------------------------------------------------------
(* The children.                                                            *)

Ended(p, life) == [proc EXCEPT ![p].life = life, ![p].fds = Closed]

(* dup2 and close.                                                          *)
Move(t, from, to) == IF from = to THEN t ELSE Close(With(t, to, t[from]), from)

(* The child's part of sub_command, and execvp.                             *)
Exec(p) ==
  /\ proc[p].life = "born"
  /\ proc' = IF proc[p].cmd = "bad" THEN Ended(p, "zombie")
             ELSE [proc EXCEPT ![p].life = "run",
                     ![p].fds = Move(Move(@, proc[p].in, 0), proc[p].out, 1)]
  /\ UNCHANGED fill

Got(p) == [proc EXCEPT ![p].got = @ + 1]

(* A read: an item, or the end, at which a filter exits and a head as well. *)
(* A pipe is at its end when it is empty and nobody has it open to write.   *)
Read(p) ==
  /\ proc[p].life = "run" /\ proc[p].cmd \in {"filter", "head"}
  /\ proc[p].got = proc[p].put /\ (proc[p].cmd = "head" => proc[p].got = 0)
  /\ LET from == proc[p].fds[0]
         k == from.pipe
     IN \/ /\ from.at = "read" /\ fill[k] > 0
           /\ proc' = Got(p) /\ fill' = [fill EXCEPT ![k] = @ - 1]
        \/ /\ from.at = "read" /\ fill[k] = 0 /\ ~Written(k)
           /\ proc' = Ended(p, "zombie") /\ UNCHANGED fill
        \/ /\ from.at \in {"in", "tty"} /\ proc[p].got < Supply
           /\ proc' = Got(p) /\ UNCHANGED fill
        \/ /\ from.at \in {"in", "tty"} /\ (from.at = "in" => proc[p].got = Supply)
           /\ proc' = Ended(p, "zombie") /\ UNCHANGED fill

(* A write: a full pipe blocks, one that nobody has open to read kills.     *)
Write(p) ==
  /\ proc[p].life = "run"
  /\ IF proc[p].cmd = "source" THEN proc[p].put < Supply ELSE proc[p].put < proc[p].got
  /\ LET to == proc[p].fds[1]
         k == to.pipe
         put == [proc EXCEPT ![p].put = @ + 1]
     IN IF to.at # "write" THEN proc' = put /\ UNCHANGED fill
        ELSE IF ~Readable(k) THEN proc' = Ended(p, "killed") /\ UNCHANGED fill
        ELSE /\ fill[k] < PipeBuf
             /\ proc' = put /\ fill' = [fill EXCEPT ![k] = @ + 1]

Finish(p) ==
  /\ proc[p].life = "run"
  /\ \/ proc[p].cmd = "source" /\ proc[p].put = Supply
     \/ proc[p].cmd = "head" /\ proc[p].put = 1
  /\ proc' = Ended(p, "zombie")
  /\ UNCHANGED fill

Run(p) == /\ (Exec(p) \/ Read(p) \/ Write(p) \/ Finish(p))
          /\ UNCHANGED <<shellFds, pc, line, local, lines>>

Shell == Stage \/ CloseWriteEnd \/ LastProgram \/ LastBuiltin \/ Exit \/ Wait
Next == ReadLine \/ Shell \/ \E p \in Children : Run(p)

Spec == Init /\ [][Next]_vars
FairSpec == Spec /\ WF_vars(Shell) /\ \A p \in Children : WF_vars(Run(p))

-----------------------------------------------------------------------------
(* Properties.                                                              *)

Objects == {Tty, InFile, OutFile} \cup {Rd(k) : k \in 1 .. Len(fill)}
                                  \cup {Wr(k) : k \in 1 .. Len(fill)}
IsTable(t) == IsFiniteSet(DOMAIN t) /\ DOMAIN t \subseteq Nat /\ Held(t) \subseteq Objects

TypeOK ==
  /\ IsTable(shellFds) /\ (pc # "exited" => 0 .. 2 \subseteq DOMAIN shellFds)
  /\ pc \in {"prompt", "stage", "piped", "wait", "exited"}
  /\ line \in Lines \cup {Empty} /\ lines \in 0 .. MaxLines
  /\ \A p \in Children :
       /\ proc[p].life \in {"none", "born", "run", "zombie", "killed", "reaped"}
       /\ IsTable(proc[p].fds)
       /\ p \in Live => 0 .. 2 \subseteq DOMAIN proc[p].fds
       /\ {proc[p].got, proc[p].put} \subseteq 0 .. Supply
  /\ \A k \in DOMAIN fill : fill[k] \in 0 .. PipeBuf

Running == {p \in Children : proc[p].life = "run"}
Next_to(p, q) == proc[p].line = proc[q].line /\ proc[q].idx = proc[p].idx + 1

(* "Others uses pipe to create pipeline" (README:52): what one program      *)
(* writes is read by the next command of its line and by nobody else,       *)
(* whatever was leaked, redirected or left running by lines before.         *)
StraightPipe ==
  \A p \in Running :
    LET in == proc[p].fds[0]
        out == proc[p].fds[1]
    IN /\ (in.at = "read") <=> (proc[p].idx > 1)
       /\ (out.at = "write") <=> (proc[p].pipe # 0)
       /\ \A q \in Running :
            Next_to(p, q) <=> (out.at = "write" /\ proc[q].fds[0] = Rd(out.pipe))

(* A pipe's reader sees the end of its data as soon as the command before   *)
(* it has ended: but for the shell between its fork and its close, nobody   *)
(* else has the pipe open to write.                                         *)
WritersUpstream ==
  \A k \in DOMAIN fill :
    /\ \A p \in Writers(k) : proc[p].pipe = k
    /\ Wr(k) \in Held(shellFds) => pc = "piped" /\ k = Len(fill)

(* A line that runs a program leaves the shell's own input and output as    *)
(* they were before it.                                                     *)
StdioRestored ==
  pc = "wait" => <<shellFds[0], shellFds[1]>> = local.stdio

(* What a session costs: every pipe ever made keeps its read end, and every *)
(* line at most two copies of standard descriptors; nothing else is lost.   *)
LeakBounded ==
  pc = "prompt" =>
    LET kept == Cardinality(DOMAIN shellFds) - 3 - Len(fill)
    IN kept \in 0 .. 2 * lines /\ \A k \in DOMAIN fill : Rd(k) \in Held(shellFds)

(* The shell comes back: the last program of a line that is waited for sees *)
(* the end of its input.                                                    *)
PromptReturns == (pc # "prompt") ~> (pc \in {"prompt", "exited"})

(* And so does everything else come to its end, if every command behind it  *)
(* copies all it is given.                                                  *)
StagesEnd ==
  \A p \in Children :
    (proc[p].life = "run" /\ proc[p].rest \subseteq {"filter"})
      ~> (proc[p].life \in {"zombie", "killed", "reaped"})
=============================================================================
