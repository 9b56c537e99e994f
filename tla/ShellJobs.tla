------------------------------ MODULE ShellJobs ------------------------------
(***************************************************************************)
(* Job control of the shell in HW_3/main.cpp: the three stacks PGs_table,   *)
(* PGs_count and PGs_cmd, the terminal's foreground process group, the      *)
(* children from fork() to waitpid(), and the keyboard's signals.           *)
(*                                                                          *)
(* A step of the shell runs up to its next fork, wait or tcsetpgrp.  The    *)
(* data of pipelines (pipes, argv, globbing) is left out.                   *)
(* README:n is line n of HW_3/README.md.                                    *)
(***************************************************************************)
EXTENDS Integers, FiniteSets, SequencesExt

CONSTANTS
  Lines,      \* what may be typed, see Line below
  Children,   \* the pids fork() may return
  Careful,    \* TRUE: fg and bg are typed only when there is a job
  MaxCmds     \* bound of the runs: the shell reads no line on a longer PGs_cmd

Init_pid == 1     \* the number PGs_count starts every job with; never a child
Shell == 2        \* the shell's pid, also its process group

Builtins == {"export", "jobs", "fg", "bg"}
Program(c) == c \notin Builtins \cup {"null"}     \* "null": no argv at all

(* A parsed line: its commands, "&", and "<" and ">".                       *)
Empty == [cmds |-> <<"null">>, amp |-> FALSE, in |-> FALSE, out |-> FALSE]

ASSUME LinesAssumption ==
  \A l \in Lines : /\ DOMAIN l = DOMAIN Empty
                   /\ l.cmds \in Seq(STRING) \ {<<>>}
                   /\ {l.amp, l.in, l.out} \subseteq BOOLEAN
ASSUME ChildrenAssumption ==
  IsFiniteSet(Children) /\ Children \subseteq Nat \ (0 .. 2)
ASSUME CarefulAssumption == Careful \in BOOLEAN
ASSUME MaxCmdsAssumption == MaxCmds \in Nat

VARIABLES
  PGs_table, PGs_count, PGs_cmd,  \* groups, pids per group, command lines
  stdio,     \* what the shell's own descriptors 0 and 1 are open on
  tty,       \* the terminal's foreground process group
  proc,      \* the children; job and line say what forked them (history)
  shellPc,   \* where the shell is; "lost": it has popped its own entry
  line,      \* cmd_buf, parsed
  local      \* locals of run and sub_command

tables == <<PGs_table, PGs_count, PGs_cmd>>
vars == <<tables, stdio, tty, proc, shellPc, line, local>>

NoLocal == [idx |-> 0, pid |-> 0, w |-> 0, status |-> "garbage"]
NoProc == [life |-> "none", pgid |-> 0, job |-> 0, line |-> Empty,
           masked |-> FALSE, table |-> <<>>, stopped |-> FALSE, sigint |-> FALSE]

Init ==
  /\ PGs_table = <<Shell>>
  /\ PGs_count = <<<<Init_pid>>>>
  /\ PGs_cmd = <<Empty>>
  /\ stdio = [in |-> "tty", out |-> "tty"]
  /\ tty = Shell
  /\ proc = [p \in Children |-> NoProc]
  /\ shellPc = "prompt"
  /\ line = Empty
  /\ local = NoLocal

-----------------------------------------------------------------------------
(* Process groups and signals.                                              *)

Live(p) == proc[p].life \in {"born", "ready", "run"}
Members(g) == {p \in Children : Live(p) /\ proc[p].pgid = g}

(* A group is there as long as one process of it, dead or not, is unreaped. *)
GroupExists(g) == g = Shell \/ \E p \in Children : proc[p].pgid = g

Continue(g) ==
  [p \in Children |-> IF p \in Members(g)
                      THEN [proc[p] EXCEPT !.stopped = FALSE] ELSE proc[p]]

(* tcsetpgrp on descriptors 0, 1 and 2 in turn: the first failure ends it,  *)
(* so descriptor 0 decides.  SIGTTOU is ignored; the groups it is given     *)
(* always have an unreaped process of that pid, which Linux accepts even    *)
(* before that process has become a group leader.                           *)
SetForeground(io, g) == tty' = IF io.in = "tty" THEN g ELSE tty

-----------------------------------------------------------------------------
(* The shell.                                                               *)

Cmd == line.cmds[local.idx]
IsLast == local.idx = Len(line.cmds)

(* Before the last command of a line, run puts its own descriptors on the   *)
(* files.  It puts them back only after a program.                          *)
Redirected ==
  [in  |-> IF IsLast /\ line.in THEN "file" ELSE stdio.in,
   out |-> IF IsLast /\ line.out THEN "file" ELSE stdio.out]

\* Seeded fault: the pids of the job stay.
PopTableOnly == PGs_table' = Front(PGs_table) /\ UNCHANGED PGs_count
PopJob == PGs_table' = Front(PGs_table) /\ PGs_count' = Front(PGs_count)

\* Seeded fault: back() for [SHELL_PG_IDX].
LastEntry == Last(PGs_table)
ShellEntry == PGs_table[1]

(* PGs_table[SHELL_PG_IDX] and PGs_table.back() are undefined once the      *)
(* shell has popped its own entry: the model stops there.                   *)
Go(pc) == shellPc' = IF PGs_table' = <<>> THEN "lost" ELSE pc

Prompt == Go("prompt") /\ line' = Empty /\ local' = NoLocal

(* A builtin returns to run with PGs_cmd = cmds: the loop over the pipeline *)
(* goes on, or the entry of the line itself is popped.                      *)
Return(cmds) ==
  IF IsLast
  THEN PGs_cmd' = Front(cmds) /\ Prompt
  ELSE /\ PGs_cmd' = cmds
       /\ Go("stage")
       /\ local' = [local EXCEPT !.idx = @ + 1]
       /\ UNCHANGED line

Free == {p \in Children : proc[p].life = "none"}

(* getline, the start of run, the parser.  A shell that is not in the       *)
(* foreground gets an empty line (SIGTTIN is ignored: EIO); one that reads  *)
(* from a file gets its lines, and empty ones at its end.                   *)
Readable ==
  IF stdio.in = "file" THEN Lines \cup {Empty}
  ELSE IF tty = Shell THEN Lines ELSE {Empty}

ReadLine ==
  /\ shellPc = "prompt"
  /\ Len(PGs_cmd) < MaxCmds
  /\ \E l \in Readable :
       /\ Cardinality({i \in DOMAIN l.cmds : Program(l.cmds[i])}) <= Cardinality(Free)
       /\ Careful => \/ Len(PGs_table) > 1
                     \/ \A i \in DOMAIN l.cmds : l.cmds[i] \notin {"fg", "bg"}
       /\ line' = l
       /\ PGs_cmd' = Append(PGs_cmd, l)
  /\ shellPc' = "stage"
  /\ local' = [NoLocal EXCEPT !.idx = 1]
  /\ UNCHANGED <<PGs_table, PGs_count, stdio, tty, proc>>

(* Nothing to run: an empty line, or nothing after the last pipe.           *)
NullCommand ==
  /\ shellPc = "stage" /\ Cmd = "null"
  /\ stdio' = Redirected
  /\ UNCHANGED <<tables, tty, proc>>
  /\ Prompt

Exit ==
  /\ shellPc = "stage" /\ line.cmds = <<"exit">>
  /\ shellPc' = "exited"
  /\ UNCHANGED <<tables, stdio, tty, proc, line, local>>

(* export, unset and jobs change nothing but what run does around them.     *)
Report ==
  /\ shellPc = "stage" /\ Cmd \in {"export", "jobs"}
  /\ stdio' = Redirected
  /\ UNCHANGED <<PGs_table, PGs_count, tty, proc>>
  /\ Return(PGs_cmd)

\* Seeded fault: the command line of the job stays.
BgReturnKeepsCmd == Return(PGs_cmd)
BgReturn == Return(Front(PGs_cmd))

Bg ==
  /\ shellPc = "stage" /\ Cmd = "bg"
  /\ stdio' = Redirected
  /\ proc' = Continue(Last(PGs_table))
  /\ PopJob
  /\ UNCHANGED tty
  /\ BgReturn

Fg ==
  /\ shellPc = "stage" /\ Cmd = "fg"
  /\ stdio' = Redirected
  /\ proc' = Continue(Last(PGs_table))
  /\ SetForeground(Redirected, Last(PGs_table))
  /\ shellPc' = "fgwait"
  /\ local' = [local EXCEPT !.w = 1]
  /\ UNCHANGED <<tables, line>>

Reap(p) == proc' = [proc EXCEPT ![p].life = "reaped", ![p].pgid = 0]

(* One turn of fg's loop.  waitpid fails at once on a pid that is no child  *)
(* (the 1 every job starts with) or is reaped; without WUNTRACED it reports *)
(* no stop.                                                                 *)
FgWait ==
  /\ shellPc = "fgwait"
  /\ local.w <= Len(Last(PGs_count))
  /\ LET e == Last(PGs_count)[local.w]
         child == e \in Children
     IN IF child /\ proc[e].life # "reaped"
        THEN /\ proc[e].life = "zombie"
             /\ Reap(e)
             /\ local' = [local EXCEPT !.w = @ + 1, !.status = "exited"]
        ELSE local' = [local EXCEPT !.w = @ + 1] /\ UNCHANGED proc
  /\ UNCHANGED <<tables, stdio, tty, shellPc, line>>

(* After the loop: status is uninitialised when every waitpid failed, so    *)
(* WIFSTOPPED may answer anything.                                          *)
FgDone ==
  /\ shellPc = "fgwait"
  /\ local.w > Len(Last(PGs_count))
  /\ \E wifstopped \in IF local.status = "exited" THEN {FALSE} ELSE BOOLEAN :
       IF wifstopped
       THEN UNCHANGED <<PGs_table, PGs_count>> /\ Return(PGs_cmd)
       ELSE PopJob /\ Return(Front(PGs_cmd))
  /\ SetForeground(stdio, ShellEntry)
  /\ UNCHANGED <<stdio, proc>>

\* Seeded fault: the second command of a line counts as its first.
FirstOffByOne == local.idx = 2
IsFirst == local.idx = 1

(* fork() of a program.  The child starts in the shell's group with a copy  *)
(* of PGs_table; only for the last command are the signals unblocked before *)
(* the fork.                                                                *)
Fork ==
  /\ shellPc = "stage"
  /\ Program(Cmd) /\ line.cmds # <<"exit">>
  /\ \E p \in Free :
       /\ \A r \in Free : p <= r
       /\ proc' = [proc EXCEPT ![p] =
            [NoProc EXCEPT !.life = "born", !.pgid = Shell, !.line = line,
                           !.job = IF IsFirst THEN p ELSE Last(PGs_table),
                           !.masked = ~IsLast, !.table = PGs_table]]
       /\ IF IsFirst
          THEN /\ PGs_table' = Append(PGs_table, p)
               /\ PGs_count' = Append(PGs_count, <<Init_pid>>)
          ELSE /\ PGs_count' = [PGs_count EXCEPT ![Len(PGs_count)] = Append(@, p)]
               /\ UNCHANGED PGs_table
       /\ IF IsLast
          THEN /\ local' = [local EXCEPT !.pid = p]
               /\ shellPc' = IF line.amp THEN "back" ELSE "give"
          ELSE local' = [local EXCEPT !.idx = @ + 1] /\ UNCHANGED shellPc
  /\ UNCHANGED <<PGs_cmd, stdio, tty, line>>

\* Seeded fault: the terminal goes to the last process, not its group.
LastPid == local.pid
ForegroundGroup == Last(PGs_table)

Give ==
  /\ shellPc = "give"
  /\ SetForeground(stdio, ForegroundGroup)
  /\ shellPc' = "wait"
  /\ UNCHANGED <<tables, stdio, proc, line, local>>

\* Seeded fault: no WUNTRACED.
StopUnseen == FALSE
StopSeen == proc[local.pid].stopped

\* Seeded fault: WIFSTOPPED is not tested.
WaitStoppedPops ==
  /\ shellPc = "wait" /\ StopSeen
  /\ PGs_cmd' = Front(PGs_cmd)
  /\ PopJob
  /\ Go("back")
  /\ UNCHANGED <<stdio, tty, proc, line, local>>

(* waitpid(pid, &status, WUNTRACED) on the last command of the line.        *)
WaitStopped ==
  /\ shellPc = "wait" /\ StopSeen
  /\ shellPc' = "back"
  /\ UNCHANGED <<tables, stdio, tty, proc, line, local>>

WaitExited ==
  /\ shellPc = "wait"
  /\ proc[local.pid].life = "zombie"
  /\ Reap(local.pid)
  /\ PGs_cmd' = Front(PGs_cmd)
  /\ PopJob
  /\ Go("back")
  /\ UNCHANGED <<stdio, tty, line, local>>

TakeBack ==
  /\ shellPc = "back"
  /\ SetForeground(stdio, ShellEntry)
  /\ UNCHANGED <<tables, stdio, proc>>
  /\ Prompt

-----------------------------------------------------------------------------
(* A child between fork() and its end.                                      *)

(* A signal is handled before the child's next instruction.                 *)
Undelivered(p) == proc[p].sigint /\ (proc[p].masked => proc[p].life = "ready")

(* setpgid: an own group for the first command, else the group of the job,  *)
(* which fails if nobody has made that group yet.                           *)
ChildJoin(p) ==
  /\ proc[p].life = "born" /\ ~proc[p].stopped /\ ~Undelivered(p)
  /\ LET first == proc[p].job = p
         target == IF first THEN p
                   ELSE IF proc[p].table = <<>> THEN Shell ELSE Last(proc[p].table)
     IN proc' = [proc EXCEPT ![p].life = "ready",
                             ![p].pgid = IF first \/ GroupExists(target)
                                         THEN target ELSE @]
  /\ UNCHANGED <<tables, stdio, tty, shellPc, line, local>>

(* The shell's handler, KillChildren, runs in the child until execvp: it    *)
(* passes the signal to the last group of the child's copy of PGs_table.    *)
(* On an empty copy front() and back() are undefined.                       *)
ChildHandle(p) ==
  /\ proc[p].life \in {"born", "ready"} /\ ~proc[p].stopped /\ Undelivered(p)
  /\ IF proc[p].table = <<>>
     THEN \E life \in {proc[p].life, "zombie"} :
            proc' = [proc EXCEPT ![p].sigint = FALSE, ![p].life = life]
     ELSE proc' = [q \in Children |->
            [proc[q] EXCEPT
               !.sigint = \/ q \in Members(Last(proc[p].table))
                          \/ q # p /\ @,
               !.table = IF q = p THEN Front(@) ELSE @]]
  /\ UNCHANGED <<tables, stdio, tty, shellPc, line, local>>

(* Unblock the signals and execvp, which puts the handlers back to default. *)
ChildExec(p) ==
  /\ proc[p].life = "ready" /\ ~proc[p].stopped /\ ~proc[p].sigint
  /\ proc' = [proc EXCEPT ![p].life = "run", ![p].masked = FALSE, ![p].table = <<>>]
  /\ UNCHANGED <<tables, stdio, tty, shellPc, line, local>>

ChildEnd(p) ==
  /\ proc[p].life = "run" /\ ~proc[p].stopped
  /\ proc' = [proc EXCEPT ![p].life = "zombie", ![p].sigint = FALSE]
  /\ UNCHANGED <<tables, stdio, tty, shellPc, line, local>>

ChildExit(p) == ~proc[p].sigint /\ ChildEnd(p)
ChildKilled(p) == proc[p].sigint /\ ChildEnd(p)

-----------------------------------------------------------------------------
(* The keyboard: signals go to the foreground group.  The shell handles     *)
(* both by doing nothing.                                                   *)

PressInt ==
  /\ \E p \in Members(tty) : ~proc[p].sigint
  /\ proc' = [p \in Children |-> IF p \in Members(tty)
                THEN [proc[p] EXCEPT !.sigint = TRUE] ELSE proc[p]]
  /\ UNCHANGED <<tables, stdio, tty, shellPc, line, local>>

PressStop ==
  /\ \E p \in Members(tty) : ~proc[p].stopped
  /\ proc' = [p \in Children |-> IF p \in Members(tty)
                THEN [proc[p] EXCEPT !.stopped = TRUE] ELSE proc[p]]
  /\ UNCHANGED <<tables, stdio, tty, shellPc, line, local>>

-----------------------------------------------------------------------------
ShellRun ==
  \/ NullCommand \/ Exit \/ Report \/ Bg \/ Fg \/ FgWait \/ FgDone
  \/ Fork \/ Give \/ WaitStopped \/ WaitExited \/ TakeBack

ChildRun(p) == ChildJoin(p) \/ ChildHandle(p) \/ ChildExec(p) \/ ChildKilled(p)

Next ==
  \/ ReadLine \/ ShellRun
  \/ \E p \in Children : ChildRun(p) \/ ChildExit(p)
  \/ PressInt \/ PressStop

Spec == Init /\ [][Next]_vars

(* The kernel runs the shell and its children; nobody has to type, and no   *)
(* program has to end on its own.                                           *)
FairSpec == Spec /\ WF_vars(ShellRun) /\ \A p \in Children : WF_vars(ChildRun(p))

-----------------------------------------------------------------------------
(* Properties.                                                              *)

Pids == {Init_pid} \cup Children
Proc == [life : {"none", "born", "ready", "run", "zombie", "reaped"},
         pgid : {0, Shell} \cup Children, job : {0, Shell} \cup Children,
         line : Lines \cup {Empty}, masked : BOOLEAN,
         table : Seq({Shell} \cup Children),
         stopped : BOOLEAN, sigint : BOOLEAN]

(* Types; and PGs_table and PGs_count, pushed and popped at different       *)
(* places, always have the same number of entries.                          *)
TypeOK ==
  /\ PGs_table \in Seq({Shell} \cup Children)
  /\ PGs_count \in Seq(Seq(Pids)) /\ Len(PGs_count) = Len(PGs_table)
  /\ PGs_cmd \in Seq(Lines \cup {Empty})
  /\ stdio \in [in : {"tty", "file"}, out : {"tty", "file"}]
  /\ tty \in {Shell} \cup Children
  /\ proc \in [Children -> Proc]
  /\ shellPc \in {"prompt", "stage", "give", "wait", "back", "fgwait", "exited", "lost"}
  /\ line \in Lines \cup {Empty}
  /\ local \in [idx : Nat, pid : {0} \cup Children, w : Nat,
                status : {"garbage", "exited"}]

(* jobs shows every group with the command line that started it: the stacks *)
(* PGs_table and PGs_cmd, popped at different places, stay in step          *)
(* (README:97-101).                                                         *)
JobsNameTheirCommands ==
  shellPc = "prompt" =>
    \A i \in 2 .. Len(PGs_table) :
      i <= Len(PGs_cmd) /\ PGs_cmd[i] = proc[PGs_table[i]].line

(* fg waits for the processes of the job it continues: PGs_count[i] lists   *)
(* only processes forked for the job PGs_table[i].                          *)
CountsAreOfTheJob ==
  \A i \in 2 .. Len(PGs_table) : \A k \in 2 .. Len(PGs_count[i]) :
    proc[PGs_count[i][k]].job = PGs_table[i]

(* The shell's own entry is never popped (PGs_table[SHELL_PG_IDX] is read   *)
(* after every command).                                                    *)
ShellKeepsItsEntry == shellPc # "lost"

(* While the shell reads a line, the terminal is its own.                   *)
PromptOwnsTerminal == shellPc = "prompt" => tty = Shell

(* While the shell waits, the keyboard belongs to the job it waits for.     *)
ForegroundOwnsTerminal ==
  shellPc \in {"wait", "fgwait"} /\ stdio.in = "tty" =>
    tty = IF shellPc = "wait" THEN proc[local.pid].job ELSE Last(PGs_table)

(* A single command suspended in the foreground can be found again: at the  *)
(* prompt it is in the list that jobs, fg and bg use.  (Stopped before its  *)
(* setpgid it may be lost: bg then finds no group to continue.)             *)
StoppedJobsListed ==
  shellPc = "prompt" => \A p \in Children :
    /\ proc[p].stopped /\ proc[p].pgid = proc[p].job
    /\ ~proc[p].line.amp /\ Len(proc[p].line.cmds) = 1
    => \E i \in DOMAIN PGs_table : PGs_table[i] = proc[p].job

(* README:123: the keyboard does not reach a program started with "&".      *)
BackgroundOutOfReach ==
  \A p \in Children :
    proc[p].line.amp /\ proc[p].life = "run" => proc[p].pgid # tty

(* README:123 ('You will not be able to control "find" with your keyboard'): *)
(* no key typed at another command reaches, by whatever way, a running       *)
(* program that was started with "&".                                       *)
KeysStayInForeground ==
  \A p \in Children : proc[p].line.amp /\ proc[p].life = "run" => ~proc[p].sigint

(* README:87: Ctrl-Z on the command the shell waits for brings the prompt   *)
(* back.                                                                    *)
WaitedIsStopped ==
  \/ shellPc = "wait" /\ proc[local.pid].stopped
  \/ /\ shellPc = "fgwait"
     /\ \E p \in Members(Last(PGs_table)) : TRUE
     /\ \A p \in Members(Last(PGs_table)) : proc[p].stopped
PromptAfterStop == WaitedIsStopped ~> shellPc = "prompt"

=============================================================================
