# Models and proofs for the UNIX programming homeworks

The repository holds four independent C/C++ programs. This directory keeps
TLA+ models of them, TLC configurations that check the models on small
instances, and proofs checked by TLAPS. `PROJECT.json` lists components, runs,
seeded faults (one per checked property), findings, hazards and theorems, and
maps every definition to the lines it models.

## The system

| part | state | operations | hard behaviour |
|---|---|---|---|
| **HW_4 othello** (`othello.cpp`, `othello_lib.cpp`): a two-player game over TCP; the server is player 1, the client player 2 | per process: the global `board`, the record `comm` shared by two threads (turn, pending move, restart and quit flags), `targetFD`; between them a byte stream per direction | main thread: connect, then read and parse commands (`update`); play thread: draw, apply a received move, restart, quit, skip a turn, put a disc (`play_game`) | four threads; fields read outside the locks; a stream that joins commands together; a peer that is gone; a restart crossing a move |
| **HW_3 shell** (`main.cpp`): pipelines, redirection, job control | `PGs_table`, `PGs_count`, `PGs_cmd` (three parallel stacks), the terminal's foreground group, descriptors, signal mask | `run`, `sub_command`, `parser`, `jobs`/`fg`/`bg`, signal handlers | fork races on process groups, three stacks kept in step by hand, suspended jobs, waiting |
| **HW_1 netstat clone** (`main.c`) | the list of connections (`conn_house_head`), the list of processes with their socket inodes (`pid_house_head`), the latter built once | read `/proc/net/{tcp,tcp6,udp,udp6}`, scan `/proc`, join the lists, print | tables and `/proc` change while they are read; a process that is gone or ending; an inode array of fixed size; rows kept from one option to the next |
| **HW_2 call monitor** (`inject.c`) | one resolved pointer per wrapped function, a call count, shared path buffers, the descriptor the lines go to | resolve on first use, forward, count, write a line; constructor and destructor | recursion through the allocator, calls before the log is in place, buffers and a count shared by threads |

The four programs do not interact. Within the shell, `parser` and the loop of
`run` turn text into commands, which the rest of `run` turns into processes,
joined by pipes on one side and by process groups and the terminal on the other;
`ShellWords`, `ShellPipes` and `ShellJobs` model these three concerns of the
same function, each with the outcome of `ShellWords` (commands, files, `&`) as
its input.

### What makes each part correct

* **othello rules**: valid cells are exactly those on which a move turns a disc;
  a move never takes a disc from the mover; a turn is skipped only if the other
  side can move.
* **othello peers**: never two users with the turn; the boards agree up to the
  one move under way; a turn handed over arrives; quitting ends both programs;
  a restart ends with two equal boards.
* **shell**: a line means what is written in it, whatever the line before was;
  the three stacks describe the same jobs; a foreground job owns the terminal;
  every program reads what the one before it writes and sees its end; the
  shell's own input and output come back; the prompt comes back.
* **netstat**: a socket that holds still has one row for every reading of its
  table, with a process that had it; no row names a process that never had the
  socket, but for the sockets of a process that was ending.
* **call monitor**: looking up and writing never recurse without end; no caller
  but dlsym is ever given the NULL meant for dlsym; lines go where
  `MONITOR_OUTPUT` says and name the stream their call was about.

## Modules

| module | models |
|---|---|
| `OthelloRules` | the rules as operators: `init_board`, `get_valid_loc`, `adjust_game`, `is_my_turn_valid`, `is_time_to_end`. The loops that walk a line of discs are one operator, `RunLength`; the board size is a parameter |
| `OthelloGame` | the abstract specification: one board, one turn, `Put` and `Skip` |
| `Othello` | the two programs: both threads of each, the shared record, the connection. Implements `OthelloGame` |
| `OthelloMC` | values of `Restarts` for the runs |
| `OthelloRulesProofs` | lemmas about the rules: what a walk finds, what a move does to the numbers of discs |
| `OthelloGameProofs` | theorems about `OthelloGame` |
| `OthelloProofs` | theorems about `Othello`, and that it implements `OthelloGame` |
| `ShellJobs` | the shell's job control: stacks, process groups, terminal, signals, children from fork to wait |
| `ShellMC` | the lines typed in the runs of `ShellJobs` |
| `ShellJobsProofs` | theorems about `ShellJobs` |
| `ShellWords` | from text to commands: `parser` word by word, the loop around it, what `glob` finds and `globfree` frees |
| `ShellWordsMC` | what the patterns of the run match |
| `ShellWordsProofs` | theorems about `ShellWords` |
| `ShellPipes` | descriptors and data: the pipes, copies and redirections of `run`, the children's descriptors, programs that read and write |
| `PipesMC` | the lines typed in the run of `ShellPipes` |
| `ShellPipesProofs` | theorems about `ShellPipes` |
| `NetAddr` | the address columns: hexadecimal fields to numbers, and how the kernel prints them |
| `NetStat` | the netstat clone and the world it looks at |
| `NetMC` | sockets, addresses and options for the run of `NetStat` |
| `NetStatProofs` | theorems about `NetStat` |
| `Monitor` | the preloaded call monitor |
| `MonitorMC` | the calls made in the run of `Monitor` |
| `MonitorProofs` | theorems about `Monitor` |

### Othello: state and steps

`comm[p]`, `board[p]` and `targetFD[p]` are the globals of process `p`
(`I_AM = p`). `playPc[p]` and `netPc[p]` say where its two threads are. A step
runs from one lock section, or one unlocked access to a shared field, to the
next:

* `Net...` is the main thread: `server_connect` and `client_connect` up to
  `is_start` and `targetFD` (in different orders, as in the code), then the
  read loop: look at `lost_con`, read, parse the first command (`Update`).
  `NetReadData` may take several commands off the stream and lose all but the
  first, since `strtok`/`sscanf` stop there. End of stream (`NetReadEof`), reset
  (`NetReadError`) and "no data" are separate outcomes.
* `Play...` is `play_game`: wait for `is_start`, the `restart` label, and the
  main loop cut at its five lock sections: `conn`, `update`, `flags`, `eval`
  (with the second look at `need_quit`, the test for the end of the game and the
  decision to skip, all taken before the lock of the skip itself), `skip`, `key`.
* `SockWrite` is `sock_write`: sent, dropped on a full buffer (`EAGAIN`),
  written to file descriptor 0, failed (`lost_con` is set) or fatal (`SIGPIPE`).

Left out: the cursor (a user plays any cell `is_valid_loc` accepts), the
screen, the log files, failures of `bind`/`listen`/`pthread_create`, and a
command split between two reads (commands are below 30 bytes and are
written whole; joining commands is what the tests below turn on).

### Shell: state and steps

`PGs_table`, `PGs_count` and `PGs_cmd` are the vectors of the code, as sequences
(entry 1 is the shell's, `SHELL_PG_IDX`). `shellPc` and `local` say where the
shell is in `run`/`sub_command`, `line` is the parsed `cmd_buf`, `stdio` what the
shell's own descriptors are open on, `tty` the foreground group. `proc[p]` is a
child: its life (`born` after fork, `ready` after setpgid, `run` after execvp,
`zombie`, `reaped`), its group, whether it is stopped, whether SIGINT or SIGQUIT
is pending, whether it inherited the blocked mask, and until execvp its copy of
`PGs_table`, which the inherited handler `KillChildren` pops. `job` and `line`
are history: which pipeline forked the child.

* Shell: `ReadLine` (getline, parse, push on `PGs_cmd`); `Report`
  (export/unset/jobs), `Bg`, `Fg` with its loop `FgWait` and its end `FgDone`,
  `NullCommand`, `Exit`; `Fork`, `Give` (tcsetpgrp to the job), `WaitStopped` and
  `WaitExited`, `TakeBack` (tcsetpgrp to the shell).
* Child: `ChildJoin`, `ChildHandle` (the handler before execvp), `ChildExec`,
  `ChildExit`, `ChildKilled`.
* Keyboard: `PressInt`, `PressStop`, for the whole foreground group at once.

A step of the shell runs up to its next fork, wait or tcsetpgrp; children and
keys interleave with all of them, so the races between fork, setpgid, execvp,
tcsetpgrp and a key are there. `wifstopped` in `FgDone` is any Boolean when
`status` was never written. Once the shell has popped its own entry the reads of
the code are undefined and the model stops (`shellPc = "lost"`). The kernel's
part (groups, signals, waitpid, tcsetpgrp) is Linux's.

Left out: pipes and words (below), environment, `curr_PG` (written,
never read), failures of fork and pipe. Programs take the signals' default
actions and may end at any time.

### Shell words: state and steps

`text` is `cmd_buf` as a sequence of words, `next` the word `strtok(NULL)` finds,
`argv_store`, `cmd_idx`, `cmd_offset` and `argc` are the locals of `run`, `ret` is
what `parser` returns. A pointer in `argv_store` is a word, `NULL` or what was on
the stack, and remembers the call of `glob` it comes from. `ReadLine` starts a
line, `ParseFirst`, `ParseWord`, `ParsePattern`, `ParseRedirection`, `ParsePipe`,
`ParseAmp` and `ParseEnd` are the passes of `parser`'s loop by the word they find,
`Loop` is the condition and body of the `while` in `run`, `Stage` and `LastStage`
are `sub_command` as far as it frees names. Writing behind the arrays or looking
before them is undefined and the model stops (`"lost"`), as it does on a NULL
handed to `strcpy` or `strcmp` (`"crashed"`). `Roles`, in the properties, is the
reference: what each word of a line is, from the word before it.

### Shell pipes: state and steps

`shellFds` and `proc[p].fds` are descriptor tables: number to what it is open on.
`Stage` is a turn of `run`'s loop up to the fork, `CloseWriteEnd` the rest of it,
`LastProgram` and `LastBuiltin` the last command with the copies, the redirections
and (for a program only) what puts them back, `Wait` the wait for the last
process. A child sets its descriptors up and executes in one step (`Exec`).
Programs are one of four kinds: `source` writes, `filter` copies, `head` reads one
item, `bad` cannot be executed. Pipes have room for `PipeBuf` items and behave as
pipes do: end of file when empty with no writer, SIGPIPE when written to with no
reader. Left out: stops and process groups (`ShellJobs`), `fg`, `bg`.

### Netstat: state and steps

`loc` holds the locals of `main` and `create_db` (options, table, stdio's buffer,
the kernel's position, the line), `scan` those of `pid_factory` and
`create_pid_db`; the two lists are sequences, and what the program goes through
in order of its number (the directories of processes, the descriptors of one, the
rows in stdio's buffer) is the set of what is left, of which the least is
next. A step is one call that looks
outside: `OpenFile`, `ReadHead`, `ReadFirst` (the untested getline),
`ReadNext`, `info_parser` (with `get_connection_owner`), `pid_factory` (which lists
`/proc`), `ReadCmdline`, `ListFds`, `ReadLink`. Between any two of them the world
may take a step: a process opens or closes a socket, forks, begins to end (its
cmdline is then empty), gives its descriptors up, is waited for. A closed TCP
socket may keep a row with inode 0. `crashed` is `fopen`'s NULL handed to
`getline`, `lost` a store through a NULL `pid_house_tail` or behind the array.
`held` and `stirred` are history.

Left out: the remote address (converted by the same function), the text of the
rows, the filter string, the program name cut out of cmdline, the getopt table
without its terminating entry (an unknown long option reads past its end).

### Call monitor: state and steps

Every thread has a stack of calls, and a call a list of stages: `resolve` (the
lookup of `old_...`), `real` (the original), `load` and `store` (`call_count++`),
`readlink` and `path` (`get_file_path`), `log`. `Stages` gives each wrapper its
list; wrappers of one shape differ in name only, and `Original` holds the two that
call another function than their own. `DlsymAllocates` and `Inside` are the
calls the C library makes to wrappers by itself: dlsym to calloc until the thread
has a buffer of its own, many originals to malloc or free. `EarlyCall` is what
other libraries allocate before the constructor; `Initializetion` is the
constructor, `Finalize` the destructor. `exit` and a return from `main` both end
there; a return does not pass the `exit` wrapper.

Left out: arguments, results and the wording of the lines; the copies fork
makes; a program that closes or moves descriptor 2, and with it the log.

### Constants and bounds

* `BOARDSZ = 4` for the runs (the code has 8): the smallest board with moves.
  Its opening is the code's, the four middle cells.
* `MaxDiscs` stops the users from playing on fuller boards. A turn can first be
  skipped on a 4x4 board with 9 discs, so `othello_play` goes to 10 and sees
  skips and the moves after them; the other runs ask about hand-over, restart
  and quit, which do not depend on how full the board is, and stop at 6.
* `SendBuf` is the number of commands the socket takes before `EAGAIN`.
* `Coalesce` lets a read join commands; `EarlyKeys` lets a user type before
  `targetFD` is stored; `Restarts` says who presses R and when; `Quits` whether
  anybody presses Q.
* `othello_game` has no bound: it plays every 4x4 game to its end.
* `Children` are the pids there are, three in `shell_session`: a suspended
  command or a background one beside a pipeline of two, or three single
  commands. A line that needs more pids than are left is not typed. `MaxCmds`
  ends a session whose `PGs_cmd` has grown that long.
* `Lines` is what may be typed. `Careful` keeps fg and bg to sessions with a
  job. `shell_session` also has no empty lines (which put names and jobs out of
  step, see the hazards) and no builtins inside pipelines, which break the stacks.
* `MaxWords = 5` with `MAX_ARGC = 4` and `MAX_PIPE_NUM = 3` (256 and 20 in the
  source): every line of five words, enough for three commands, two
  redirections, an overflow of argv, and an operator in every place. The number
  of lines is not bounded.
* `PipeBuf = 1`, `Supply = 2`: a writer blocks before it is done. `MaxLines = 2`:
  the second line starts with whatever the first has left open or running.
* `Chunk = 2` lines in a read of a table: a table of two sockets takes several.
  `MAX_INODE_IN_PID = MaxFd = 2` (100 in the source): the array is full, and
  overflows only by sockets of another process. `MaxEvents = 2` changes of the
  world, at any moments, from any start with sockets numbered in order of
  their holders (`ScanInit`; the names of processes and sockets do not matter
  otherwise). `Foreign = {2}`: one process, neither the first nor the last, that
  the user may not look at, and that forks like the others.
* `monitor_MAGIC = 5` (12) and `Early = 1` (unknown): the least for which lines
  stay out of the way of the constructor's own calls, the case that matters.
  `MaxCalls = 2` calls of the program besides all that are nested in them.

### Fairness

`WF(Net(p)) /\ WF(Play(p))` for both processes: the kernel schedules all four
threads. Both loops poll (a non-blocking `read`, a `getch` that times out), so
each thread always has a step of its own until it ends; no key press is assumed
(`PlayIdle` is always possible where a key is). `accept` may block for ever when
the client was refused; no property depends on it.

Shell jobs: weak fairness for the shell's steps and for each child up to execvp
and for dying of a signal. Typing, keys and programs' own exits are not assumed.

Shell pipes: weak fairness for the shell and for every program: one that can
read, write or end does so. That is what the kernel gives to programs that do
nothing else; a program that reads the terminal may wait for ever, and a `head`
may leave its writer waiting. Netstat, words and monitor have no liveness
properties.

## What the runs show

| run | shows |
|---|---|
| `othello_game` | `ValidIffTurns`: the outward scan of `get_valid_loc` and the walk of `adjust_game` agree on every reachable board. `MoveGains`: discs are conserved by a move. `SkipIsFollowedByMove`: no endless passing |
| `othello_play` | `OneTurn`, `SameView` in every interleaving of the four threads, and `PlaysOneGame`: the programs implement `OthelloGame` under the mapping below |
| `othello_restart` | `TurnArrives`: a turn handed over is taken, with no help of the users. Restarts are clean when only the client restarts and only in its own turn: the server then has no move under way, cannot move before it has read the restart, and the client cannot move before the server has. `SameViewAtRest`, `OneTurnAtRest`, `RestartHonoured`: a restart that was read is obeyed. Users also quit at any moment: `QuitEndsBoth`, both processes end (which includes being killed by `SIGPIPE` or by the null pointer below) |
| `othello_any_restart` | **violation**: other restarts leave the boards different for good |
| `shell_session` | sessions of commands, pipelines, `&`, jobs, fg and bg with keys at any time. The stacks: `JobsNameTheirCommands`, `CountsAreOfTheJob`, `ShellKeepsItsEntry`. The terminal: `PromptOwnsTerminal`, `ForegroundOwnsTerminal` |
| `shell_stop` | no fg, but empty lines, redirected builtins and exit. `StoppedJobsListed`; `BackgroundOutOfReach`; `PromptAfterStop`: Ctrl-Z always brings the prompt back |
| `shell_fg_stop` | **violation**: fg, then Ctrl-Z on a pipeline, and no prompt comes back |
| `shell_stray_key` | **violation**: Ctrl-C at a command that is being started kills what runs in the background |
| `shell_words` | `LineAsWritten`: the imperative parser and a word-by-word reading agree on every line. `HarmNeedsOddLine`: which lines can bring the shell down. `NamesAlive`: how far the names of a pattern live |
| `shell_pipes` | `StraightPipe`, `WritersUpstream`: who is joined to whom, and to nobody else. `StdioRestored`, `LeakBounded`: what a line leaves behind in the shell. `PromptReturns`, `StagesEnd`: end of file arrives |
| `net_scan` | `RowsPerRead`, `QuietSocketsListed`: rows are neither lost nor doubled. `CreditsHolder`: whom a socket is put down to. `AddressesShown`. `DeathNeedsEnding`: the program dies only of a process that ended meanwhile or of a missing table |
| `monitor` | `NoRunaway`, `OnlyDlsymIsCheated`: the recursion through calloc ends, and hurts nobody. `LogGoesToOutput`: what the count of calls is there for. `PathIsCallers`: the shared path buffer |

Refinement mapping: a move happens when it is sent, so the abstract board is the
fuller of the two boards (a program that has not drawn its board yet counts as
the opening), and the turn is player 2's exactly if player 2's loop has it or a
command on its way to player 2 will give it.

The violations are entries of `findings`, each with the line it contradicts.
Other departures found on the way have no run of their own; the models have them,
and `hazards` names the line of each:

* othello: a server user who types before `targetFD` is stored writes to
  descriptor 0; the end of the stream is parsed as a command and hands NULL to
  `strcmp` ("Otherwise, you're good to go", `othello.cpp:666`);
* shell jobs: an empty line puts names and jobs out of step
  (`HW_3/README.md:97-101`); the second process of a pipeline may miss the group
  (`README.md:52`); fg does not wait for a single command (`README.md:105`); fg
  and bg without a job pop the shell's own entry; builtins in pipelines;
* shell pipes: read ends of pipes are never closed, neither by the shell nor by the
  writer itself, so a writer whose reader has gone gets no SIGPIPE and waits for
  ever; `<` has no effect in a pipeline; after a redirected builtin
  or an empty line with a redirection the shell stays on the file; `>` does not
  truncate;
* shell words: names found for a command behind the first process of a line are
  freed before it is executed (`README.md:69`); `<` and `>` without a file crash;
  at the end of its input the shell goes round with empty lines for ever
  (`main.cpp:453`);
* netstat: the head line of an empty table is a row ("get rid of head line",
  `main.c:465`); options given twice double the rows; sockets of an ending process
  are put down to the one before it; IPv6 groups are in reverse order;
* monitor: fsync forks, setgid sets the effective group, fdopendir and rewinddir
  swallow an entry, execl and its kin drop `argv[0]` and have room for 20 words,
  a `MONITOR_OUTPUT` that cannot be opened gives `fileno(NULL)`, threads lose
  counts.

## What is proved

TLAPS checks every theorem below for all values of the constants that satisfy
the named ASSUMEs of the modules; further hypotheses are stated in the theorem
and explained here. Each proof has an inductive invariant, with one lemma per
action or group of alike actions.

### Rules and game (`OthelloRulesProofs`, `OthelloGameProofs`)

For every even board size.

* `OfferedCellsTurnDiscs` (`ValidIffTurns`) holds of any board whatever:
  `RunLength`, the number of discs passed in one direction, exists and is unique
  (`RunExists`, `RunIsUnique`) because a walk leaves the board, and a walk from a
  disc that reaches the empty cell is, backwards, a walk from the cell that
  reaches the disc (`RunBack`).
* `MovesOnlyGain`, `SkipsAreAnswered`: `MoveCounts` counts the discs of each side
  before and after `Place`. Two facts make it work: every cell that is turned
  holds a disc of the other side, and the cell that is played was empty.
* `GameTypeCorrect` is the invariant the other two rest on.

### The two programs (`OthelloProofs`)

For every board size, buffer size and way of joining reads.

* `TypeCorrect` (`TypeOK`), restarts, quits and early keys included. `TypeOK` is
  not inductive: a received move is put on the board in the colour
  `comm.player`, whose initial value is 0. `TypeInv` adds that `comm.player`
  names a player whenever `need_update` is set.
* `TurnIsUnique` (`OneTurn`), without restarts. `OneTurn` says nothing about a
  play thread that has not reached its loop, about two commands on one channel,
  or about what a command carries. `TurnInv` adds: the server owns the turn from
  before its loop starts; at most one command that passes the turn is under way
  to a player, counting the one in the shared record; such a command names
  the players it should; a thread about to skip has the turn.
* `BoardsAgree` (`SameView`), without restarts and early keys. `ViewInv` adds
  what makes a move legal where it arrives (`Together`: what is under way to a
  player is legal on the player's own board, and its effect is all the sender is
  ahead), that a thread about to skip still has the board it decided on, and that
  nobody who plays has sent a quit, after which writes are lost.
* `ProgramsPlayOneGame` (`PlaysOneGame`), without restarts, early keys and
  quits: initial states of `Othello` map to initial states of `OthelloGame`,
  `PlayPut` maps to `Put` (`PutIsPut`), `PlaySkip` to `Skip` (`SkipIsSkip`), and
  every other step to a stutter (`NetUnseen`, `PlayUnseen`). The invariant
  `Linked` says that the connection is never lost, that a write of the turn
  arrives, and that a client the server has not accepted has not been played
  against.

* `RestartsAgree` (`SameViewAtRest`) and `RestartsKeepOneTurn` (`OneTurnAtRest`),
  when only the client restarts and only in its own turn, without early keys;
  users quit at any time. `RestartInv` says that while both programs live the
  game is in one of five phases (`Phases`): the server's turn, the client's, a
  move or skip on its way to one of them, or a restart on its way to the server;
  each phase says what the channels and the shared records hold, how the boards
  differ and who waits. Further: a thread about to skip has the turn and cannot
  move (`SkipsRightly`), before the server's socket is stored the game is at its
  opening, and the connection comes up in the order `Wired` says. The proof has a
  lemma per step that changes phase (`ReadPhase`, `UpdatePhase`, `PutPhase`,
  `PressPhase`, ...) and one for all the others (`PhaseFrame`). A program that has
  left never comes back (`NetKeepsLive`, `PlayKeepsLive`), so the invariant may
  say nothing once one has.

The hypotheses are what the code needs. With a restart at the wrong time the
boards differ for good (the finding of `othello_any_restart`). A server user who
types before `targetFD` is stored writes the move to descriptor 0, and one who
moves when the peer has quit makes a move that nobody hears of: with
`EarlyKeys` or `Quits` set to TRUE, TLC finds `PlaysOneGame` violated, and with
`EarlyKeys` `SameViewAtRest`.

### Shell jobs (`ShellJobsProofs`)

For every set of lines, every set of pids and every `MaxCmds`, with children and
keys at any time.

* Whatever is typed: `TypeCorrect`, `FgWaitsForItsJob` (`CountsAreOfTheJob`),
  `PromptHasTerminal`, `JobHasTerminal`. `JobInv` adds to the types where the
  shell's entry is and which locals are in range (`Place`), that only live
  processes are stopped, that entries of the stacks are pids that were forked for
  the job of their entry (`Known`), and whose the terminal is at each place in
  the shell (`Owner`).
* `ShellEntryStays` (`ShellKeepsItsEntry`), when fg and bg are only typed with a
  job (`Careful`) and builtins do not stand in pipelines (`Plain`). Without them
  the code pops its own entry. The invariant `Above`: a line that will pop an
  entry has pushed one or found one above the shell's.
* `JobsShowTheirLines` (`JobsNameTheirCommands`), when further no command is empty
  and no builtin has a `<` (`Listed`): the two stacks are pushed by different
  commands, so the invariant `InStep` counts the line that is on `PGs_cmd` but not
  yet on `PGs_table`.
* `StoppedJobsAreListed`, `BackgroundIsOutOfReach`: `Plain` lines without fg
  (which pops a job before it continues it, and gives it the terminal
  whatever its `&`), for the second with `&` behind single commands only. The
  hazard behind the last condition is the second process of a pipeline that
  misses its group. The invariant adds which group a process leads, that the
  first process of a line names the job of the others, and to whom the terminal
  is lent (`OwnGroups`, `LineFamilies`, `Lending`, `StoppedListed`).

### Shell pipes (`ShellPipesProofs`)

For every set of lines and children, and every `PipeBuf`, `Supply` and
`MaxLines`.

* `EndOfDataIsSeen` (`WritersUpstream`), `StdioComesBack` (`StdioRestored`): the
  invariant `FdInv` says what the shell's table holds at each place in `run`
  (`Position`), where the ends of every pipe can be (`PipeEnds`) and what a child
  has inherited (`ChildTable`).
* `LeakIsBounded`: the read end of each pipe stays open in the shell, and
  each line leaves at most two copies. `TableSize` counts the table at each place,
  with the lowest free number that `dup` takes.
* `PipesAreStraight` (`StraightPipe`): `LineInv` follows a child from fork to
  execvp, by its place in its line.

### Shell words (`ShellWordsProofs`)

For every set of words, patterns and names found, every size of the arrays and
every length of a line.

* `TypeCorrect` (`TypeOK`): `TypeInv` adds which offsets go with which place in
  the parser (`Place`).
* `LinesMeanWhatTheySay` (`LineAsWritten`), `HarmIsOdd` (`HarmNeedsOddLine`):
  `LineInv` says what the parser has stored when it has read the first words of
  a line: the commands before the current one are done (`Before`), the current
  one has the words meant for it so far (`Scanned`), and when there is nothing
  left all of the line has been stored (`Complete`). Each pass of the loop reads one
  word, or two for a redirection, and each has a lemma.
* `NamesStayAlive` (`NamesAlive`): up to the first fork of a line nothing of it
  has been freed, which `Place` says of every place before and of every builtin.

`Roles` and `FlattenSeq` are recursive functions: that there are such functions
is shown by induction along the line (`Induction`, `CastExists`, `FlatExists`), and
an induction here is an argument about the least element of a set of numbers
(`LeastExists`), which needs no operator as a parameter. A name found is taken
to be no operator (`WordsAssumption`): `glob` is called with the working directory
before the pattern (`main.cpp:111-114`), so names begin with `/`.

### Netstat (`NetStatProofs`)

For any processes, sockets, addresses, tables and command lines, whatever the
world does meanwhile.

* `ColumnsAreRight` (`AddressesShown`): the conversions, byte by byte, for
  every address the kernel can print (`Address` of `SocketAssumption`).
* `OwnersHeldTheirSockets` (`CreditsHolder`): `ScanInv` says of every entry of the
  list of processes what its inodes can be, where the scan is in the order of
  the pids, and that the entry at the end is that of the process being looked at
  unless that one is ending.
* `DeathIsExplained` (`DeathNeedsEnding`), if `MaxFd <= MAX_INODE_IN_PID`: a
  process with more sockets than the array has room for (100 in the source)
  overflows it all by itself, as the code does.
* `NoRowTwice` (`RowsPerRead`): `Counted` bounds the rows of each socket by the
  number of times its table was opened, and by one less while the table being
  read has not come to it; `Ordered` is why it comes to it once.
* `QuietSocketsAreListed` (`QuietSocketsListed`): no row of a socket that holds
  still is lost. `QuietInv` says where such a row can be at each place in the
  program: in the kernel's table, in the buffer or in the list (`AllRows`), and
  with which inode (`InodesShown`); then that the processes are looked at in
  order, that the first holder of the socket who may be looked at gets it into
  the entry being built (`ScanFirst`, `FirstMet`, `SocketsFound`), and that the
  row finds that entry (`RowsOwned`). For the process beside the row the property
  has a premise, that its first holder has the lowest number or is a child met
  on the way: a socket whose holder the user may not look at (an `sshd`) and who
  forks a child that is not met is listed without a process. With the weaker
  premise that some holder may be looked at, `net_scan` finds it violated.

### Monitor (`MonitorProofs`)

For any number of threads and calls, any `monitor_MAGIC` and `Early`.

* `OnlyDlsymGetsNull` (`OnlyDlsymIsCheated`), `CallsNestShallowly` (`NoRunaway`),
  `LinesNameTheirStream` (`PathIsCallers`), all from `MonitorInv`: what a call still
  has to do, by its function (`Plan`); who calls whom and how deep (`Nesting`);
  that while calloc's original is unknown there is one thread, and each of its
  callocs is looking, being looked up, or dlsym's (`Cheating`); and that a call
  past its own lookup of a path finds it in `fname` unless another thread has
  looked one up since (`PathKept`).
* `LogIsInItsFile` (`LogGoesToOutput`): until descriptor 2 is the file, only
  malloc, calloc and free can write a line, and they do so when more than
  `monitor_MAGIC` calls have been counted. `StartInv` bounds the calls counted,
  under way and still to come (`ToCome`) together by `Early + 6`: the constructor
  makes three, fopen has one inside it, and dlsym makes one for its own memory
  and one while calloc itself is looked up. A stage
  that is done does not raise the sum (`FinishedStart`), a call that is made is one
  of those still to come (`CalledStart`, `BegunStart`), and when a line may be
  written at least two are not counted yet (`StartIsQuiet`), whence the 4 of the
  property.

### Only model-checked

* Liveness, which is out of the prover's reach: `TurnArrives`, `QuitEndsBoth`,
  `RestartHonoured`, `PromptAfterStop`, `PromptReturns`, `StagesEnd`.

## Plan

All components with logic of their own are modelled, and every safety property
the runs check is proved for all values of the constants, under the hypotheses
named above. What is left is what no theorem can say here: liveness, and the
hazards of `PROJECT.json` that no property covers.

## Not modelled

* **Othello screen**: ncurses output and dumps to log files; nothing reads it
  back.
* **Layout and conversions of text**: netstat's columns, filter and program
  names; the wording of the monitor's lines; prompts and messages.
* **Environment of the shell** (`do_environVar`): `setenv` and `unsetenv` on the
  words given.
* **Arguments and results of monitored calls**: what `fsync` or `setgid` do
  instead of what they should depends on the system, not on the monitor's state.
* Makefiles and test scripts.
