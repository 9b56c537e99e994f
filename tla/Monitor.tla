------------------------------- MODULE Monitor -------------------------------
(***************************************************************************)
(* The preloaded call monitor HW_2/inject.c.  Every wrapper looks up the    *)
(* function it stands for, calls it, counts the call and writes a line to   *)
(* stderr.  What makes this hard is that the C library calls some wrappers  *)
(* itself (dlsym calls calloc, nearly everything may call malloc or free),  *)
(* and that old_..., call_count and fname are shared by all threads.        *)
(*                                                                          *)
(* A thread has a stack of calls; a step of it is one stage of the call on  *)
(* top.  Arguments, results and the text of the lines are left out, but for *)
(* the path of a stream.                                                    *)
(***************************************************************************)
EXTENDS Naturals, FiniteSets, SequencesExt

CONSTANTS
  Threads,        \* 1 runs main; the others start later
  Calls,          \* wrapped functions each thread calls
  Streams,        \* the stream its calls are about, of each thread
  monitor_MAGIC,  \* 12 in the source
  Early,          \* allocator calls before the constructor
  MaxCalls        \* bound of the runs: calls all threads make in main

(* The wrappers by their shape.                                             *)
Directory == {"readdir", "readdir_r", "closedir", "fdopendir", "opendir",
              "rewinddir", "seekdir", "telldir", "creat", "open"}
Stream == {"fclose", "fdopen", "fflush", "fgetc", "fgets", "fopen", "fputs",
           "fread", "fwrite", "remove", "rename", "setbuf", "setvbuf",
           "tempnam", "tmpfile", "tmpnam"}
Memory == {"mkdtemp", "mkstemp", "putenv", "rand", "rand_r", "realloc",
           "setenv", "srand", "system"}
Process == {"chdir", "chown", "close", "dup", "dup2", "execl", "execle",
            "execlp", "execv", "execve", "execvp", "fchdir", "fchown", "fork",
            "fsync", "ftruncate", "getcwd"}
Identity == {"getegid", "geteuid", "getgid", "link", "pipe", "pread", "pwrite",
             "read", "readlink", "rmdir", "setegid", "seteuid", "setgid",
             "setuid", "sleep", "symlink", "unlink", "write"}
FileStatus == {"chmod", "fchmod", "fstat", "lstat", "mkdir", "mkfifo", "stat",
               "__lxstat", "umask", "putchar", "puts", "ftell", "ungetc", "vfork"}
Ends == {"exit", "_exit"}
Wrappers == Directory \cup Stream \cup Memory \cup Process \cup Identity \cup FileStatus
            \cup Ends \cup {"malloc", "calloc", "free", "getenv", "getuid", "fputc"}

ASSUME ThreadsAssumption == IsFiniteSet(Threads) /\ 1 \in Threads
ASSUME CallsAssumption == Calls \in [Threads -> SUBSET Wrappers] /\ DOMAIN Streams = Threads
ASSUME SizeAssumption == {monitor_MAGIC, Early, MaxCalls} \subseteq Nat

VARIABLES
  found,       \* the originals known: old_... is not NULL
  temporary,   \* old_calloc is temporary_calloc
  call_count,
  fname,       \* the path looked up last, by any thread
  env,         \* what MONITOR_OUTPUT says (Init)
  stderr,      \* what descriptor 2 is open on
  boot,        \* how far the loader and the constructor are
  stack,       \* of each thread: the calls it is in, the innermost last
  buffer,      \* threads for which dlsym has its own memory (glibc)
  calls,       \* calls each thread of the program has made, for the bound
  cheated,     \* who got NULL from temporary_calloc (history)
  last         \* the line this step has written (history)

kept == <<found, temporary, call_count, fname>>
outside == <<stderr, boot, buffer, calls>>
vars == <<env, stack, kept, outside, cheated, last>>

\* Which original a wrapper calls.
Original(fn) ==
  CASE fn = "fsync" -> "fork"        \* sic, inject.c:737
    [] fn = "setgid" -> "setegid"    \* sic, inject.c:843
    [] fn = "execl" -> "execv"
    [] fn = "execlp" -> "execvp"
    [] fn = "execle" -> "execvpe"
    [] OTHER -> fn

PathFirst == {"fputc", "fclose", "fflush", "fgetc", "fgets", "fputs", "fread",
              "fwrite", "setvbuf"}
PathAfter == {"fdopen", "setbuf", "tmpfile", "ftell", "ungetc"}

(* Wrappers that write a line only when enough calls have been counted.     *)
Quiet == {"malloc", "calloc", "free", "fclose"}

(* The stages of a call; "load" and "store" are call_count++.               *)
GET_ORIG_RET == <<"resolve", "real", "load", "store">>
get_path == <<"readlink", "path">>

\* Seeded fault: fclose looks its path up when the stream is closed.
StagesPathLate(fn) ==
  CASE fn = "malloc" -> <<"resolve", "real", "log", "load", "store">>
    [] fn = "calloc" -> <<"check", "real", "log", "load", "store">>
    [] fn = "free" -> <<"resolve", "real", "load", "store", "log">>
    [] fn = "exit" -> <<"log", "resolve", "finalize", "end">>
    [] fn = "_exit" -> <<"log", "resolve", "end">>
    [] fn \in (PathFirst \cup PathAfter) -> GET_ORIG_RET \o get_path \o <<"log">>
    [] OTHER -> GET_ORIG_RET \o <<"log">>

Stages(fn) ==
  CASE fn = "malloc" -> <<"resolve", "real", "log", "load", "store">>
    [] fn = "calloc" -> <<"check", "real", "log", "load", "store">>
    [] fn = "free" -> <<"resolve", "real", "load", "store", "log">>
    [] fn = "exit" -> <<"log", "resolve", "finalize", "end">>
    [] fn = "_exit" -> <<"log", "resolve", "end">>
    [] fn \in PathFirst -> get_path \o GET_ORIG_RET \o <<"log">>
    [] fn \in PathAfter -> GET_ORIG_RET \o get_path \o <<"log">>
    [] OTHER -> GET_ORIG_RET \o <<"log">>

Frame(fn, who, stages, stream) ==
  [fn |-> fn, who |-> who, left |-> stages, stream |-> stream,
   asked |-> FALSE, n |-> 0, shut |-> FALSE, over |-> FALSE]

NoLine == [fn |-> "none", stream |-> "none", path |-> "none", over |-> FALSE, to |-> "none"]

Init ==
  /\ found = {}
  /\ temporary = FALSE
  /\ call_count = 0
  /\ fname = "none"
  /\ env \in {"stderr", "file"}
  /\ stderr = "terminal"
  /\ boot = "early"
  /\ stack = [t \in Threads |-> <<>>]
  /\ buffer = {}
  /\ calls = [t \in Threads |-> 0]
  /\ cheated = {}
  /\ last = NoLine

-----------------------------------------------------------------------------
(* Stages.                                                                  *)

Top(t) == Last(stack[t])

(* A lookup is due until the original is known; malloc's always is.         *)
Due(frame, stage) ==
  CASE stage = "check" -> ~temporary /\ "calloc" \notin found
    [] stage = "readlink" -> "readlink" \notin found
    [] stage = "resolve" -> frame.fn = "malloc" \/ Original(frame.fn) \notin found
    [] OTHER -> TRUE

\* What is left of a call without the lookups that are not due.
Left(frame) ==
  IF Due(frame, Head(frame.left)) THEN frame.left ELSE Tail(frame.left)

At(t, stages) == stack[t] # <<>> /\ Head(Left(Top(t))) \in stages

Done(frame) == [frame EXCEPT !.left = Tail(Left(frame)), !.asked = FALSE]

\* The call on top goes on as frame, or returns.
Step(t, frame) ==
  stack' = [stack EXCEPT ![t] = IF frame.left = <<>> THEN Front(@)
                                ELSE Append(Front(@), frame)]

\* The call on top calls another one, once at this stage.
Nested(t, frame) ==
  stack' = [stack EXCEPT ![t] = Front(@) \o <<[Top(t) EXCEPT !.asked = TRUE], frame>>]

\* Seeded fault: nothing stands in for calloc while it is looked up.
CheckOnly(t) ==
  /\ At(t, {"check"})
  /\ Step(t, [Top(t) EXCEPT !.left = <<"resolve">> \o Tail(@)])
  /\ UNCHANGED <<kept, outside, cheated>>

(* calloc without an original sets temporary_calloc and looks it up.        *)
Check(t) ==
  /\ At(t, {"check"})
  /\ temporary' = TRUE
  /\ Step(t, [Top(t) EXCEPT !.left = <<"resolve">> \o Tail(@)])
  /\ UNCHANGED <<outside, cheated, found, call_count, fname>>

Target(t) == IF At(t, {"readlink"}) THEN "readlink" ELSE Original(Top(t).fn)

\* Seeded fault: dlsym's result for calloc is not kept.
ResolveKeepsTemporary(t) ==
  /\ At(t, {"resolve", "readlink"})
  /\ found' = found \cup {Target(t)}
  /\ Step(t, Done(Top(t)))
  /\ UNCHANGED <<outside, cheated, temporary, call_count, fname>>

(* get_old_func; malloc looks its original up in every call.                *)
Resolve(t) ==
  /\ At(t, {"resolve", "readlink"})
  /\ found' = found \cup {Target(t)}
  /\ temporary' = (temporary /\ Target(t) # "calloc")
  /\ Step(t, Done(Top(t)))
  /\ UNCHANGED <<outside, cheated, call_count, fname>>

(* "dlsym will use calloc" (inject.c:503), for memory of the thread.        *)
DlsymAllocates(t) ==
  /\ At(t, {"resolve", "readlink"})
  /\ ~Top(t).asked /\ t \notin buffer
  /\ Nested(t, Frame("calloc", "dlsym", Stages("calloc"), "none"))
  /\ UNCHANGED <<kept, outside, cheated>>

(* Originals that may allocate or free something of their own.              *)
Allocating == Stream \cup {"fputc", "opendir", "fdopendir", "closedir", "realloc", "putenv",
                          "setenv", "system", "getcwd", "puts", "putchar", "ungetc"}

Inside(t) ==
  /\ At(t, {"real"})
  /\ Top(t).fn \in Allocating /\ ~Top(t).asked
  /\ \E fn \in {"malloc", "free"} : Nested(t, Frame(fn, "libc", Stages(fn), "none"))
  /\ UNCHANGED <<kept, outside, cheated>>

(* The original does its work.                                              *)
Real(t) ==
  /\ At(t, {"real"})
  /\ LET f == Top(t)
         cheat == f.fn = "calloc" /\ temporary
     IN /\ cheated' = IF cheat THEN cheated \cup {f.who} ELSE cheated
        /\ buffer' = IF f.who = "dlsym" /\ ~cheat THEN buffer \cup {t} ELSE buffer
        /\ stderr' = IF f.fn = "dup2" /\ f.who = "monitor" THEN "file" ELSE stderr
        /\ Step(t, [Done(f) EXCEPT !.shut = f.fn = "fclose"])
  /\ UNCHANGED <<kept, boot, calls>>

Load(t) ==
  /\ At(t, {"load"})
  /\ Step(t, [Done(Top(t)) EXCEPT !.n = call_count])
  /\ UNCHANGED <<kept, outside, cheated>>

Store(t) ==
  /\ At(t, {"store"})
  /\ call_count' = Top(t).n + 1
  /\ Step(t, [Done(Top(t)) EXCEPT !.n = 0])
  /\ UNCHANGED <<outside, found, temporary, fname, cheated>>

(* get_file_path or get_fd_path; a stream that is closed has no path.       *)
Path(t) ==
  /\ At(t, {"path"})
  /\ fname' = IF Top(t).shut THEN "none" ELSE Top(t).stream
  /\ stack' = [u \in Threads |->
       IF u = t THEN Append(Front(stack[t]), [Done(Top(t)) EXCEPT !.over = FALSE])
       ELSE [k \in DOMAIN stack[u] |-> [stack[u][k] EXCEPT !.over = TRUE]]]
  /\ UNCHANGED <<outside, cheated, found, temporary, call_count>>

Loud(fn) == fn \in Quiet => call_count > monitor_MAGIC

\* Lines written only when there is something to name.
Named == {"readdir", "readdir_r", "closedir", "fdopendir", "rewinddir"}

Log(t) ==
  /\ At(t, {"log"})
  /\ LET f == Top(t) IN
       \E null \in IF f.fn \in Named THEN BOOLEAN ELSE {FALSE} :
         last' = IF null \/ ~Loud(f.fn) THEN NoLine ELSE
           [fn |-> f.fn, stream |-> f.stream, over |-> f.over, to |-> stderr,
            path |-> IF f.fn \in PathFirst \cup PathAfter THEN fname ELSE "none"]
  /\ Step(t, Done(Top(t)))
  /\ UNCHANGED <<kept, outside, cheated>>

(* exit runs the destructor, which closes the output through the wrapper.   *)
Finalize(t) ==
  /\ At(t, {"finalize"})
  /\ stack' = [stack EXCEPT ![t] =
       Append(Front(@), Done(Top(t)))
         \o (IF env = "file" THEN <<Frame("fclose", "monitor", Stages("fclose"), "output")>>
             ELSE <<>>)]
  /\ UNCHANGED <<kept, outside, cheated>>

End(t) ==
  /\ At(t, {"end"})
  /\ boot' = "over"
  /\ stack' = [u \in Threads |-> <<>>]
  /\ UNCHANGED <<kept, cheated, stderr, buffer, calls>>

-----------------------------------------------------------------------------
(* The loader, the constructor and the program.                             *)

Begin(t, frame) == stack' = [stack EXCEPT ![t] = <<frame>>]

\* Other libraries are set up before the monitor is.
EarlyCall ==
  /\ boot = "early" /\ stack[1] = <<>> /\ calls[1] < Early
  /\ calls' = [calls EXCEPT ![1] = @ + 1]
  /\ \E fn \in {"malloc", "calloc", "free"} : Begin(1, Frame(fn, "program", Stages(fn), "none"))
  /\ UNCHANGED <<kept, cheated, stderr, boot, buffer>>

\* Seeded fault: the constructor forgets dup2.
InitializetionNoDup ==
  /\ stack[1] = <<>>
  /\ \/ /\ boot = "early" /\ boot' = "getenv"
        /\ Begin(1, Frame("getenv", "monitor", GET_ORIG_RET, "none"))
     \/ /\ boot = "getenv" /\ boot' = "main" /\ UNCHANGED stack
  /\ UNCHANGED <<kept, cheated, stderr, buffer, calls>>

(* The constructor: getenv, and for a file fopen and dup2, each through its *)
(* original but none with a line.                                           *)
Initializetion ==
  /\ stack[1] = <<>>
  /\ calls' = [t \in Threads |-> 0]
  /\ \/ /\ boot = "early" /\ boot' = "getenv"
        /\ Begin(1, Frame("getenv", "monitor", GET_ORIG_RET, "none"))
     \/ /\ boot = "getenv" /\ env = "file" /\ boot' = "fopen"
        /\ Begin(1, Frame("fopen", "monitor", GET_ORIG_RET, "none"))
     \/ /\ boot = "fopen" /\ boot' = "dup2"
        /\ Begin(1, Frame("dup2", "monitor", GET_ORIG_RET, "none"))
     \/ /\ boot = "dup2" \/ (boot = "getenv" /\ env = "stderr")
        /\ boot' = "main" /\ UNCHANGED stack
  /\ UNCHANGED <<kept, cheated, stderr, buffer>>

(* The program calls a wrapper.  To start a thread it has called            *)
(* pthread_create, and that calls calloc.                                   *)
Call(t) ==
  /\ boot = "main" /\ stack[t] = <<>>
  /\ t # 1 => "calloc" \in found
  /\ SumFunction(calls) < MaxCalls
  /\ calls' = [calls EXCEPT ![t] = @ + 1]
  /\ \E fn \in Calls[t] : Begin(t, Frame(fn, "program", Stages(fn), Streams[t]))
  /\ UNCHANGED <<kept, stderr, boot, buffer, cheated>>

(* main returns, and the library calls its own exit.                        *)
Return ==
  /\ boot = "main" /\ stack[1] = <<>>
  /\ Begin(1, Frame("exit", "libc", <<"finalize", "end">>, "none"))
  /\ UNCHANGED <<kept, outside, cheated>>

Thread(t) ==
  \/ Check(t) \/ Resolve(t) \/ DlsymAllocates(t) \/ Inside(t) \/ Real(t)
  \/ Load(t) \/ Store(t) \/ Path(t) \/ Finalize(t) \/ End(t)

Next ==
  /\ UNCHANGED env
  /\ \/ \E t \in Threads : Log(t)
     \/ /\ EarlyCall \/ Initializetion \/ Return \/ \E t \in Threads : Call(t) \/ Thread(t)
        /\ last' = NoLine

Spec == Init /\ [][Next]_vars

-----------------------------------------------------------------------------
(* Properties.                                                              *)

AllStages == {"check", "resolve", "real", "load", "store", "readlink",
              "path", "log", "finalize", "end"}

TypeOK ==
  /\ found \subseteq Wrappers \cup {"execvpe"}
  /\ temporary => "calloc" \notin found
  /\ call_count \in Nat
  /\ fname \in Range(Streams) \cup {"none", "output"}
  /\ stderr \in {"terminal", "file"}
  /\ boot \in {"early", "getenv", "fopen", "dup2", "main", "over"}
  /\ buffer \subseteq Threads
  /\ \A t \in Threads, k \in 1 .. 8 : k <= Len(stack[t]) =>
       /\ stack[t][k].fn \in Wrappers /\ stack[t][k].left # <<>>
       /\ \A j \in DOMAIN stack[t][k].left : stack[t][k].left[j] \in AllStages
       /\ k < Len(stack[t]) => stack[t][k].asked \/ Head(stack[t][k].left) = "end"

(* A wrapper is never called before the one it is called from has what it   *)
(* needs to come to an end: calls nest no deeper than exit, the closing of  *)
(* the output, an allocation there, dlsym's calloc and the one that the     *)
(* lookup of calloc itself makes.                                           *)
NoRunaway == \A t \in Threads : Len(stack[t]) <= 5

(* "dlsym will use calloc,so use a NULL to cheat it" (inject.c:503): it,    *)
(* and nobody else, is ever given the NULL of temporary_calloc.             *)
OnlyDlsymIsCheated == cheated \subseteq {"dlsym"}

(* "replace stderr with specific file" (inject.c:197): with MONITOR_OUTPUT  *)
(* a file, no line goes to the terminal, as long as few enough allocator    *)
(* calls come before the constructor (8 in the source).                     *)
LogGoesToOutput ==
  env = "file" /\ Early + 4 <= monitor_MAGIC => last.to # "terminal"

(* A line names the stream its call was about, unless another thread looked *)
(* a path up between this call's lookup and its line: calls nested in this  *)
(* one never get in the way.                                                *)
PathIsCallers ==
  last.fn \in PathFirst \cup PathAfter /\ ~last.over => last.path = last.stream
=============================================================================
