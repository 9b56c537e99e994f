------------------------------ MODULE ShellWords ------------------------------
(***************************************************************************)
(* From text to commands in the shell of HW_3/main.cpp: run calls parser    *)
(* for one command after the other, parser cuts words off the line, expands *)
(* patterns and takes the operators out, and the commands are then run with *)
(* the words it stored.  What running them means for jobs and descriptors   *)
(* is the business of ShellJobs and ShellPipes.                             *)
(*                                                                          *)
(* A step is one word.  Positions are counted in words: cmd_offset is the   *)
(* number of words before cmd + cmd_offset.                                 *)
(***************************************************************************)
EXTENDS Naturals, FiniteSets, SequencesExt

CONSTANTS
  Programs,      \* plain words; as commands, programs
  Builtins,      \* plain words; as commands, builtins
  Patterns,      \* words with "*" or "?"
  Matches,       \* the names glob finds for a pattern
  MAX_ARGC,      \* 256 in the source
  MAX_PIPE_NUM,  \* 20 in the source
  MaxWords       \* bound of the runs: words of a line

Operators == {"<", ">", "|", "&"}
Words == Programs \cup Builtins \cup Patterns \cup Operators

\* What is no word: the end of a line, no file, a null pointer, no pointer.
Marks == {"end", "none", "NULL", "junk"}

(* The names found are paths from the root, so none is an operator.         *)
ASSUME WordsAssumption ==
  /\ Words \cap Marks = {}
  /\ (Programs \cup Builtins) \cap (Patterns \cup Operators) = {}
  /\ Patterns \cap Operators = {}
  /\ DOMAIN Matches = Patterns
  /\ \A p \in Patterns : Matches[p] \in Seq(Range(Matches[p]) \ (Operators \cup Marks))
ASSUME SizeAssumption ==
  {MAX_ARGC, MAX_PIPE_NUM} \subseteq Nat \ {0} /\ MaxWords \in Nat

VARIABLES
  text,         \* cmd_buf, as its words
  next,         \* the word strtok(NULL) will find
  pc,
  argv_store,   \* locals of run
  cmd_idx,
  cmd_offset,
  argc,         \* argc_store[cmd_idx]
  ret,          \* what parser returns
  parse_end,    \* globals
  REDIRECT_IN,  \* the file name, if there is one
  REDIRECT_OUT,
  BACKGROUND_MODE,
  glob_result,  \* the word glob was called for last, 0 for no names held
  freed         \* the calls of glob whose names globfree has freed

locals == <<argv_store, cmd_idx, cmd_offset, argc>>
flags == <<REDIRECT_IN, REDIRECT_OUT, BACKGROUND_MODE>>
heap == <<glob_result, freed>>
vars == <<text, next, pc, ret, parse_end, locals, flags, heap>>

(* A char * in argv_store: the word it points at, and for a name from glob  *)
(* the word of the line it was found for.                                   *)
Arg(word, glob) == [word |-> word, glob |-> glob]
Null == Arg("NULL", 0)
Junk == Arg("junk", 0)

Fresh == [c \in 0 .. MAX_PIPE_NUM - 1 |-> [a \in 0 .. MAX_ARGC - 1 |-> Junk]]

Init ==
  /\ text = <<>> /\ next = 1 /\ pc = "prompt"
  /\ argv_store = Fresh /\ cmd_idx = 0 /\ cmd_offset = 0 /\ argc = 0 /\ ret = 0
  /\ parse_end = 0
  /\ REDIRECT_IN = "none" /\ REDIRECT_OUT = "none" /\ BACKGROUND_MODE = FALSE
  /\ glob_result = 0 /\ freed = {}

\* Seeded fault: "&" is never forgotten.
ReadLineKeepsMode ==
  /\ pc = "prompt"
  /\ \E n \in 0 .. MaxWords : text' \in [1 .. n -> Words]
  /\ pc' = "first" /\ parse_end' = 0
  /\ REDIRECT_IN' = "none" /\ REDIRECT_OUT' = "none"
  /\ UNCHANGED <<next, locals, ret, heap, BACKGROUND_MODE>>

(* getline, and run up to its first call of parser.                         *)
ReadLine ==
  /\ pc = "prompt"
  /\ \E n \in 0 .. MaxWords : text' \in [1 .. n -> Words]
  /\ pc' = "first" /\ parse_end' = 0
  /\ REDIRECT_IN' = "none" /\ REDIRECT_OUT' = "none" /\ BACKGROUND_MODE' = FALSE
  /\ UNCHANGED <<next, locals, ret, heap>>

-----------------------------------------------------------------------------
(* parser.                                                                  *)

Here == IF next <= Len(text) THEN text[next] ELSE "end"

\* argv[a], argv[a + 1], ... = args
Put(a, args) ==
  argv_store' = [argv_store EXCEPT ![cmd_idx] =
    [b \in DOMAIN @ |-> IF b \in a .. a + Len(args) - 1 THEN args[b - a + 1] ELSE @[b]]]

Return(n) == ret' = n /\ pc' = "loop"

(* The first word, whatever it is.                                          *)
ParseFirst ==
  /\ pc = "first" /\ cmd_idx < MAX_PIPE_NUM
  /\ LET first == cmd_offset + 1 IN
       IF first > Len(text) THEN Put(0, <<Null>>) /\ Return(0) /\ UNCHANGED next
       ELSE /\ Put(0, <<Arg(text[first], 0)>>)
            /\ next' = first + 1 /\ pc' = "word" /\ UNCHANGED ret
  /\ argc' = 1
  /\ UNCHANGED <<text, cmd_idx, cmd_offset, parse_end, flags, heap>>

Room(n) == argc + n <= MAX_ARGC
InLoop == pc = "word" /\ Room(1)

ParseEnd ==
  /\ InLoop /\ Here = "end"
  /\ Put(argc, <<Null>>) /\ Return(0)
  /\ UNCHANGED <<text, next, cmd_idx, cmd_offset, argc, parse_end, flags, heap>>

ParseWord ==
  /\ InLoop /\ Here \in Programs \cup Builtins
  /\ Put(argc, <<Arg(Here, 0)>>) /\ argc' = argc + 1
  /\ next' = next + 1
  /\ UNCHANGED <<text, pc, cmd_idx, cmd_offset, ret, parse_end, flags, heap>>

(* All names, or the word itself if there is none.                          *)
ParsePattern ==
  /\ InLoop /\ Here \in Patterns /\ Room(Len(Matches[Here]))
  /\ LET names == Matches[Here] IN
       IF names = <<>>
       THEN Put(argc, <<Arg(Here, 0)>>) /\ argc' = argc + 1 /\ glob_result' = 0
       ELSE /\ Put(argc, [n \in DOMAIN names |-> Arg(names[n], next)])
            /\ argc' = argc + Len(names)
            /\ glob_result' = next
  /\ next' = next + 1
  /\ UNCHANGED <<text, pc, cmd_idx, cmd_offset, ret, parse_end, flags, freed>>

Tested(operator) == IF operator = "<" THEN {">", "|", "&"} ELSE {"|", "&"}

(* A redirection takes the next word for the file; without one, strcpy gets *)
(* NULL.  Behind it the tests go on with the word before, which is an       *)
(* operator if the command began with one; for ">" they then go on before   *)
(* the start of argv.                                                       *)
ParseRedirection ==
  /\ InLoop /\ Here \in {"<", ">"}
  /\ LET before == argv_store[cmd_idx][argc - 1].word
         file == IF next < Len(text) THEN text[next + 1] ELSE "none"
     IN /\ IF Here = "<" THEN REDIRECT_IN' = file /\ UNCHANGED REDIRECT_OUT
                         ELSE REDIRECT_OUT' = file /\ UNCHANGED REDIRECT_IN
        /\ CASE file = "none" ->
                  /\ pc' = "crashed"
                  /\ UNCHANGED <<argv_store, argc, ret, parse_end, BACKGROUND_MODE>>
             [] file # "none" /\ before \in Tested(Here) ->
                  /\ Put(argc - 1, <<Null, Null>>) /\ argc' = argc - 1
                  /\ IF before = ">" THEN pc' = "lost" /\ UNCHANGED ret
                     ELSE Return(IF before = "|" THEN 1 ELSE 0)
                  /\ parse_end' = IF before = "|" THEN 0 ELSE parse_end
                  /\ BACKGROUND_MODE' = (BACKGROUND_MODE \/ before = "&")
             [] OTHER ->
                  Put(argc, <<Null>>) /\ UNCHANGED <<pc, argc, ret, parse_end, BACKGROUND_MODE>>
  /\ next' = next + 2
  /\ UNCHANGED <<text, cmd_idx, cmd_offset, heap>>

ParsePipe ==
  /\ InLoop /\ Here = "|"
  /\ Put(argc, <<Null>>) /\ Return(next - cmd_offset) /\ parse_end' = 0
  /\ next' = next + 1
  /\ UNCHANGED <<text, cmd_idx, cmd_offset, argc, flags, heap>>

ParseAmp ==
  /\ InLoop /\ Here = "&"
  /\ Put(argc, <<Null>>) /\ Return(0) /\ BACKGROUND_MODE' = TRUE
  /\ next' = next + 1
  /\ UNCHANGED <<text, cmd_idx, cmd_offset, argc, parse_end, REDIRECT_IN, REDIRECT_OUT, heap>>

(* Too many words or commands: the arrays overflow, and the model stops.    *)
Overflow ==
  /\ \/ pc = "first" /\ cmd_idx >= MAX_PIPE_NUM
     \/ pc = "word" /\ ~Room(1)
     \/ pc = "word" /\ Here \in Patterns /\ ~Room(Len(Matches[Here]))
  /\ pc' = "lost"
  /\ UNCHANGED <<text, next, cmd_idx, cmd_offset, argc, ret, parse_end, argv_store, flags, heap>>

-----------------------------------------------------------------------------
(* run.                                                                     *)

\* Seeded fault: the test of parse_end is left out.
LoopOn ==
  /\ pc = "loop"
  /\ cmd_offset' = cmd_offset + ret
  /\ IF cmd_offset + ret = 0 \/ argc = 0
     THEN pc' = "stage" /\ UNCHANGED <<cmd_idx, parse_end>>
     ELSE pc' = "first" /\ parse_end' = 1 /\ cmd_idx' = cmd_idx + 1
  /\ argc' = 0 /\ ret' = 0
  /\ UNCHANGED <<text, next, argv_store, flags, heap>>

(* The loop's condition is the sum, not what parser returned: parse_end     *)
(* tells that there was no further pipe.                                    *)
Loop ==
  /\ pc = "loop"
  /\ cmd_offset' = cmd_offset + ret
  /\ IF cmd_offset + ret = 0 \/ argc = 0 \/ parse_end = 1
     THEN pc' = "stage" /\ UNCHANGED <<cmd_idx, parse_end>>
     ELSE pc' = "first" /\ parse_end' = 1 /\ cmd_idx' = cmd_idx + 1
  /\ argc' = 0 /\ ret' = 0
  /\ UNCHANGED <<text, next, argv_store, flags, heap>>

\* Seeded fault: a builtin frees the names, too.
ForksAlways(command) == command # "NULL"

(* What fork() is called for.                                               *)
Forks(command) == command \notin Builtins \cup {"NULL"}

(* sub_command, for one command after the other (argc counts them here):    *)
(* after a fork, the shell frees what glob found last.  A builtin frees     *)
(* nothing.  NULL is looked at by all but the last one.                     *)
Stage ==
  /\ pc = "stage" /\ argc < cmd_idx
  /\ LET command == argv_store[argc][0].word IN
       /\ pc' = IF command = "NULL" THEN "crashed" ELSE pc
       /\ freed' = IF Forks(command) THEN freed \cup ({glob_result} \ {0}) ELSE freed
       /\ glob_result' = IF Forks(command) THEN 0 ELSE glob_result
  /\ argc' = argc + 1
  /\ UNCHANGED <<text, next, argv_store, cmd_idx, cmd_offset, ret, parse_end, flags>>

(* The last command.  Then cmd_buf is cleared and run's locals are gone, as *)
(* are all names that glob found for this line.                             *)
LastStage ==
  /\ pc = "stage" /\ argc = cmd_idx
  /\ pc' = "prompt" /\ text' = <<>> /\ next' = 1 /\ ret' = 0
  /\ argv_store' = Fresh /\ cmd_idx' = 0 /\ cmd_offset' = 0 /\ argc' = 0
  /\ glob_result' = 0 /\ freed' = {}
  /\ UNCHANGED <<parse_end, flags>>

Parser == ParseFirst \/ ParseEnd \/ ParseWord \/ ParsePattern \/ ParseRedirection
          \/ ParsePipe \/ ParseAmp \/ Overflow
Next == ReadLine \/ Parser \/ Loop \/ Stage \/ LastStage

Spec == Init /\ [][Next]_vars

-----------------------------------------------------------------------------
(* Properties.                                                              *)

Files == {"none"} \cup Words
Args == {Null, Junk} \cup
  [word : Words \cup UNION {Range(Matches[p]) : p \in Patterns}, glob : 0 .. MaxWords]

TypeOK ==
  /\ text \in Seq(Words) /\ Len(text) <= MaxWords
  /\ next \in 1 .. MaxWords + 2
  /\ pc \in {"prompt", "first", "word", "loop", "stage", "crashed", "lost"}
  /\ argv_store \in [0 .. MAX_PIPE_NUM - 1 -> [0 .. MAX_ARGC - 1 -> Args]]
  /\ cmd_idx \in 0 .. MAX_PIPE_NUM
  /\ argc \in 0 .. MAX_ARGC + (IF pc \in {"stage", "crashed"} THEN MAX_PIPE_NUM ELSE 0)
  /\ {cmd_offset, ret} \subseteq 0 .. Len(text) /\ parse_end \in {0, 1}
  /\ {REDIRECT_IN, REDIRECT_OUT} \subseteq Files /\ BACKGROUND_MODE \in BOOLEAN
  /\ glob_result \in 0 .. MaxWords /\ freed \subseteq 1 .. MaxWords

(* What a line means, word by word: the first word of a command names it, a *)
(* word behind "<" or ">" is a file, and nothing counts behind "&".         *)
Operator(word) ==
  CASE word = "<" -> "in" [] word = ">" -> "out" [] word = "|" -> "pipe"
    [] word = "&" -> "amp" [] OTHER -> "arg"

Roles ==
  LET role[k \in 1 .. Len(text)] ==
        IF k = 1 THEN "name"
        ELSE CASE role[k - 1] = "pipe" -> "name"
               [] role[k - 1] \in {"in", "out"} -> "file"
               [] role[k - 1] \in {"amp", "rest"} -> "rest"
               [] OTHER -> Operator(text[k])
  IN role

Having(roles) == {k \in 1 .. Len(text) : Roles[k] \in roles}
CommandOf(k) == Cardinality({j \in Having({"pipe"}) : j < k})

Expanded(k) ==
  IF Roles[k] = "arg" /\ text[k] \in Patterns /\ Matches[text[k]] # <<>>
  THEN Matches[text[k]] ELSE <<text[k]>>

Meant(c) ==
  FlattenSeq([k \in 1 .. Len(text) |->
    IF Roles[k] \in {"name", "arg"} /\ CommandOf(k) = c THEN Expanded(k) ELSE <<>>])

FileMeant(role) ==
  LET files == {k \in Having({"file"}) : Roles[k - 1] = role}
  IN IF files = {} THEN "none" ELSE text[Max(files)]

\* The words execvp will find.
Stored(c) ==
  LET end == Min({a \in 0 .. MAX_ARGC - 1 : argv_store[c][a] = Null})
  IN [a \in 1 .. end |-> argv_store[c][a - 1].word]

\* No command begins with an operator.
Plain == \A k \in Having({"name"}) : text[k] \notin Operators

(* The commands, arguments, files and "&" of a line are those written in    *)
(* it, whatever the lines before were; README:35-79.                        *)
LineAsWritten ==
  pc = "stage" /\ Plain =>
    /\ cmd_idx = Cardinality(Having({"pipe"}))
    /\ \A c \in 0 .. cmd_idx : Stored(c) = Meant(c)
    /\ REDIRECT_IN = FileMeant("in") /\ REDIRECT_OUT = FileMeant("out")
    /\ BACKGROUND_MODE = (Having({"amp"}) # {})

(* The shell comes to harm only by a line that lacks a file, begins a       *)
(* command with an operator, or has more words or commands than the arrays  *)
(* have room for.                                                           *)
HarmNeedsOddLine ==
  pc \in {"crashed", "lost"} =>
    \/ ~Plain
    \/ text # <<>> /\ Roles[Len(text)] \in {"in", "out"}
    \/ Cardinality(Having({"pipe"})) >= MAX_PIPE_NUM
    \/ \E c \in 0 .. cmd_idx : Len(Meant(c)) >= MAX_ARGC

\* A command before c that a process was forked for.
ForkedBefore(c) == \E b \in 0 .. c - 1 : argv_store[b][0].word \notin Builtins

(* README:69 ("Expand of the * and ? operators"): the names a command is    *)
(* run with have not been freed.  For the first fork of a line that is so,  *)
(* behind any number of builtins; for the commands after it it is not.      *)
NamesAlive ==
  pc = "stage" /\ ~ForkedBefore(argc) =>
    \A a \in 0 .. MAX_ARGC - 1 : argv_store[argc][a].glob \notin freed
=============================================================================
