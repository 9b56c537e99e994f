---------------------------- MODULE MonitorProofs ----------------------------
(***************************************************************************)
(* Proofs about Monitor.tla for any number of threads, calls and streams.   *)
(***************************************************************************)
EXTENDS Monitor, SequenceTheorems, TLAPS

-----------------------------------------------------------------------------
(* The invariant.                                                           *)

Lookups == {"check", "readlink", "resolve"}
PathFns == PathFirst \cup PathAfter
Names == {Streams[t] : t \in Threads} \cup {"none", "output"}

Frames == [fn : Wrappers, who : {"program", "monitor", "libc", "dlsym"}, left : Seq(AllStages),
           stream : Names, asked : BOOLEAN, n : Nat, shut : BOOLEAN, over : BOOLEAN]

Types ==
  /\ stack \in [Threads -> Seq(Frames)]
  /\ call_count \in Nat
  /\ temporary \in BOOLEAN

\* What a call still has to do, by its function.
Plan(f) ==
  \A i \in DOMAIN f.left :
    LET stage == f.left[i] IN
    /\ stage \in Lookups => i < Len(f.left) /\ f.left[i + 1] \notin Lookups
    /\ stage \in {"path", "finalize"} => i < Len(f.left)
    /\ stage = "check" => f.fn = "calloc"
    /\ stage \in {"check", "resolve"} /\ f.fn = "calloc" => i = 1
    /\ stage \in {"readlink", "path"} => f.fn \in PathFns
    /\ stage = "path" => ~f.shut
    /\ stage = "finalize" => f.fn = "exit"
    /\ stage = "end" => f.fn \in Ends
    /\ \A j \in DOMAIN f.left : i < j /\ f.left[j] = "path" =>
         stage # "log" /\ (stage = "real" => f.fn # "fclose")

Callers(f) == /\ f.who = "dlsym" => f.fn = "calloc"
              /\ f.who = "libc" => f.fn \in {"malloc", "free", "exit"}

\* Who calls whom, and how deep.
Nesting(t, k) ==
  LET f == stack[t][k]
      below == stack[t][k - 1].fn
  IN /\ f.fn \in Ends => k = 1
     /\ f.who \in {"program", "monitor"} => k <= 2
     /\ f.who = "libc" => k <= 3
     /\ f.who = "dlsym" => k > 1 /\ k <= IF below = "calloc" THEN 5 ELSE 4
     /\ k > 1 /\ f.fn = "calloc" /\ below = "calloc" =>
          f.left[1] # "resolve" /\ (temporary \/ "calloc" \in found)

SoundAt(t, k) ==
  /\ stack[t][k].left # <<>> /\ Plan(stack[t][k]) /\ Callers(stack[t][k])
  /\ Nesting(t, k)

Sound == \A t \in Threads : \A k \in DOMAIN stack[t] : SoundAt(t, k)

\* While calloc's original is not known there is one thread, and a calloc of
\* its is either just about to look, or being looked up, or dlsym's.
Cheating ==
  /\ temporary => /\ "calloc" \notin found
                  /\ \E k \in DOMAIN stack[1] : /\ stack[1][k].fn = "calloc"
                                                /\ stack[1][k].left[1] = "resolve"
  /\ "calloc" \notin found =>
       /\ \A t \in Threads \ {1} : stack[t] = <<>>
       /\ \A k \in DOMAIN stack[1] : stack[1][k].fn = "calloc" =>
            IF temporary
            THEN \/ stack[1][k].left[1] = "resolve"
                 \/ k = Len(stack[1]) /\ stack[1][k].who = "dlsym"
            ELSE k = Len(stack[1]) /\ stack[1][k].left[1] = "check"

\* A call past its own lookup of a path finds it in fname, unless another
\* thread has looked one up since; calls nested in it look none up.
PathKept ==
  \A t \in Threads : \A k \in DOMAIN stack[t] :
    LET f == stack[t][k] IN
    f.fn \in PathFns =>
      /\ \A j \in 1 .. k - 1 : stack[t][j].fn \notin PathFns
      /\ ~f.over /\ (\A i \in DOMAIN f.left : f.left[i] # "path") => fname = f.stream

NamedRight ==
  last.fn \in PathFns /\ ~last.over => last.path = last.stream

-----------------------------------------------------------------------------
(* The stages of a call.                                                    *)

LEMMA ConcatIs ==
  ASSUME NEW a \in Seq(AllStages), NEW b \in Seq(AllStages), NEW v \in Seq(AllStages),
         Len(v) = Len(a) + Len(b),
         \A i \in 1 .. Len(v) : v[i] = IF i <= Len(a) THEN a[i] ELSE b[i - Len(a)]
  PROVE  a \o b = v
<1>1. /\ a \o b \in Seq(AllStages) /\ Len(a \o b) = Len(a) + Len(b)
      /\ \A i \in 1 .. Len(a) + Len(b) :
           (a \o b)[i] = IF i <= Len(a) THEN a[i] ELSE b[i - Len(a)]
  BY ConcatProperties
<1> QED BY <1>1, SeqEqual

Plain == <<"resolve", "real", "load", "store", "log">>
Before == <<"readlink", "path", "resolve", "real", "load", "store">>
After == <<"resolve", "real", "load", "store", "readlink", "path">>
First == <<"readlink", "path", "resolve", "real", "load", "store", "log">>
Behind == <<"resolve", "real", "load", "store", "readlink", "path", "log">>

LEMMA StagesAre ==
  /\ GET_ORIG_RET \o <<"log">> = Plain
  /\ get_path \o GET_ORIG_RET \o <<"log">> = First
  /\ GET_ORIG_RET \o get_path \o <<"log">> = Behind
<1> DEFINE log == <<"log">>
<1>1. /\ GET_ORIG_RET \in Seq(AllStages) /\ Len(GET_ORIG_RET) = 4
      /\ get_path \in Seq(AllStages) /\ Len(get_path) = 2
      /\ log \in Seq(AllStages) /\ Len(log) = 1
  BY DEF GET_ORIG_RET, get_path, AllStages
<1>2. /\ GET_ORIG_RET[1] = "resolve" /\ GET_ORIG_RET[2] = "real"
      /\ GET_ORIG_RET[3] = "load" /\ GET_ORIG_RET[4] = "store"
      /\ get_path[1] = "readlink" /\ get_path[2] = "path" /\ log[1] = "log"
  BY DEF GET_ORIG_RET, get_path
<1>3. /\ Plain \in Seq(AllStages) /\ Before \in Seq(AllStages) /\ After \in Seq(AllStages)
      /\ First \in Seq(AllStages) /\ Behind \in Seq(AllStages)
  BY DEF Plain, Before, After, First, Behind, AllStages
<1> HIDE DEF log
<1>4. GET_ORIG_RET \o log = Plain
  <2>1. Len(Plain) = 5
    BY DEF Plain
  <2>2. \A i \in 1 .. 5 : Plain[i] = IF i <= 4 THEN GET_ORIG_RET[i] ELSE log[i - 4]
    BY <1>2 DEF Plain
  <2>3. \A i \in 1 .. Len(Plain) :
        Plain[i] = IF i <= Len(GET_ORIG_RET) THEN GET_ORIG_RET[i]
                   ELSE log[i - Len(GET_ORIG_RET)]
    BY <1>1, <2>1, <2>2
  <2>4. Len(Plain) = Len(GET_ORIG_RET) + Len(log)
    BY <1>1, <2>1
  <2> QED BY <1>1, <1>3, <2>3, <2>4, ConcatIs
<1>5. get_path \o GET_ORIG_RET = Before
  <2>1. Len(Before) = 6
    BY DEF Before
  <2>2. \A i \in 1 .. 6 : Before[i] = IF i <= 2 THEN get_path[i] ELSE GET_ORIG_RET[i - 2]
    BY <1>2 DEF Before
  <2>3. \A i \in 1 .. Len(Before) :
        Before[i] = IF i <= Len(get_path) THEN get_path[i]
                    ELSE GET_ORIG_RET[i - Len(get_path)]
    BY <1>1, <2>1, <2>2
  <2>4. Len(Before) = Len(get_path) + Len(GET_ORIG_RET)
    BY <1>1, <2>1
  <2> QED BY <1>1, <1>3, <2>3, <2>4, ConcatIs
<1>6. GET_ORIG_RET \o get_path = After
  <2>1. Len(After) = 6
    BY DEF After
  <2>2. \A i \in 1 .. 6 : After[i] = IF i <= 4 THEN GET_ORIG_RET[i] ELSE get_path[i - 4]
    BY <1>2 DEF After
  <2>3. \A i \in 1 .. Len(After) :
        After[i] = IF i <= Len(GET_ORIG_RET) THEN GET_ORIG_RET[i]
                   ELSE get_path[i - Len(GET_ORIG_RET)]
    BY <1>1, <2>1, <2>2
  <2>4. Len(After) = Len(GET_ORIG_RET) + Len(get_path)
    BY <1>1, <2>1
  <2> QED BY <1>1, <1>3, <2>3, <2>4, ConcatIs
<1>7. Before \o log = First
  <2>1. Len(First) = 7 /\ Len(Before) = 6
    BY DEF First, Before
  <2>2. \A i \in 1 .. 7 : First[i] = IF i <= 6 THEN Before[i] ELSE log[i - 6]
    BY <1>2 DEF First, Before
  <2>3. \A i \in 1 .. Len(First) :
        First[i] = IF i <= Len(Before) THEN Before[i]
                   ELSE log[i - Len(Before)]
    BY <1>1, <2>1, <2>2
  <2>4. Len(First) = Len(Before) + Len(log)
    BY <1>1, <2>1
  <2> QED BY <1>1, <1>3, <2>3, <2>4, ConcatIs
<1>8. After \o log = Behind
  <2>1. Len(Behind) = 7 /\ Len(After) = 6
    BY DEF Behind, After
  <2>2. \A i \in 1 .. 7 : Behind[i] = IF i <= 6 THEN After[i] ELSE log[i - 6]
    BY <1>2 DEF Behind, After
  <2>3. \A i \in 1 .. Len(Behind) :
        Behind[i] = IF i <= Len(After) THEN After[i]
                    ELSE log[i - Len(After)]
    BY <1>1, <2>1, <2>2
  <2>4. Len(Behind) = Len(After) + Len(log)
    BY <1>1, <2>1
  <2> QED BY <1>1, <1>3, <2>3, <2>4, ConcatIs
<1> QED BY <1>4, <1>5, <1>6, <1>7, <1>8 DEF log

\* The plan of a call that has just been made.
LEMMA PlanOfNew ==
  ASSUME NEW fn \in Wrappers, NEW who, NEW stream
  PROVE  LET f == Frame(fn, who, Stages(fn), stream)
         IN /\ f.left \in Seq(AllStages) /\ f.left # <<>> /\ Plan(f)
            /\ fn = "calloc" => f.left[1] = "check"
            /\ fn \in PathFns => \E i \in DOMAIN f.left : f.left[i] = "path"
<1> DEFINE f == Frame(fn, who, Stages(fn), stream)
<1>f. f.fn = fn /\ f.left = Stages(fn) /\ f.shut = FALSE
  BY DEF Frame
<1>0. /\ \A g \in PathFirst \cup PathAfter :
           g \in PathFns /\ g \notin {"malloc", "calloc", "free", "exit", "_exit"}
      /\ \A g \in PathFirst : g \notin PathAfter
      /\ \A g \in PathAfter : g # "fclose"
      /\ \A g \in PathFns : g \in PathFirst \cup PathAfter
  BY DEF PathFns, PathFirst, PathAfter
<1>s. SUFFICES /\ f.left \in Seq(AllStages) /\ f.left # <<>> /\ Plan(f)
               /\ fn = "calloc" => f.left[1] = "check"
               /\ fn \in PathFns => \E i \in DOMAIN f.left : f.left[i] = "path"
  OBVIOUS
<1> HIDE DEF f
<1>1. CASE fn = "malloc"
  <2>1. f.left = <<"resolve", "real", "log", "load", "store">>
    BY <1>f, <1>0, <1>1 DEF Stages
  <2>2. f.left \in Seq(AllStages) /\ f.left # <<>> /\ DOMAIN f.left = 1 .. 5 /\ Len(f.left) = 5
    BY <2>1 DEF AllStages
  <2>3. /\ f.left[1] = "resolve" /\ f.left[2] = "real" /\ f.left[3] = "log"
        /\ f.left[4] = "load" /\ f.left[5] = "store"
    BY <2>1
  <2>4. fn \notin PathFns
    BY <1>0, <1>1
  <2>5. Plan(f)
    BY <1>f, <1>1, <2>2, <2>3 DEF Plan, Lookups
  <2> QED BY <1>1, <2>2, <2>3, <2>4, <2>5
<1>2. CASE fn = "calloc"
  <2>1. f.left = <<"check", "real", "log", "load", "store">>
    BY <1>f, <1>0, <1>2 DEF Stages
  <2>2. f.left \in Seq(AllStages) /\ f.left # <<>> /\ DOMAIN f.left = 1 .. 5 /\ Len(f.left) = 5
    BY <2>1 DEF AllStages
  <2>3. /\ f.left[1] = "check" /\ f.left[2] = "real" /\ f.left[3] = "log"
        /\ f.left[4] = "load" /\ f.left[5] = "store"
    BY <2>1
  <2>4. fn \notin PathFns
    BY <1>0, <1>2
  <2>5. Plan(f)
    BY <1>f, <1>2, <2>2, <2>3 DEF Plan, Lookups
  <2> QED BY <1>2, <2>2, <2>3, <2>4, <2>5
<1>3. CASE fn = "free"
  <2>1. f.left = <<"resolve", "real", "load", "store", "log">>
    BY <1>f, <1>0, <1>3 DEF Stages
  <2>2. f.left \in Seq(AllStages) /\ f.left # <<>> /\ DOMAIN f.left = 1 .. 5 /\ Len(f.left) = 5
    BY <2>1 DEF AllStages
  <2>3. /\ f.left[1] = "resolve" /\ f.left[2] = "real" /\ f.left[3] = "load"
        /\ f.left[4] = "store" /\ f.left[5] = "log"
    BY <2>1
  <2>4. fn \notin PathFns
    BY <1>0, <1>3
  <2>5. Plan(f)
    BY <1>f, <1>3, <2>2, <2>3 DEF Plan, Lookups
  <2> QED BY <1>3, <2>2, <2>3, <2>4, <2>5
<1>4. CASE fn = "exit"
  <2>1. f.left = <<"log", "resolve", "finalize", "end">>
    BY <1>f, <1>0, <1>4 DEF Stages
  <2>2. f.left \in Seq(AllStages) /\ f.left # <<>> /\ DOMAIN f.left = 1 .. 4 /\ Len(f.left) = 4
    BY <2>1 DEF AllStages
  <2>3. /\ f.left[1] = "log" /\ f.left[2] = "resolve" /\ f.left[3] = "finalize"
        /\ f.left[4] = "end"
    BY <2>1
  <2>4. fn = "exit" /\ fn \in Ends /\ fn \notin PathFns
    BY <1>0, <1>4 DEF Ends
  <2>5. Plan(f)
    BY <1>f, <2>2, <2>3, <2>4 DEF Plan, Lookups
  <2> QED BY <2>2, <2>3, <2>4, <2>5
<1>5. CASE fn = "_exit"
  <2>1. f.left = <<"log", "resolve", "end">>
    BY <1>f, <1>0, <1>5 DEF Stages
  <2>2. f.left \in Seq(AllStages) /\ f.left # <<>> /\ DOMAIN f.left = 1 .. 3 /\ Len(f.left) = 3
    BY <2>1 DEF AllStages
  <2>3. /\ f.left[1] = "log" /\ f.left[2] = "resolve" /\ f.left[3] = "end"
    BY <2>1
  <2>4. fn = "_exit" /\ fn \in Ends /\ fn \notin PathFns
    BY <1>0, <1>5 DEF Ends
  <2>5. Plan(f)
    BY <1>f, <2>2, <2>3, <2>4 DEF Plan, Lookups
  <2> QED BY <2>2, <2>3, <2>4, <2>5
<1>6. CASE fn \in PathFirst
  <2>1. f.left = First
    BY <1>f, <1>0, <1>6, StagesAre DEF Stages
  <2>2. f.left \in Seq(AllStages) /\ f.left # <<>> /\ DOMAIN f.left = 1 .. 7 /\ Len(f.left) = 7
    BY <2>1 DEF AllStages, First
  <2>3. /\ f.left[1] = "readlink" /\ f.left[2] = "path" /\ f.left[3] = "resolve"
        /\ f.left[4] = "real" /\ f.left[5] = "load" /\ f.left[6] = "store"
        /\ f.left[7] = "log"
    BY <2>1 DEF First
  <2>4. fn \in PathFns /\ fn # "calloc"
    BY <1>0, <1>6
  <2>5. Plan(f)
    BY <1>f, <2>2, <2>3, <2>4 DEF Plan, Lookups
  <2> QED BY <2>2, <2>3, <2>4, <2>5
<1>7. CASE fn \in PathAfter
  <2>1. f.left = Behind
    BY <1>f, <1>0, <1>7, StagesAre DEF Stages
  <2>2. f.left \in Seq(AllStages) /\ f.left # <<>> /\ DOMAIN f.left = 1 .. 7 /\ Len(f.left) = 7
    BY <2>1 DEF AllStages, Behind
  <2>3. /\ f.left[1] = "resolve" /\ f.left[2] = "real" /\ f.left[3] = "load"
        /\ f.left[4] = "store" /\ f.left[5] = "readlink" /\ f.left[6] = "path"
        /\ f.left[7] = "log"
    BY <2>1 DEF Behind
  <2>4. fn \in PathFns /\ fn # "calloc" /\ fn # "fclose"
    BY <1>0, <1>7
  <2>5. Plan(f)
    BY <1>f, <2>2, <2>3, <2>4 DEF Plan, Lookups
  <2> QED BY <2>2, <2>3, <2>4, <2>5
<1>8. CASE fn \notin {"malloc", "calloc", "free", "exit", "_exit"} \cup PathFirst \cup PathAfter
  <2>1. f.left = Plain
    BY <1>f, <1>0, <1>8, StagesAre DEF Stages
  <2>2. f.left \in Seq(AllStages) /\ f.left # <<>> /\ DOMAIN f.left = 1 .. 5 /\ Len(f.left) = 5
    BY <2>1 DEF AllStages, Plain
  <2>3. /\ f.left[1] = "resolve" /\ f.left[2] = "real" /\ f.left[3] = "load"
        /\ f.left[4] = "store" /\ f.left[5] = "log"
    BY <2>1 DEF Plain
  <2>4. fn # "calloc" /\ fn \notin PathFns
    BY <1>0, <1>8
  <2>5. Plan(f)
    BY <1>f, <2>2, <2>3, <2>4 DEF Plan, Lookups
  <2> QED BY <2>2, <2>3, <2>4, <2>5
<1> QED BY <1>1, <1>2, <1>3, <1>4, <1>5, <1>6, <1>7, <1>8

\* The stage a call is at: the next of its plan, or the one behind a lookup
\* that is not due.
LEMMA LeftFacts ==
  ASSUME NEW f \in Frames, f.left # <<>>, Plan(f)
  PROVE  \E m \in {0, 1} :
           /\ m = 0 <=> Due(f, f.left[1])
           /\ m = 1 => f.left[1] \in Lookups /\ f.left[2] \notin Lookups
           /\ m < Len(f.left)
           /\ Left(f) \in Seq(AllStages) /\ Left(f) # <<>>
           /\ Head(Left(f)) = f.left[1 + m]
           /\ Len(Left(f)) = Len(f.left) - m
           /\ \A i \in 1 .. Len(Left(f)) : Left(f)[i] = f.left[i + m]
<1>1. f.left \in Seq(AllStages)
  BY DEF Frames
<1>2. Len(f.left) \in Nat \ {0} /\ DOMAIN f.left = 1 .. Len(f.left) /\ Head(f.left) = f.left[1]
  BY <1>1, EmptySeq, LenProperties
<1>3. CASE Due(f, f.left[1])
  <2>1. Left(f) = f.left
    BY <1>2, <1>3 DEF Left
  <2> QED BY <1>1, <1>2, <1>3, <2>1
<1>4. CASE ~Due(f, f.left[1])
  <2>1. f.left[1] \in Lookups
    BY <1>4 DEF Due, Lookups
  <2>2. 1 < Len(f.left) /\ f.left[2] \notin Lookups
    BY <1>2, <2>1 DEF Plan
  <2>3. Left(f) = Tail(f.left)
    BY <1>2, <1>4 DEF Left
  <2>4. /\ Left(f) \in Seq(AllStages) /\ Len(Left(f)) = Len(f.left) - 1
        /\ \A i \in 1 .. Len(Left(f)) : Left(f)[i] = f.left[i + 1]
    BY <1>1, <2>3, HeadTailProperties
  <2>5. Left(f) # <<>> /\ Head(Left(f)) = Left(f)[1]
    BY <1>2, <2>2, <2>4
  <2>6. Head(Left(f)) = f.left[2]
    BY <1>2, <2>2, <2>4, <2>5
  <2> QED BY <1>2, <1>4, <2>1, <2>2, <2>4, <2>5, <2>6
<1> QED BY <1>3, <1>4

\* g is f with the first d of its stages behind it.
Ahead(g, f, d) ==
  /\ g.fn = f.fn /\ g.who = f.who /\ g.stream = f.stream
  /\ Len(g.left) = Len(f.left) - d
  /\ \A i \in DOMAIN g.left : g.left[i] = f.left[i + d]

LEMMA DoneFacts ==
  ASSUME NEW f \in Frames, f.left # <<>>, Plan(f), NEW stage, stage = Head(Left(f))
  PROVE  /\ Done(f) \in Frames /\ Done(f).asked = FALSE
         /\ Done(f).over = f.over /\ Done(f).shut = f.shut
         /\ \E d \in {1, 2} : /\ d <= Len(f.left) /\ f.left[d] = stage
                              /\ Ahead(Done(f), f, d)
                              /\ d = 1 <=> Due(f, f.left[1])
                              /\ d = 2 => f.left[1] \in Lookups /\ f.left[2] \notin Lookups
<1>1. PICK m \in {0, 1} : /\ m = 0 <=> Due(f, f.left[1])
                          /\ m = 1 => f.left[1] \in Lookups /\ f.left[2] \notin Lookups
                          /\ m < Len(f.left)
                          /\ Left(f) \in Seq(AllStages) /\ Left(f) # <<>>
                          /\ Head(Left(f)) = f.left[1 + m]
                          /\ Len(Left(f)) = Len(f.left) - m
                          /\ \A i \in 1 .. Len(Left(f)) : Left(f)[i] = f.left[i + m]
  BY LeftFacts
<1> DEFINE rest == Tail(Left(f))
<1>2. /\ rest \in Seq(AllStages) /\ Len(rest) = Len(Left(f)) - 1
      /\ \A i \in 1 .. Len(rest) : rest[i] = Left(f)[i + 1]
  BY <1>1, HeadTailProperties
<1>3. Len(f.left) \in Nat /\ Len(rest) \in Nat /\ DOMAIN rest = 1 .. Len(rest)
  BY <1>2, LenProperties DEF Frames
<1>4. Len(rest) = Len(f.left) - (m + 1)
  BY <1>1, <1>2, <1>3
<1>5. \A i \in DOMAIN rest : rest[i] = f.left[i + (m + 1)]
  BY <1>1, <1>2, <1>3
<1>d. Done(f) = [f EXCEPT !.left = rest, !.asked = FALSE]
  BY DEF Done
<1> HIDE DEF rest
<1>6. /\ Done(f) \in Frames /\ Done(f).left = rest /\ Done(f).asked = FALSE
      /\ Done(f).over = f.over /\ Done(f).shut = f.shut
      /\ Done(f).fn = f.fn /\ Done(f).who = f.who /\ Done(f).stream = f.stream
  BY <1>2, <1>d DEF Frames
<1>7. Ahead(Done(f), f, m + 1)
  BY <1>4, <1>5, <1>6 DEF Ahead
<1>8. m + 1 \in {1, 2} /\ m + 1 <= Len(f.left) /\ f.left[m + 1] = stage
  BY <1>1, <1>3
<1> QED BY <1>1, <1>6, <1>7, <1>8

\* The plan of a call that has gone on.
LEMMA PlanOfAhead ==
  ASSUME NEW f \in Frames, NEW g \in Frames, NEW d \in Nat \ {0}, Plan(f), Ahead(g, f, d),
         d <= Len(f.left),
         g.shut => f.shut \/ \A i \in DOMAIN g.left : g.left[i] # "path"
  PROVE  Plan(g) /\ \A i \in DOMAIN g.left : g.left[i] # "check"
                 /\ (g.fn = "calloc" => g.left[i] # "resolve")
<1>1. /\ f.left \in Seq(AllStages) /\ g.left \in Seq(AllStages)
      /\ Len(f.left) \in Nat /\ DOMAIN f.left = 1 .. Len(f.left)
      /\ Len(g.left) \in Nat /\ DOMAIN g.left = 1 .. Len(g.left)
  BY LenProperties DEF Frames
<1>2. \A i \in DOMAIN g.left : /\ i + d \in DOMAIN f.left /\ g.left[i] = f.left[i + d]
                               /\ i + d # 1
                               /\ i < Len(g.left) <=> i + d < Len(f.left)
  BY <1>1 DEF Ahead
<1>3. \A i \in DOMAIN g.left : i < Len(g.left) => g.left[i + 1] = f.left[(i + d) + 1]
  <2>1. \A i \in DOMAIN g.left : i < Len(g.left) =>
          i + 1 \in DOMAIN g.left /\ (i + 1) + d = (i + d) + 1
    BY <1>1
  <2> QED BY <2>1 DEF Ahead
<1>4. g.fn = f.fn
  BY DEF Ahead
<1>5. \A i \in DOMAIN g.left : g.left[i] # "check" /\ (g.fn = "calloc" => g.left[i] # "resolve")
  BY <1>2, <1>4 DEF Plan
<1>6. ASSUME NEW i \in DOMAIN g.left
      PROVE  /\ g.left[i] \in Lookups => i < Len(g.left) /\ g.left[i + 1] \notin Lookups
             /\ g.left[i] \in {"path", "finalize"} => i < Len(g.left)
             /\ g.left[i] \in {"readlink", "path"} => g.fn \in PathFns
             /\ g.left[i] = "finalize" => g.fn = "exit"
             /\ g.left[i] = "end" => g.fn \in Ends
  BY <1>2, <1>3, <1>4 DEF Plan
<1>7. ASSUME NEW i \in DOMAIN g.left, g.left[i] = "path"
      PROVE  ~g.shut
  BY <1>2, <1>7 DEF Plan
<1>8. ASSUME NEW i \in DOMAIN g.left, NEW j \in DOMAIN g.left, i < j, g.left[j] = "path"
      PROVE  g.left[i] # "log" /\ (g.left[i] = "real" => g.fn # "fclose")
  <2>1. i + d \in DOMAIN f.left /\ j + d \in DOMAIN f.left /\ i + d < j + d
    BY <1>1, <1>2, <1>8
  <2> QED BY <1>2, <1>4, <1>8, <2>1 DEF Plan
<1> QED BY <1>5, <1>6, <1>7, <1>8 DEF Plan

-----------------------------------------------------------------------------
(* The stacks.                                                              *)

Lower(t) == \A k \in DOMAIN stack[t] : k < Len(stack[t]) => stack'[t][k] = stack[t][k]
Others(t) == \A u \in Threads \ {t} : stack'[u] = stack[u]
Popped(t) == Len(stack'[t]) = Len(stack[t]) - 1 /\ Lower(t)
Replaced(t, g) == /\ Len(stack'[t]) = Len(stack[t]) /\ Lower(t)
                  /\ stack'[t][Len(stack[t])] = g
Pushed(t, g, h) == /\ Len(stack'[t]) = Len(stack[t]) + 1 /\ Lower(t)
                   /\ stack'[t][Len(stack[t])] = g /\ stack'[t][Len(stack[t]) + 1] = h

LEMMA FrontFacts ==
  ASSUME NEW s \in Seq(Frames), s # <<>>
  PROVE  /\ Len(s) \in Nat \ {0} /\ DOMAIN s = 1 .. Len(s)
         /\ Last(s) \in Frames /\ Last(s) = s[Len(s)]
         /\ Front(s) \in Seq(Frames) /\ Len(Front(s)) = Len(s) - 1
         /\ \A k \in 1 .. Len(s) - 1 : Front(s)[k] = s[k]
<1>1. Len(s) \in Nat \ {0} /\ DOMAIN s = 1 .. Len(s) /\ \A k \in 1 .. Len(s) : s[k] \in Frames
  BY EmptySeq, LenProperties, ElementOfSeq
<1>2. /\ SubSeq(s, 1, Len(s) - 1) \in Seq(Frames)
      /\ Len(SubSeq(s, 1, Len(s) - 1)) = Len(s) - 1
      /\ \A k \in 1 .. Len(s) - 1 : SubSeq(s, 1, Len(s) - 1)[k] = s[k]
  BY <1>1, SubSeqProperties
<1> QED BY <1>1, <1>2 DEF Front, Last

LEMMA AppendFacts ==
  ASSUME NEW s \in Seq(Frames), s # <<>>, NEW g \in Frames
  PROVE  LET n == Append(Front(s), g)
         IN /\ n \in Seq(Frames) /\ Len(n) = Len(s) /\ n[Len(s)] = g
            /\ \A k \in DOMAIN s : k < Len(s) => n[k] = s[k]
<1> DEFINE fr == Front(s)
           n == Append(fr, g)
<1>1. /\ Len(s) \in Nat \ {0} /\ DOMAIN s = 1 .. Len(s)
      /\ fr \in Seq(Frames) /\ Len(fr) = Len(s) - 1
      /\ \A k \in 1 .. Len(s) - 1 : fr[k] = s[k]
  BY FrontFacts
<1> HIDE DEF fr
<1>e. fr \in Seq(Frames)
  BY <1>1
<1>2. /\ n \in Seq(Frames) /\ Len(n) = Len(fr) + 1
      /\ \A k \in 1 .. Len(fr) : n[k] = fr[k]
      /\ n[Len(fr) + 1] = g
  BY <1>e, AppendProperties
<1> HIDE DEF n
<1>l. Len(fr) + 1 = Len(s)
  BY <1>1
<1>3. n \in Seq(Frames) /\ Len(n) = Len(s) /\ n[Len(s)] = g
  BY <1>2, <1>l
<1>4. \A k \in DOMAIN s : k < Len(s) => n[k] = s[k]
  BY <1>1, <1>2
<1> QED BY <1>3, <1>4 DEF n, fr

LEMMA ReplaceFacts ==
  ASSUME stack \in [Threads -> Seq(Frames)], NEW t \in Threads, stack[t] # <<>>,
         NEW g \in Frames, stack' = [stack EXCEPT ![t] = Append(Front(@), g)]
  PROVE  stack' \in [Threads -> Seq(Frames)] /\ Others(t) /\ Replaced(t, g)
<1> DEFINE s == stack[t]
           n == Append(Front(s), g)
<1>1. /\ n \in Seq(Frames) /\ Len(n) = Len(s) /\ n[Len(s)] = g
      /\ \A k \in DOMAIN s : k < Len(s) => n[k] = s[k]
  BY AppendFacts
<1>2. stack' = [stack EXCEPT ![t] = n]
  OBVIOUS
<1> HIDE DEF n
<1>3. stack' \in [Threads -> Seq(Frames)] /\ stack'[t] = n /\ Others(t)
  BY <1>1, <1>2 DEF Others
<1> QED BY <1>1, <1>3 DEF Replaced, Lower

LEMMA PopFacts ==
  ASSUME stack \in [Threads -> Seq(Frames)], NEW t \in Threads, stack[t] # <<>>,
         stack' = [stack EXCEPT ![t] = Front(@)]
  PROVE  stack' \in [Threads -> Seq(Frames)] /\ Others(t) /\ Popped(t)
<1>1. /\ stack[t] \in Seq(Frames) /\ Len(stack[t]) \in Nat \ {0}
      /\ DOMAIN stack[t] = 1 .. Len(stack[t])
      /\ Front(stack[t]) \in Seq(Frames) /\ Len(Front(stack[t])) = Len(stack[t]) - 1
      /\ \A k \in 1 .. Len(stack[t]) - 1 : Front(stack[t])[k] = stack[t][k]
  BY FrontFacts
<1>2. stack' \in [Threads -> Seq(Frames)] /\ stack'[t] = Front(stack[t]) /\ Others(t)
  BY <1>1 DEF Others
<1>3. \A k \in DOMAIN stack[t] : k < Len(stack[t]) => k \in 1 .. Len(stack[t]) - 1
  BY <1>1
<1> QED BY <1>1, <1>2, <1>3 DEF Popped, Lower

LEMMA StepFacts ==
  ASSUME stack \in [Threads -> Seq(Frames)], NEW t \in Threads, stack[t] # <<>>,
         NEW g \in Frames, Step(t, g)
  PROVE  /\ stack' \in [Threads -> Seq(Frames)] /\ Others(t)
         /\ IF g.left = <<>> THEN Popped(t) ELSE Replaced(t, g)
<1>1. CASE g.left = <<>>
  <2>1. stack' = [stack EXCEPT ![t] = Front(@)]
    BY <1>1 DEF Step
  <2> QED BY <1>1, <2>1, PopFacts
<1>2. CASE g.left # <<>>
  <2>1. stack' = [stack EXCEPT ![t] = Append(Front(@), g)]
    BY <1>2 DEF Step
  <2> QED BY <1>2, <2>1, ReplaceFacts
<1> QED BY <1>1, <1>2

LEMMA PushFacts ==
  ASSUME stack \in [Threads -> Seq(Frames)], NEW t \in Threads, stack[t] # <<>>,
         NEW g \in Frames, NEW h \in Frames,
         stack' = [stack EXCEPT ![t] = Front(@) \o <<g, h>>]
  PROVE  stack' \in [Threads -> Seq(Frames)] /\ Others(t) /\ Pushed(t, g, h)
<1> DEFINE s == stack[t]
           two == <<g, h>>
           n == Front(s) \o two
<1>1. /\ s \in Seq(Frames) /\ Len(s) \in Nat \ {0} /\ DOMAIN s = 1 .. Len(s)
      /\ Front(s) \in Seq(Frames) /\ Len(Front(s)) = Len(s) - 1
      /\ \A k \in 1 .. Len(s) - 1 : Front(s)[k] = s[k]
  BY FrontFacts
<1>2. two \in Seq(Frames) /\ Len(two) = 2 /\ two[1] = g /\ two[2] = h
  OBVIOUS
<1>3. stack' = [stack EXCEPT ![t] = n]
  OBVIOUS
<1> HIDE DEF two
<1>4. /\ n \in Seq(Frames) /\ Len(n) = Len(Front(s)) + Len(two)
      /\ \A k \in 1 .. Len(Front(s)) + Len(two) :
           n[k] = IF k <= Len(Front(s)) THEN Front(s)[k] ELSE two[k - Len(Front(s))]
  BY <1>1, <1>2, ConcatProperties
<1> HIDE DEF n
<1>5. stack' \in [Threads -> Seq(Frames)] /\ stack'[t] = n /\ Others(t)
  BY <1>3, <1>4 DEF Others
<1>6. /\ Len(n) = Len(s) + 1
      /\ \A k \in 1 .. Len(s) + 1 :
           n[k] = IF k <= Len(s) - 1 THEN Front(s)[k] ELSE two[k - (Len(s) - 1)]
  <2>1. (Len(s) - 1) + 2 = Len(s) + 1
    BY <1>1
  <2> QED BY <1>1, <1>2, <1>4, <2>1
<1>7. \A k \in DOMAIN s : k < Len(s) => n[k] = s[k]
  <2>1. \A k \in DOMAIN s : k < Len(s) => k \in 1 .. Len(s) + 1 /\ k <= Len(s) - 1
                                        /\ k \in 1 .. Len(s) - 1
    BY <1>1
  <2> QED BY <1>1, <1>6, <2>1
<1>8. n[Len(s)] = g
  <2>1. /\ Len(s) \in 1 .. Len(s) + 1 /\ ~(Len(s) <= Len(s) - 1)
        /\ Len(s) - (Len(s) - 1) = 1
    BY <1>1
  <2> QED BY <1>2, <1>6, <2>1
<1>9. n[Len(s) + 1] = h
  <2>1. /\ Len(s) + 1 \in 1 .. Len(s) + 1 /\ ~(Len(s) + 1 <= Len(s) - 1)
        /\ (Len(s) + 1) - (Len(s) - 1) = 2
    BY <1>1
  <2> QED BY <1>2, <1>6, <2>1
<1> QED BY <1>5, <1>6, <1>7, <1>8, <1>9 DEF Pushed, Lower

-----------------------------------------------------------------------------
(* What the stage of a call says about it.                                  *)

LEMMA FnFacts ==
  /\ "calloc" \notin PathFns /\ "exit" \notin PathFns /\ "_exit" \notin PathFns
  /\ "malloc" \notin PathFns /\ "free" \notin PathFns /\ "none" \notin PathFns
  /\ "getenv" \notin PathFns /\ "fopen" \notin PathFns /\ "dup2" \notin PathFns
  /\ "calloc" \notin Ends /\ "calloc" \notin Allocating /\ "exit" \notin Allocating
  /\ "malloc" \notin Allocating /\ "free" \notin Allocating
  /\ {"malloc", "calloc", "free", "exit", "fclose", "getenv", "fopen", "dup2"} \subseteq Wrappers
  /\ {"malloc", "calloc", "free", "fclose", "getenv", "fopen", "dup2"} \cap Ends = {}
  /\ \A fn : Original(fn) = "calloc" <=> fn = "calloc"
<1>1. /\ "calloc" \notin PathFns /\ "exit" \notin PathFns /\ "_exit" \notin PathFns
      /\ "malloc" \notin PathFns /\ "free" \notin PathFns /\ "none" \notin PathFns
      /\ "getenv" \notin PathFns /\ "fopen" \notin PathFns /\ "dup2" \notin PathFns
  BY DEF PathFns, PathFirst, PathAfter
<1>2. /\ "calloc" \notin Ends
      /\ {"malloc", "calloc", "free", "fclose", "getenv", "fopen", "dup2"} \cap Ends = {}
  BY DEF Ends
<1>3. /\ "calloc" \notin Allocating /\ "exit" \notin Allocating
      /\ "malloc" \notin Allocating /\ "free" \notin Allocating
  BY DEF Allocating, Stream
<1>4. {"malloc", "calloc", "free", "exit", "fclose", "getenv", "fopen", "dup2"} \subseteq Wrappers
  BY DEF Wrappers, Ends, Stream, Process
<1>5. \A fn : Original(fn) = "calloc" <=> fn = "calloc"
  BY DEF Original
<1> QED BY <1>1, <1>2, <1>3, <1>4, <1>5

LEMMA StageFacts ==
  ASSUME NEW f \in Frames, f.left # <<>>, Plan(f), NEW stage, stage = Head(Left(f))
  PROVE  /\ stage = "check" => f.fn = "calloc" /\ f.left[1] = "check"
                               /\ ~temporary /\ "calloc" \notin found
         /\ f.fn = "calloc" /\ stage = "resolve" => f.left[1] = "resolve"
         /\ f.fn = "calloc" /\ f.left[1] = "resolve" /\ "calloc" \notin found => stage = "resolve"
         /\ f.left[1] = "check" /\ ~temporary /\ "calloc" \notin found => stage = "check"
         /\ stage \in {"readlink", "path"} => f.fn \in PathFns
         /\ stage = "finalize" => f.fn = "exit"
         /\ stage = "end" => f.fn \in Ends
         /\ stage = "log" => \A i \in DOMAIN f.left : f.left[i] # "path"
         /\ stage = "path" => ~f.shut
<1>1. PICK d \in {1, 2} : /\ d <= Len(f.left) /\ f.left[d] = stage
                          /\ d = 1 <=> Due(f, f.left[1])
                          /\ d = 2 => f.left[1] \in Lookups /\ f.left[2] \notin Lookups
  BY DoneFacts
<1>2. Len(f.left) \in Nat /\ DOMAIN f.left = 1 .. Len(f.left)
  BY LenProperties DEF Frames
<1>3. d \in DOMAIN f.left /\ d <= Len(f.left)
  BY <1>1, <1>2
<1>4. stage = "check" => f.fn = "calloc" /\ f.left[1] = "check"
                         /\ ~temporary /\ "calloc" \notin found
  <2>1. SUFFICES ASSUME stage = "check"
                 PROVE  f.fn = "calloc" /\ f.left[1] = "check"
                        /\ ~temporary /\ "calloc" \notin found
    OBVIOUS
  <2>2. d = 1
    BY <1>1, <2>1 DEF Lookups
  <2> QED BY <1>1, <1>3, <2>1, <2>2 DEF Plan, Due
<1>5. f.fn = "calloc" /\ stage = "resolve" => f.left[1] = "resolve"
  BY <1>1, <1>3 DEF Plan
<1>6. f.fn = "calloc" /\ f.left[1] = "resolve" /\ "calloc" \notin found => stage = "resolve"
  BY <1>1, FnFacts DEF Due
<1>7. f.left[1] = "check" /\ ~temporary /\ "calloc" \notin found => stage = "check"
  BY <1>1 DEF Due
<1>8. /\ stage \in {"readlink", "path"} => f.fn \in PathFns
      /\ stage = "finalize" => f.fn = "exit"
      /\ stage = "end" => f.fn \in Ends
      /\ stage = "path" => ~f.shut
  BY <1>1, <1>3 DEF Plan
<1>9. ASSUME stage = "log", NEW i \in DOMAIN f.left
      PROVE  f.left[i] # "path"
  <2>1. CASE i < d
    <3>1. d = 2 /\ i = 1
      BY <1>1, <1>2, <2>1
    <3> QED BY <1>1, <3>1 DEF Lookups
  <2>2. CASE i = d
    BY <1>1, <1>9, <2>2
  <2>3. CASE d < i
    BY <1>1, <1>3, <1>9, <2>3 DEF Plan
  <2> QED BY <1>1, <1>2, <2>1, <2>2, <2>3
<1> QED BY <1>4, <1>5, <1>6, <1>7, <1>8, <1>9

\* g is the call f after its stage.
GoesOn(g, f, stage) ==
  /\ g.fn = f.fn /\ g.who = f.who /\ g.stream = f.stream /\ g.left = Done(f).left
  /\ g.shut => f.shut \/ (stage = "real" /\ f.fn = "fclose")

LEMMA GoesOnFacts ==
  ASSUME NEW f \in Frames, f.left # <<>>, Plan(f), NEW stage, stage = Head(Left(f)),
         NEW g \in Frames, GoesOn(g, f, stage)
  PROVE  /\ Plan(g)
         /\ \A i \in DOMAIN g.left : g.left[i] # "check"
                                     /\ (g.fn = "calloc" => g.left[i] # "resolve")
         /\ stage # "path" /\ (\A i \in DOMAIN g.left : g.left[i] # "path")
              => \A i \in DOMAIN f.left : f.left[i] # "path"
         /\ stage \in {"path", "finalize"} => g.left # <<>>
<1>1. PICK d \in {1, 2} : /\ d <= Len(f.left) /\ f.left[d] = stage
                          /\ Ahead(Done(f), f, d)
                          /\ d = 2 => f.left[1] \in Lookups /\ f.left[2] \notin Lookups
  BY DoneFacts
<1>2. /\ Len(f.left) \in Nat /\ DOMAIN f.left = 1 .. Len(f.left)
      /\ Len(g.left) \in Nat /\ DOMAIN g.left = 1 .. Len(g.left)
  BY LenProperties DEF Frames
<1>3. d \in DOMAIN f.left /\ d \in Nat \ {0}
  BY <1>1, <1>2
<1>4. Ahead(g, f, d)
  BY <1>1 DEF Ahead, GoesOn
<1>5. g.shut => f.shut \/ \A i \in DOMAIN g.left : g.left[i] # "path"
  <2>1. SUFFICES ASSUME stage = "real", f.fn = "fclose", NEW i \in DOMAIN g.left
                 PROVE  g.left[i] # "path"
    BY DEF GoesOn
  <2>2. i + d \in DOMAIN f.left /\ d < i + d /\ g.left[i] = f.left[i + d]
    BY <1>2, <1>3, <1>4 DEF Ahead
  <2> QED BY <1>1, <1>3, <2>1, <2>2 DEF Plan
<1>6. Plan(g) /\ \A i \in DOMAIN g.left : g.left[i] # "check"
                   /\ (g.fn = "calloc" => g.left[i] # "resolve")
  BY <1>1, <1>3, <1>4, <1>5, PlanOfAhead
<1>7. ASSUME stage # "path", \A i \in DOMAIN g.left : g.left[i] # "path",
             NEW i \in DOMAIN f.left
      PROVE  f.left[i] # "path"
  <2>1. CASE i < d
    <3>1. d = 2 /\ i = 1
      BY <1>1, <1>2, <2>1
    <3> QED BY <1>1, <3>1 DEF Lookups
  <2>2. CASE i = d
    BY <1>1, <1>7, <2>2
  <2>3. CASE d < i
    <3>1. i - d \in DOMAIN g.left /\ (i - d) + d = i
      BY <1>2, <1>3, <1>4, <2>3 DEF Ahead
    <3> QED BY <1>4, <1>7, <3>1 DEF Ahead
  <2> QED BY <1>1, <1>2, <2>1, <2>2, <2>3
<1>8. stage \in {"path", "finalize"} => g.left # <<>>
  <2>1. SUFFICES ASSUME stage \in {"path", "finalize"} PROVE g.left # <<>>
    OBVIOUS
  <2>2. d < Len(f.left)
    BY <1>1, <1>3, <2>1 DEF Plan
  <2>3. Len(g.left) # 0
    BY <1>2, <1>3, <1>4, <2>2 DEF Ahead
  <2> QED BY <2>3, EmptySeq DEF Frames
<1> QED BY <1>6, <1>7, <1>8

-----------------------------------------------------------------------------
(* Calls stay sound.                                                        *)

Kin(g, f) == /\ g.fn = f.fn /\ g.who = f.who /\ g.left = f.left
             /\ g.stream = f.stream /\ g.shut = f.shut

Looked == temporary \/ "calloc" \in found

OthersKin(t) ==
  \A u \in Threads \ {t} : /\ Len(stack'[u]) = Len(stack[u])
                           /\ \A k \in DOMAIN stack[u] : Kin(stack'[u][k], stack[u][k])

LEMMA TopFacts ==
  ASSUME Types, Sound, NEW t \in Threads, stack[t] # <<>>
  PROVE  /\ Len(stack[t]) \in Nat \ {0} /\ DOMAIN stack[t] = 1 .. Len(stack[t])
         /\ Top(t) = stack[t][Len(stack[t])] /\ Top(t) \in Frames
         /\ Top(t).left # <<>> /\ Plan(Top(t)) /\ Callers(Top(t))
         /\ Nesting(t, Len(stack[t]))
<1>1. stack[t] \in Seq(Frames)
  BY DEF Types
<1>2. /\ Len(stack[t]) \in Nat \ {0} /\ DOMAIN stack[t] = 1 .. Len(stack[t])
      /\ Top(t) = stack[t][Len(stack[t])] /\ Top(t) \in Frames
  BY <1>1, FrontFacts DEF Top
<1>3. Len(stack[t]) \in DOMAIN stack[t]
  BY <1>2
<1> QED BY <1>2, <1>3 DEF Sound, SoundAt

LEMMA KinSound ==
  ASSUME NEW t, NEW k, SoundAt(t, k), Kin(stack'[t][k], stack[t][k]),
         k > 1 => stack'[t][k - 1].fn = stack[t][k - 1].fn, Looked => Looked'
  PROVE  SoundAt(t, k)'
<1> DEFINE f == stack[t][k]
           g == stack'[t][k]
<1>1. g.fn = f.fn /\ g.who = f.who /\ g.left = f.left /\ g.shut = f.shut
  BY DEF Kin
<1>2. g.left # <<>> /\ Plan(g) /\ Callers(g)
  <2> HIDE DEF g
  <2>1. f.left # <<>> /\ Plan(f) /\ Callers(f)
    BY DEF SoundAt
  <2> HIDE DEF f
  <2> QED BY <1>1, <2>1 DEF Plan, Callers
<1>3. Nesting(t, k)'
  <2> DEFINE b == stack[t][k - 1].fn
             c == stack'[t][k - 1].fn
  <2>1. k > 1 => c = b
    OBVIOUS
  <2>2. /\ f.fn \in Ends => k = 1
        /\ f.who \in {"program", "monitor"} => k <= 2
        /\ f.who = "libc" => k <= 3
        /\ f.who = "dlsym" => k > 1 /\ k <= IF b = "calloc" THEN 5 ELSE 4
        /\ k > 1 /\ f.fn = "calloc" /\ b = "calloc" => f.left[1] # "resolve" /\ Looked
    BY DEF SoundAt, Nesting, Looked
  <2> HIDE DEF f, b, c
  <2>3. /\ g.fn \in Ends => k = 1
        /\ g.who \in {"program", "monitor"} => k <= 2
        /\ g.who = "libc" => k <= 3
        /\ g.who = "dlsym" => k > 1 /\ k <= IF c = "calloc" THEN 5 ELSE 4
        /\ k > 1 /\ g.fn = "calloc" /\ c = "calloc" => g.left[1] # "resolve" /\ Looked'
    <3> HIDE DEF g
    <3> QED BY <1>1, <2>1, <2>2
  <2> QED BY <2>3 DEF Nesting, Looked, c
<1> QED BY <1>2, <1>3 DEF SoundAt

\* The calls of the other threads, and those below the top.
LEMMA RestSound ==
  ASSUME Types, Sound, Types', Looked => Looked', NEW t \in Threads, OthersKin(t), Lower(t)
  PROVE  /\ \A u \in Threads \ {t} : \A k \in DOMAIN stack'[u] : SoundAt(u, k)'
         /\ \A k \in DOMAIN stack[t] : k < Len(stack[t]) => SoundAt(t, k)'
<1>1. \A u \in Threads : /\ Len(stack[u]) \in Nat /\ DOMAIN stack[u] = 1 .. Len(stack[u])
                         /\ Len(stack'[u]) \in Nat /\ DOMAIN stack'[u] = 1 .. Len(stack'[u])
  BY LenProperties DEF Types
<1>2. ASSUME NEW u \in Threads \ {t}, NEW k \in DOMAIN stack'[u]
      PROVE  SoundAt(u, k)'
  <2>1. k \in DOMAIN stack[u] /\ k > 1 => k - 1 \in DOMAIN stack[u]
    BY <1>1, <1>2 DEF OthersKin
  <2>2. k \in DOMAIN stack[u]
    BY <1>1, <1>2 DEF OthersKin
  <2>3. Kin(stack'[u][k], stack[u][k]) /\ (k > 1 => stack'[u][k - 1].fn = stack[u][k - 1].fn)
    BY <2>1, <2>2 DEF OthersKin, Kin
  <2>4. SoundAt(u, k)
    BY <2>2 DEF Sound
  <2> QED BY <2>3, <2>4, KinSound
<1>3. ASSUME NEW k \in DOMAIN stack[t], k < Len(stack[t])
      PROVE  SoundAt(t, k)'
  <2>1. stack'[t][k] = stack[t][k]
    BY <1>3 DEF Lower
  <2>2. k > 1 => k - 1 \in DOMAIN stack[t] /\ k - 1 < Len(stack[t])
    BY <1>1, <1>3
  <2>3. k > 1 => stack'[t][k - 1].fn = stack[t][k - 1].fn
    BY <2>2 DEF Lower
  <2>4. Kin(stack'[t][k], stack[t][k])
    BY <2>1 DEF Kin
  <2>5. SoundAt(t, k)
    BY <1>3 DEF Sound
  <2> QED BY <2>3, <2>4, <2>5, KinSound
<1> QED BY <1>2, <1>3

\* The call on top has become g.
LEMMA TopSound ==
  ASSUME Types, Sound, Types', Looked => Looked', NEW t \in Threads, stack[t] # <<>>,
         Lower(t), NEW g \in Frames, stack'[t][Len(stack[t])] = g, g.left # <<>>,
         g.fn = Top(t).fn, g.who = Top(t).who, Plan(g),
         g.fn = "calloc" /\ g.left[1] = "resolve" => ~Looked \/ Top(t).left[1] = "resolve"
  PROVE  \A n : n = Len(stack[t]) => SoundAt(t, n)'
<1> DEFINE k == Len(stack[t])
           f == Top(t)
           b == stack[t][k - 1].fn
           c == stack'[t][k - 1].fn
<1>1. /\ k \in Nat \ {0} /\ DOMAIN stack[t] = 1 .. k
      /\ f = stack[t][k] /\ Callers(f) /\ Nesting(t, k)
  BY TopFacts
<1>2. k > 1 => c = b
  <2>1. k > 1 => k - 1 \in DOMAIN stack[t] /\ k - 1 < Len(stack[t])
    BY <1>1
  <2> QED BY <2>1 DEF Lower
<1>3. /\ f.fn \in Ends => k = 1
      /\ f.who \in {"program", "monitor"} => k <= 2
      /\ f.who = "libc" => k <= 3
      /\ f.who = "dlsym" => k > 1 /\ k <= IF b = "calloc" THEN 5 ELSE 4
      /\ k > 1 /\ f.fn = "calloc" /\ b = "calloc" => f.left[1] # "resolve" /\ Looked
  BY <1>1 DEF Nesting, Looked
<1>4. g.fn = f.fn /\ g.who = f.who /\ Callers(g)
  BY <1>1 DEF Callers
<1>5. g.fn = "calloc" /\ g.left[1] = "resolve" => ~Looked \/ f.left[1] = "resolve"
  OBVIOUS
<1>6. stack'[t][k] = g
  OBVIOUS
<1> HIDE DEF k, f, b, c
<1>7. /\ g.fn \in Ends => k = 1
      /\ g.who \in {"program", "monitor"} => k <= 2
      /\ g.who = "libc" => k <= 3
      /\ g.who = "dlsym" => k > 1 /\ k <= IF c = "calloc" THEN 5 ELSE 4
      /\ k > 1 /\ g.fn = "calloc" /\ c = "calloc" => g.left[1] # "resolve" /\ Looked'
  BY <1>1, <1>2, <1>3, <1>4, <1>5
<1>8. ASSUME NEW n, n = k PROVE SoundAt(t, n)'
  BY <1>4, <1>6, <1>7, <1>8 DEF SoundAt, Nesting, Looked, c
<1> QED BY <1>8 DEF k

-----------------------------------------------------------------------------
(* A call goes on or returns.                                               *)

\* The call on top has finished the stage.
Advanced(t, stage) ==
  /\ stack[t] # <<>> /\ stage = Head(Left(Top(t))) /\ OthersKin(t)
  /\ \E g \in Frames : /\ GoesOn(g, Top(t), stage)
                       /\ stage # "path" => g.over = Top(t).over
                       /\ IF g.left = <<>> THEN Popped(t) ELSE Replaced(t, g)

LEMMA OthersAreKin ==
  ASSUME NEW t, Others(t)
  PROVE  OthersKin(t)
BY DEF Others, OthersKin, Kin

LEMMA StepAdvances ==
  ASSUME Types, NEW t \in Threads, stack[t] # <<>>, NEW stage, stage = Head(Left(Top(t))),
         NEW g \in Frames, GoesOn(g, Top(t), stage), g.over = Top(t).over, Step(t, g)
  PROVE  Advanced(t, stage) /\ Others(t) /\ stack' \in [Threads -> Seq(Frames)]
<1>1. /\ stack' \in [Threads -> Seq(Frames)] /\ Others(t)
      /\ IF g.left = <<>> THEN Popped(t) ELSE Replaced(t, g)
  BY StepFacts DEF Types
<1> QED BY <1>1, OthersAreKin DEF Advanced

LEMMA AdvancedSound ==
  ASSUME Types, Sound, Types', Looked => Looked', NEW t \in Threads, NEW stage,
         Advanced(t, stage)
  PROVE  Sound'
<1>0. /\ stack[t] # <<>> /\ stage = Head(Left(Top(t))) /\ OthersKin(t)
      /\ Top(t) \in Frames /\ Top(t).left # <<>> /\ Plan(Top(t))
      /\ Len(stack[t]) \in Nat \ {0} /\ DOMAIN stack[t] = 1 .. Len(stack[t])
  BY TopFacts DEF Advanced
<1>1. PICK g \in Frames : /\ GoesOn(g, Top(t), stage)
                          /\ IF g.left = <<>> THEN Popped(t) ELSE Replaced(t, g)
  BY DEF Advanced
<1>2. Lower(t)
  BY <1>1 DEF Popped, Replaced
<1>3. /\ Plan(g) /\ g.fn = Top(t).fn /\ g.who = Top(t).who
      /\ g.left # <<>> /\ g.fn = "calloc" => g.left[1] # "resolve"
  <2>1. /\ Plan(g)
        /\ \A i \in DOMAIN g.left : g.fn = "calloc" => g.left[i] # "resolve"
    BY <1>0, <1>1, GoesOnFacts
  <2>2. g.left # <<>> => 1 \in DOMAIN g.left
    BY EmptySeq, LenProperties DEF Frames
  <2> QED BY <1>1, <2>1, <2>2 DEF GoesOn
<1>4. /\ \A u \in Threads \ {t} : \A k \in DOMAIN stack'[u] : SoundAt(u, k)'
      /\ \A k \in DOMAIN stack[t] : k < Len(stack[t]) => SoundAt(t, k)'
  BY <1>0, <1>2, RestSound
<1>5. Len(stack'[t]) \in Nat /\ DOMAIN stack'[t] = 1 .. Len(stack'[t])
  BY LenProperties DEF Types
<1>6. ASSUME NEW k \in DOMAIN stack'[t] PROVE SoundAt(t, k)'
  <2>1. CASE g.left = <<>>
    <3>1. k \in DOMAIN stack[t] /\ k < Len(stack[t])
      BY <1>0, <1>1, <1>5, <2>1 DEF Popped
    <3> QED BY <1>4, <3>1
  <2>2. CASE g.left # <<>>
    <3>1. Len(stack'[t]) = Len(stack[t]) /\ stack'[t][Len(stack[t])] = g
      BY <1>1, <2>2 DEF Replaced
    <3>2. CASE k < Len(stack[t])
      BY <1>0, <1>4, <1>5, <3>1, <3>2
    <3>3. CASE k = Len(stack[t])
      BY <1>0, <1>2, <1>3, <2>2, <3>1, <3>3, TopSound
    <3> QED BY <1>0, <1>5, <3>1, <3>2, <3>3
  <2> QED BY <2>1, <2>2
<1> QED BY <1>4, <1>6 DEF Sound

LEMMA AdvancedCheating ==
  ASSUME Types, Sound, Cheating, Types', NEW t \in Threads, NEW stage, Advanced(t, stage),
         stage # "check", "calloc" \in found' => ~temporary',
         "calloc" \notin found' => /\ "calloc" \notin found /\ temporary' = temporary
                                   /\ ~(stage = "resolve" /\ Top(t).fn = "calloc")
  PROVE  Cheating'
<1>1. CASE "calloc" \in found'
  BY <1>1 DEF Cheating
<1>2. CASE "calloc" \notin found'
  <2>1. "calloc" \notin found /\ temporary' = temporary
        /\ ~(stage = "resolve" /\ Top(t).fn = "calloc")
    BY <1>2
  <2>2. /\ stack[t] # <<>> /\ stage = Head(Left(Top(t))) /\ OthersKin(t)
        /\ Len(stack[t]) \in Nat \ {0} /\ DOMAIN stack[t] = 1 .. Len(stack[t])
        /\ Top(t) = stack[t][Len(stack[t])] /\ Top(t) \in Frames
        /\ Top(t).left # <<>> /\ Plan(Top(t))
    BY TopFacts DEF Advanced
  <2>3. t = 1 /\ \A u \in Threads \ {1} : stack[u] = <<>>
    BY <2>1, <2>2 DEF Cheating
  <2>4. \A u \in Threads \ {1} : stack'[u] = <<>>
    <3>1. \A u \in Threads \ {1} : Len(stack'[u]) = 0
      BY <2>2, <2>3, EmptySeq DEF OthersKin
    <3> QED BY <3>1, EmptySeq DEF Types
  <2>5. PICK g \in Frames : /\ GoesOn(g, Top(t), stage)
                            /\ IF g.left = <<>> THEN Popped(t) ELSE Replaced(t, g)
    BY DEF Advanced
  <2>6. Lower(t)
    BY <2>5 DEF Popped, Replaced
  <2>7. Len(stack'[t]) \in Nat /\ DOMAIN stack'[t] = 1 .. Len(stack'[t])
    BY LenProperties DEF Types
  <2>8. \A k \in DOMAIN stack'[t] :
          \/ k \in DOMAIN stack[t] /\ k < Len(stack[t]) /\ stack'[t][k] = stack[t][k]
          \/ /\ k = Len(stack[t]) /\ k = Len(stack'[t])
             /\ stack'[t][k].fn = Top(t).fn /\ stack'[t][k].who = Top(t).who
    <3>1. CASE g.left = <<>>
      BY <2>2, <2>5, <2>6, <2>7, <3>1 DEF Popped, Lower
    <3>2. CASE g.left # <<>>
      BY <2>2, <2>5, <2>6, <2>7, <3>2 DEF Replaced, Lower, GoesOn
    <3> QED BY <3>1, <3>2
  <2>9. \A k \in DOMAIN stack[t] : k < Len(stack[t]) =>
          k \in DOMAIN stack'[t] /\ stack'[t][k] = stack[t][k]
    <3>1. Len(stack'[t]) = Len(stack[t]) \/ Len(stack'[t]) = Len(stack[t]) - 1
      BY <2>5 DEF Popped, Replaced
    <3> QED BY <2>2, <2>6, <2>7, <3>1 DEF Lower
  <2>10. Top(t).fn = "calloc" => Top(t).left[1] # "resolve"
    BY <2>1, <2>2, StageFacts
  <2>11. CASE temporary
    <3>1. PICK k \in DOMAIN stack[1] : /\ stack[1][k].fn = "calloc"
                                       /\ stack[1][k].left[1] = "resolve"
      BY <2>11 DEF Cheating
    <3>2. k < Len(stack[1])
      BY <2>2, <2>3, <2>10, <3>1
    <3>3. \E i \in DOMAIN stack'[1] : /\ stack'[1][i].fn = "calloc"
                                      /\ stack'[1][i].left[1] = "resolve"
      BY <2>3, <2>9, <3>1, <3>2
    <3>4. \A i \in DOMAIN stack[1] : stack[1][i].fn = "calloc" =>
            \/ stack[1][i].left[1] = "resolve"
            \/ i = Len(stack[1]) /\ stack[1][i].who = "dlsym"
      BY <2>1, <2>11 DEF Cheating
    <3>5. Top(t).fn = "calloc" => Top(t).who = "dlsym"
      BY <2>2, <2>3, <2>10, <3>4
    <3>6. \A i \in DOMAIN stack'[1] : stack'[1][i].fn = "calloc" =>
            \/ stack'[1][i].left[1] = "resolve"
            \/ i = Len(stack'[1]) /\ stack'[1][i].who = "dlsym"
      <4> SUFFICES ASSUME NEW i \in DOMAIN stack'[1], stack'[1][i].fn = "calloc"
                   PROVE  \/ stack'[1][i].left[1] = "resolve"
                          \/ i = Len(stack'[1]) /\ stack'[1][i].who = "dlsym"
        OBVIOUS
      <4>1. CASE i \in DOMAIN stack[t] /\ i < Len(stack[t]) /\ stack'[t][i] = stack[t][i]
        BY <2>2, <2>3, <3>4, <4>1
      <4>2. CASE i = Len(stack'[t]) /\ stack'[t][i].fn = Top(t).fn
                 /\ stack'[t][i].who = Top(t).who
        BY <2>3, <3>5, <4>2
      <4> QED BY <2>3, <2>8, <4>1, <4>2
    <3> QED BY <1>2, <2>1, <2>4, <2>11, <3>3, <3>6 DEF Cheating
  <2>12. CASE ~temporary
    <3>1. \A i \in DOMAIN stack[1] : stack[1][i].fn # "calloc"
      <4> SUFFICES ASSUME NEW i \in DOMAIN stack[1], stack[1][i].fn = "calloc"
                   PROVE  FALSE
        OBVIOUS
      <4>1. i = Len(stack[1]) /\ stack[1][i].left[1] = "check"
        BY <2>1, <2>12 DEF Cheating
      <4>2. Top(t).left[1] = "check"
        BY <2>2, <2>3, <4>1
      <4> QED BY <2>1, <2>2, <2>12, <4>2, StageFacts
    <3>2. \A i \in DOMAIN stack'[1] : stack'[1][i].fn # "calloc"
      BY <2>2, <2>3, <2>8, <3>1
    <3> QED BY <1>2, <2>1, <2>4, <2>12, <3>2 DEF Cheating
  <2> QED BY <2>11, <2>12 DEF Types
<1> QED BY <1>1, <1>2

LEMMA AdvancedPath ==
  ASSUME Types, Sound, PathKept, Types', NEW t \in Threads, NEW stage, Advanced(t, stage),
         Others(t), stage # "path", fname' = fname
  PROVE  PathKept'
<1>0. /\ stack[t] # <<>> /\ stage = Head(Left(Top(t)))
      /\ Len(stack[t]) \in Nat \ {0} /\ DOMAIN stack[t] = 1 .. Len(stack[t])
      /\ Top(t) = stack[t][Len(stack[t])] /\ Top(t) \in Frames
      /\ Top(t).left # <<>> /\ Plan(Top(t))
  BY TopFacts DEF Advanced
<1>1. PICK g \in Frames : /\ GoesOn(g, Top(t), stage) /\ g.over = Top(t).over
                          /\ IF g.left = <<>> THEN Popped(t) ELSE Replaced(t, g)
  BY DEF Advanced
<1>2. Lower(t)
  BY <1>1 DEF Popped, Replaced
<1>3. Len(stack'[t]) \in Nat /\ DOMAIN stack'[t] = 1 .. Len(stack'[t])
  BY LenProperties DEF Types
<1>4. \A k \in DOMAIN stack'[t] :
        \/ k \in DOMAIN stack[t] /\ k < Len(stack[t]) /\ stack'[t][k] = stack[t][k]
        \/ k = Len(stack[t]) /\ stack'[t][k] = g
  <2>1. CASE g.left = <<>>
    BY <1>0, <1>1, <1>2, <1>3, <2>1 DEF Popped, Lower
  <2>2. CASE g.left # <<>>
    BY <1>0, <1>1, <1>2, <1>3, <2>2 DEF Replaced, Lower
  <2> QED BY <2>1, <2>2
<1>5. \A k \in DOMAIN stack'[t] : \A j \in 1 .. k - 1 : stack'[t][j] = stack[t][j]
  <2>1. \A k \in DOMAIN stack'[t] : k <= Len(stack[t])
    BY <1>0, <1>4
  <2>2. \A k \in DOMAIN stack'[t] : \A j \in 1 .. k - 1 :
          j \in DOMAIN stack[t] /\ j < Len(stack[t])
    BY <1>0, <1>3, <2>1
  <2> QED BY <1>2, <2>2 DEF Lower
<1>6. \A k \in DOMAIN stack[t] : stack[t][k].fn \in PathFns =>
        /\ \A j \in 1 .. k - 1 : stack[t][j].fn \notin PathFns
        /\ ~stack[t][k].over /\ (\A i \in DOMAIN stack[t][k].left : stack[t][k].left[i] # "path")
             => fname = stack[t][k].stream
  BY DEF PathKept
<1>7. ASSUME NEW k \in DOMAIN stack'[t], stack'[t][k].fn \in PathFns
      PROVE  /\ \A j \in 1 .. k - 1 : stack'[t][j].fn \notin PathFns
             /\ ~stack'[t][k].over
                /\ (\A i \in DOMAIN stack'[t][k].left : stack'[t][k].left[i] # "path")
                  => fname' = stack'[t][k].stream
  <2>1. CASE k \in DOMAIN stack[t] /\ k < Len(stack[t]) /\ stack'[t][k] = stack[t][k]
    BY <1>5, <1>6, <1>7, <2>1
  <2>2. CASE k = Len(stack[t]) /\ stack'[t][k] = g
    <3>1. k \in DOMAIN stack[t] /\ stack[t][k] = Top(t)
      BY <1>0, <2>2
    <3>2. g.fn = Top(t).fn /\ g.stream = Top(t).stream
      BY <1>1 DEF GoesOn
    <3>3. (\A i \in DOMAIN g.left : g.left[i] # "path")
            => \A i \in DOMAIN Top(t).left : Top(t).left[i] # "path"
      BY <1>0, <1>1, GoesOnFacts
    <3> QED BY <1>1, <1>5, <1>6, <1>7, <2>2, <3>1, <3>2, <3>3
  <2> QED BY <1>4, <2>1, <2>2
<1>8. \A u \in Threads \ {t} : stack'[u] = stack[u]
  BY DEF Others
<1> QED BY <1>7, <1>8 DEF PathKept

Kept == Types /\ Sound /\ Cheating /\ PathKept

LEMMA StepKeeps ==
  ASSUME Kept, NEW t \in Threads, stack[t] # <<>>, NEW stage, stage = Head(Left(Top(t))),
         stage \notin {"check", "path"},
         NEW g \in Frames, GoesOn(g, Top(t), stage), g.over = Top(t).over, Step(t, g),
         call_count' \in Nat, temporary' \in BOOLEAN, fname' = fname,
         Looked => Looked', "calloc" \in found' => ~temporary',
         "calloc" \notin found' => /\ "calloc" \notin found /\ temporary' = temporary
                                   /\ ~(stage = "resolve" /\ Top(t).fn = "calloc")
  PROVE  Kept'
<1>1. Types /\ Sound /\ Cheating /\ PathKept
  BY DEF Kept
<1>2. Advanced(t, stage) /\ Others(t) /\ stack' \in [Threads -> Seq(Frames)]
  BY <1>1, StepAdvances
<1>3. Types'
  BY <1>2 DEF Types
<1>4. Sound'
  BY <1>1, <1>2, <1>3, AdvancedSound
<1>5. Cheating'
  BY <1>1, <1>2, <1>3, AdvancedCheating
<1>6. PathKept'
  BY <1>1, <1>2, <1>3, AdvancedPath
<1> QED BY <1>3, <1>4, <1>5, <1>6 DEF Kept

\* The call on top with its next stage done, and what can be set on it then.
LEMMA DoneGoesOn ==
  ASSUME NEW f \in Frames, f.left # <<>>, Plan(f), NEW stage, stage = Head(Left(f))
  PROVE  /\ Done(f) \in Frames /\ Done(f).over = f.over /\ GoesOn(Done(f), f, stage)
         /\ \A n \in Nat : LET g == [Done(f) EXCEPT !.n = n] IN
              g \in Frames /\ g.over = f.over /\ GoesOn(g, f, stage)
         /\ stage = "real" => LET g == [Done(f) EXCEPT !.shut = f.fn = "fclose"] IN
              g \in Frames /\ g.over = f.over /\ GoesOn(g, f, stage)
         /\ LET g == [Done(f) EXCEPT !.over = FALSE] IN
              g \in Frames /\ g.over = FALSE /\ GoesOn(g, f, stage)
<1>1. /\ Done(f) \in Frames /\ Done(f).over = f.over /\ Done(f).shut = f.shut
      /\ Done(f).fn = f.fn /\ Done(f).who = f.who /\ Done(f).stream = f.stream
  BY DoneFacts DEF Ahead
<1>2. ASSUME NEW d, d = Done(f)
      PROVE  /\ d \in Frames /\ d.over = f.over /\ GoesOn(d, f, stage)
             /\ \A n \in Nat : LET g == [d EXCEPT !.n = n] IN
                  g \in Frames /\ g.over = f.over /\ GoesOn(g, f, stage)
             /\ stage = "real" => LET g == [d EXCEPT !.shut = f.fn = "fclose"] IN
                  g \in Frames /\ g.over = f.over /\ GoesOn(g, f, stage)
             /\ LET g == [d EXCEPT !.over = FALSE] IN
                  g \in Frames /\ g.over = FALSE /\ GoesOn(g, f, stage)
  <2>1. /\ d \in Frames /\ d.over = f.over /\ d.shut = f.shut
        /\ d.fn = f.fn /\ d.who = f.who /\ d.stream = f.stream /\ d.left = Done(f).left
    BY <1>1, <1>2
  <2>2. GoesOn(d, f, stage)
    BY <2>1 DEF GoesOn
  <2>3. ASSUME NEW n \in Nat, NEW g, g = [d EXCEPT !.n = n]
        PROVE  g \in Frames /\ g.over = f.over /\ GoesOn(g, f, stage)
    <3>1. g \in Frames
      BY <2>1, <2>3 DEF Frames
    <3>2. /\ g.over = f.over /\ g.shut = f.shut /\ g.fn = f.fn /\ g.who = f.who
          /\ g.stream = f.stream /\ g.left = Done(f).left
      BY <2>1, <2>3 DEF Frames
    <3> QED BY <3>1, <3>2 DEF GoesOn
  <2>4. ASSUME stage = "real", NEW g, g = [d EXCEPT !.shut = f.fn = "fclose"]
        PROVE  g \in Frames /\ g.over = f.over /\ GoesOn(g, f, stage)
    <3>1. g \in Frames
      BY <2>1, <2>4 DEF Frames
    <3>2. /\ g.over = f.over /\ g.shut = (f.fn = "fclose") /\ g.fn = f.fn /\ g.who = f.who
          /\ g.stream = f.stream /\ g.left = Done(f).left
      BY <2>1, <2>4 DEF Frames
    <3> QED BY <2>4, <3>1, <3>2 DEF GoesOn
  <2>5. ASSUME NEW g, g = [d EXCEPT !.over = FALSE]
        PROVE  g \in Frames /\ g.over = FALSE /\ GoesOn(g, f, stage)
    <3>1. g \in Frames
      BY <2>1, <2>5 DEF Frames
    <3>2. /\ g.over = FALSE /\ g.shut = f.shut /\ g.fn = f.fn /\ g.who = f.who
          /\ g.stream = f.stream /\ g.left = Done(f).left
      BY <2>1, <2>5 DEF Frames
    <3> QED BY <3>1, <3>2 DEF GoesOn
  <2> QED BY <2>1, <2>2, <2>3, <2>4, <2>5
<1> QED BY <1>2

LEMMA AtFacts ==
  ASSUME Kept, NEW t \in Threads, NEW stages, At(t, stages)
  PROVE  /\ stack[t] # <<>> /\ Top(t) \in Frames /\ Top(t).left # <<>> /\ Plan(Top(t))
         /\ Head(Left(Top(t))) \in stages
BY TopFacts DEF Kept, At

LEMMA ResolveKeeps ==
  ASSUME Kept, NEW t \in Threads, Resolve(t)
  PROVE  Kept'
<1> DEFINE stage == Head(Left(Top(t)))
           target == Target(t)
<1>1. At(t, {"resolve", "readlink"})
  BY DEF Resolve
<1>2. /\ stack[t] # <<>> /\ Top(t) \in Frames /\ Top(t).left # <<>> /\ Plan(Top(t))
      /\ stage \in {"resolve", "readlink"}
  BY <1>1, AtFacts
<1>3. /\ Done(Top(t)) \in Frames /\ Done(Top(t)).over = Top(t).over
      /\ GoesOn(Done(Top(t)), Top(t), stage)
  BY <1>2, DoneGoesOn
<1>4. target = "calloc" <=> stage = "resolve" /\ Top(t).fn = "calloc"
  <2>1. target = IF stage = "readlink" THEN "readlink" ELSE Original(Top(t).fn)
    BY <1>2 DEF Target, At
  <2>2. Original(Top(t).fn) = "calloc" <=> Top(t).fn = "calloc"
    BY FnFacts
  <2> QED BY <1>2, <2>1, <2>2
<1>5. /\ found' = found \cup {target} /\ temporary' = (temporary /\ target # "calloc")
      /\ Step(t, Done(Top(t))) /\ call_count' = call_count /\ fname' = fname
  BY DEF Resolve
<1>6. temporary \in BOOLEAN /\ call_count \in Nat /\ (temporary => "calloc" \notin found)
  BY DEF Kept, Types, Cheating
<1> HIDE DEF stage, target
<1>7. temporary' \in BOOLEAN /\ call_count' \in Nat
  BY <1>5, <1>6
<1>8. Looked => Looked'
  BY <1>5 DEF Looked
<1>9. "calloc" \in found' => ~temporary'
  BY <1>5, <1>6
<1>10. "calloc" \notin found' => /\ "calloc" \notin found /\ temporary' = temporary
                                 /\ ~(stage = "resolve" /\ Top(t).fn = "calloc")
  BY <1>4, <1>5, <1>6
<1>11. stage = Head(Left(Top(t)))
  BY DEF stage
<1> QED BY <1>2, <1>3, <1>5, <1>7, <1>8, <1>9, <1>10, <1>11, StepKeeps

\* The stages that change nothing of what calloc's lookup depends on.
LEMMA PlainStepKeeps ==
  ASSUME Kept, NEW t \in Threads, stack[t] # <<>>, NEW stage, stage = Head(Left(Top(t))),
         stage \in {"real", "load", "store", "log"},
         NEW g \in Frames, GoesOn(g, Top(t), stage), g.over = Top(t).over, Step(t, g),
         call_count' \in Nat, temporary' = temporary, found' = found, fname' = fname
  PROVE  Kept'
<1>1. temporary \in BOOLEAN /\ (temporary => "calloc" \notin found)
  BY DEF Kept, Types, Cheating
<1>2. Looked => Looked'
  BY DEF Looked
<1> QED BY <1>1, <1>2, StepKeeps

LEMMA RealKeeps ==
  ASSUME Kept, NEW t \in Threads, Real(t)
  PROVE  Kept' /\ (OnlyDlsymIsCheated => OnlyDlsymIsCheated')
<1> DEFINE stage == Head(Left(Top(t)))
           f == Top(t)
           g == [Done(f) EXCEPT !.shut = f.fn = "fclose"]
<1>1. At(t, {"real"})
  BY DEF Real
<1>2. /\ stack[t] # <<>> /\ f \in Frames /\ f.left # <<>> /\ Plan(f) /\ stage = "real"
  BY <1>1, AtFacts
<1>3. g \in Frames /\ g.over = f.over /\ GoesOn(g, f, stage)
  BY <1>2, DoneGoesOn
<1>4. /\ Step(t, g) /\ call_count' = call_count /\ fname' = fname
      /\ temporary' = temporary /\ found' = found
  BY DEF Real, kept
<1>5. cheated' = IF f.fn = "calloc" /\ temporary THEN cheated \cup {f.who} ELSE cheated
  BY DEF Real
<1>6. ASSUME f.fn = "calloc", temporary PROVE f.who = "dlsym"
  <2>1. Types /\ Sound /\ Cheating
    BY DEF Kept
  <2>2. "calloc" \notin found
    BY <1>6, <2>1 DEF Cheating
  <2>3. t = 1
    BY <1>2, <2>1, <2>2 DEF Cheating
  <2>4. f.left[1] # "resolve"
    BY <1>2, <1>6, <2>2, StageFacts
  <2>5. f = stack[t][Len(stack[t])] /\ Len(stack[t]) \in DOMAIN stack[t]
    BY <1>2, <2>1, TopFacts
  <2> QED BY <1>6, <2>1, <2>2, <2>3, <2>4, <2>5 DEF Cheating
<1>7. OnlyDlsymIsCheated => OnlyDlsymIsCheated'
  BY <1>5, <1>6 DEF OnlyDlsymIsCheated
<1>8. call_count' \in Nat
  BY <1>4 DEF Kept, Types
<1>9. stage = Head(Left(f)) /\ stage \in {"real", "load", "store", "log"}
  BY <1>2
<1> HIDE DEF stage, g
<1>10. Kept'
  BY <1>2, <1>3, <1>4, <1>8, <1>9, PlainStepKeeps
<1> QED BY <1>7, <1>10

LEMMA LoadKeeps ==
  ASSUME Kept, NEW t \in Threads, Load(t)
  PROVE  Kept'
<1> DEFINE stage == Head(Left(Top(t)))
           f == Top(t)
           g == [Done(f) EXCEPT !.n = call_count]
<1>1. /\ stack[t] # <<>> /\ f \in Frames /\ f.left # <<>> /\ Plan(f) /\ stage = "load"
  BY AtFacts DEF Load
<1>2. call_count \in Nat
  BY DEF Kept, Types
<1>3. g \in Frames /\ g.over = f.over /\ GoesOn(g, f, stage)
  BY <1>1, <1>2, DoneGoesOn
<1>4. /\ Step(t, g) /\ call_count' = call_count /\ fname' = fname
      /\ temporary' = temporary /\ found' = found
  BY DEF Load, kept
<1>5. stage = Head(Left(f)) /\ stage \in {"real", "load", "store", "log"}
  BY <1>1
<1> HIDE DEF stage, g
<1> QED BY <1>1, <1>2, <1>3, <1>4, <1>5, PlainStepKeeps

LEMMA StoreKeeps ==
  ASSUME Kept, NEW t \in Threads, Store(t)
  PROVE  Kept'
<1> DEFINE stage == Head(Left(Top(t)))
           f == Top(t)
           g == [Done(f) EXCEPT !.n = 0]
<1>1. /\ stack[t] # <<>> /\ f \in Frames /\ f.left # <<>> /\ Plan(f) /\ stage = "store"
  BY AtFacts DEF Store
<1>2. \A n \in Nat : LET h == [Done(f) EXCEPT !.n = n] IN
        h \in Frames /\ h.over = f.over /\ GoesOn(h, f, stage)
  BY <1>1, DoneGoesOn
<1>3. g \in Frames /\ g.over = f.over /\ GoesOn(g, f, stage)
  BY <1>2
<1>4. /\ Step(t, g) /\ call_count' = f.n + 1 /\ fname' = fname
      /\ temporary' = temporary /\ found' = found
  BY DEF Store
<1>5. call_count' \in Nat
  BY <1>1, <1>4 DEF Frames
<1>6. stage = Head(Left(f)) /\ stage \in {"real", "load", "store", "log"}
  BY <1>1
<1> HIDE DEF stage, g
<1> QED BY <1>1, <1>3, <1>4, <1>5, <1>6, PlainStepKeeps

LEMMA LogKeeps ==
  ASSUME Kept, NEW t \in Threads, Log(t)
  PROVE  Kept' /\ NamedRight'
<1> DEFINE stage == Head(Left(Top(t)))
           f == Top(t)
<1>1. /\ stack[t] # <<>> /\ f \in Frames /\ f.left # <<>> /\ Plan(f) /\ stage = "log"
  BY AtFacts DEF Log
<1>2. Done(f) \in Frames /\ Done(f).over = f.over /\ GoesOn(Done(f), f, stage)
  BY <1>1, DoneGoesOn
<1>3. /\ Step(t, Done(f)) /\ call_count' = call_count /\ fname' = fname
      /\ temporary' = temporary /\ found' = found
  BY DEF Log, kept
<1>4. stage = Head(Left(f)) /\ stage \in {"real", "load", "store", "log"}
  BY <1>1
<1>5. call_count' \in Nat
  BY <1>3 DEF Kept, Types
<1>6. \A i \in DOMAIN f.left : f.left[i] # "path"
  BY <1>1, StageFacts
<1>7. f.fn \in PathFns /\ ~f.over => fname = f.stream
  <2>1. f = stack[t][Len(stack[t])] /\ Len(stack[t]) \in DOMAIN stack[t]
    BY <1>1, TopFacts DEF Kept
  <2> QED BY <1>6, <2>1 DEF Kept, PathKept
<1>8. \/ last' = NoLine
      \/ last' = [fn |-> f.fn, stream |-> f.stream, over |-> f.over, to |-> stderr,
                  path |-> IF f.fn \in PathFirst \cup PathAfter THEN fname ELSE "none"]
  BY DEF Log
<1> HIDE DEF stage
<1>9. NamedRight'
  <2>1. CASE last' = NoLine
    BY <2>1, FnFacts DEF NoLine, NamedRight
  <2>2. CASE last' = [fn |-> f.fn, stream |-> f.stream, over |-> f.over, to |-> stderr,
                      path |-> IF f.fn \in PathFirst \cup PathAfter THEN fname ELSE "none"]
    <3>1. /\ last'.fn = f.fn /\ last'.stream = f.stream /\ last'.over = f.over
          /\ last'.path = IF f.fn \in PathFns THEN fname ELSE "none"
      BY <2>2 DEF PathFns
    <3> QED BY <1>7, <3>1 DEF NamedRight
  <2> QED BY <1>8, <2>1, <2>2
<1>10. Kept'
  BY <1>1, <1>2, <1>3, <1>4, <1>5, PlainStepKeeps
<1> QED BY <1>9, <1>10

LEMMA CheckKeeps ==
  ASSUME Kept, NEW t \in Threads, Check(t)
  PROVE  Kept'
<1> DEFINE f == Top(t)
           rest == Tail(f.left)
           left == <<"resolve">> \o rest
           g == [f EXCEPT !.left = left]
           n == Len(stack[t])
<1>0. Types /\ Sound /\ Cheating /\ PathKept
  BY DEF Kept
<1>1. /\ stack[t] # <<>> /\ f \in Frames /\ f.left # <<>> /\ Plan(f)
      /\ Head(Left(f)) = "check"
  BY AtFacts DEF Check
<1>2. f.fn = "calloc" /\ f.left[1] = "check" /\ ~temporary /\ "calloc" \notin found
  BY <1>1, StageFacts
<1>3. /\ n \in Nat \ {0} /\ DOMAIN stack[t] = 1 .. n /\ f = stack[t][n]
  BY <1>0, <1>1, TopFacts
<1>4. t = 1 /\ \A u \in Threads \ {1} : stack[u] = <<>>
  BY <1>0, <1>1, <1>2 DEF Cheating
<1>5. /\ f.left \in Seq(AllStages) /\ Len(f.left) \in Nat \ {0}
      /\ DOMAIN f.left = 1 .. Len(f.left)
  BY <1>1, EmptySeq, LenProperties DEF Frames
<1>6. /\ left \in Seq(AllStages) /\ Len(left) = Len(f.left) /\ left[1] = "resolve"
      /\ \A i \in 2 .. Len(f.left) : left[i] = f.left[i]
  <2> DEFINE one == <<"resolve">>
  <2>1. one \in Seq(AllStages) /\ Len(one) = 1 /\ one[1] = "resolve"
    BY DEF AllStages
  <2>2. /\ rest \in Seq(AllStages) /\ Len(rest) = Len(f.left) - 1
        /\ \A i \in 1 .. Len(rest) : rest[i] = f.left[i + 1]
    BY <1>1, <1>5, HeadTailProperties
  <2> HIDE DEF one, rest
  <2>3. /\ one \o rest \in Seq(AllStages) /\ Len(one \o rest) = Len(one) + Len(rest)
        /\ \A i \in 1 .. Len(one) + Len(rest) :
             (one \o rest)[i] = IF i <= Len(one) THEN one[i] ELSE rest[i - Len(one)]
    BY <2>1, <2>2, ConcatProperties
  <2>4. \A i \in 2 .. Len(f.left) : i - 1 \in 1 .. Len(rest) /\ (i - 1) + 1 = i
    BY <1>5, <2>2
  <2>5. left = one \o rest
    BY DEF one
  <2> HIDE DEF left
  <2>6. left \in Seq(AllStages) /\ Len(left) = Len(f.left)
    BY <1>5, <2>1, <2>2, <2>3, <2>5
  <2>7. left[1] = "resolve"
    <3>1. 1 \in 1 .. Len(one) + Len(rest)
      BY <1>5, <2>1, <2>2
    <3> QED BY <2>1, <2>3, <2>5, <3>1
  <2>8. ASSUME NEW i \in 2 .. Len(f.left) PROVE left[i] = f.left[i]
    <3>1. i \in 1 .. Len(one) + Len(rest) /\ ~(i <= Len(one)) /\ i - Len(one) = i - 1
      BY <1>5, <2>1, <2>2
    <3>2. left[i] = rest[i - 1]
      BY <2>3, <2>5, <3>1
    <3> QED BY <2>2, <2>4, <3>2
  <2> QED BY <2>6, <2>7, <2>8
<1> HIDE DEF left
<1>7. /\ g \in Frames /\ g.fn = f.fn /\ g.who = f.who /\ g.left = left /\ g.over = f.over
      /\ g.stream = f.stream /\ g.shut = f.shut
  BY <1>1, <1>6 DEF Frames
<1>8. Step(t, g) /\ temporary' = TRUE
      /\ found' = found /\ call_count' = call_count /\ fname' = fname
  BY DEF Check, left, g
<1> HIDE DEF g
<1>9. g.left # <<>>
  BY <1>5, <1>6, <1>7, EmptySeq
<1>10. stack' \in [Threads -> Seq(Frames)] /\ Others(t) /\ Replaced(t, g)
  BY <1>0, <1>1, <1>7, <1>8, <1>9, StepFacts DEF Types
<1>11. Types'
  BY <1>0, <1>8, <1>10 DEF Types
<1>12. Len(stack'[t]) = n /\ DOMAIN stack'[t] = 1 .. n
       /\ stack'[t][n] = g /\ \A k \in 1 .. n : k < n => stack'[t][k] = stack[t][k]
  BY <1>3, <1>10, LenProperties DEF Replaced, Lower
<1>13. Plan(g)
  <2>1. DOMAIN g.left = 1 .. Len(f.left) /\ Len(g.left) = Len(f.left)
    BY <1>6, <1>7, LenProperties
  <2>2. g.left[1] = "resolve" /\ \A i \in 2 .. Len(f.left) : g.left[i] = f.left[i]
    BY <1>6, <1>7
  <2>3. 1 < Len(f.left) /\ f.left[2] \notin Lookups
    <3>1. 1 \in DOMAIN f.left /\ f.left[1] \in Lookups /\ 1 + 1 = 2
      BY <1>2, <1>5 DEF Lookups
    <3>2. 1 < Len(f.left) /\ f.left[1 + 1] \notin Lookups
      BY <1>1, <3>1 DEF Plan
    <3> QED BY <3>1, <3>2
  <2>4. g.fn = "calloc" /\ ~(g.fn \in PathFns)
    BY <1>2, <1>7, FnFacts
  <2>5. ASSUME NEW i \in DOMAIN g.left
        PROVE  /\ g.left[i] \in Lookups => i < Len(g.left) /\ g.left[i + 1] \notin Lookups
               /\ g.left[i] \in {"path", "finalize"} => i < Len(g.left)
               /\ g.left[i] \in {"check", "resolve"} => i = 1
               /\ g.left[i] \notin {"readlink", "path"}
               /\ g.left[i] # "finalize" /\ g.left[i] # "end"
    <3>1. CASE i = 1
      <4>1. g.left[i] = "resolve" /\ i + 1 \in 2 .. Len(f.left) /\ i + 1 = 2
        BY <1>5, <2>2, <2>3, <3>1
      <4>2. g.left[i + 1] \notin Lookups
        BY <2>2, <2>3, <4>1
      <4> QED BY <2>1, <2>3, <3>1, <4>1, <4>2
    <3>2. CASE i # 1
      <4>1. i \in 2 .. Len(f.left) /\ i \in DOMAIN f.left /\ g.left[i] = f.left[i]
        BY <1>5, <2>1, <2>2, <3>2
      <4>2. i < Len(f.left) => i + 1 \in 2 .. Len(f.left)
        BY <1>5, <4>1
      <4>3. i < Len(f.left) => g.left[i + 1] = f.left[i + 1]
        BY <2>2, <4>2
      <4>4. /\ f.left[i] \in Lookups => i < Len(f.left) /\ f.left[i + 1] \notin Lookups
            /\ f.left[i] \in {"path", "finalize"} => i < Len(f.left)
            /\ f.left[i] \in {"check", "resolve"} => i = 1
            /\ f.left[i] \in {"readlink", "path"} => f.fn \in PathFns
            /\ f.left[i] = "finalize" => f.fn = "exit"
            /\ f.left[i] = "end" => f.fn \in Ends
        BY <1>1, <1>2, <4>1 DEF Plan
      <4> QED BY <1>2, <2>1, <4>1, <4>3, <4>4, FnFacts
    <3> QED BY <3>1, <3>2
  <2> QED BY <2>4, <2>5 DEF Plan
<1>14. Looked' /\ ~Looked
  BY <1>2, <1>8 DEF Looked
<1>15. OthersKin(t) /\ Lower(t)
  BY <1>10, OthersAreKin DEF Replaced
<1>16. Sound'
  <2>1. /\ \A u \in Threads \ {t} : \A k \in DOMAIN stack'[u] : SoundAt(u, k)'
        /\ \A k \in DOMAIN stack[t] : k < Len(stack[t]) => SoundAt(t, k)'
    BY <1>0, <1>11, <1>14, <1>15, RestSound
  <2>2. \A k : k = Len(stack[t]) => SoundAt(t, k)'
    BY <1>0, <1>1, <1>7, <1>9, <1>11, <1>12, <1>13, <1>14, <1>15, TopSound
  <2>3. \A k \in DOMAIN stack'[t] : k \in DOMAIN stack[t] /\ (k < n \/ k = n)
    BY <1>3, <1>12
  <2>4. \A k \in DOMAIN stack'[t] : SoundAt(t, k)'
    BY <2>1, <2>2, <2>3
  <2> QED BY <2>1, <2>4 DEF Sound
<1>17. Cheating'
  <2>1. \A k \in DOMAIN stack[1] : stack[1][k].fn = "calloc" => k = n
    BY <1>0, <1>2, <1>4 DEF Cheating
  <2>2. \A k \in DOMAIN stack'[1] : stack'[1][k].fn = "calloc" =>
          stack'[1][k].left[1] = "resolve"
    BY <1>3, <1>4, <1>6, <1>7, <1>12, <2>1
  <2>3. n \in DOMAIN stack'[1] /\ stack'[1][n].fn = "calloc"
    BY <1>2, <1>3, <1>4, <1>7, <1>12
  <2>4. \A u \in Threads \ {1} : stack'[u] = <<>>
    BY <1>4, <1>10 DEF Others
  <2> QED BY <1>2, <1>8, <2>2, <2>3, <2>4 DEF Cheating
<1>18. PathKept'
  <2>1. \A k \in 1 .. n : stack[t][k].fn \in PathFns =>
          /\ \A j \in 1 .. k - 1 : stack[t][j].fn \notin PathFns
          /\ ~stack[t][k].over /\ (\A i \in DOMAIN stack[t][k].left : stack[t][k].left[i] # "path")
               => fname = stack[t][k].stream
    BY <1>0, <1>3 DEF PathKept
  <2>2. ASSUME NEW k \in DOMAIN stack'[t], stack'[t][k].fn \in PathFns
        PROVE  /\ \A j \in 1 .. k - 1 : stack'[t][j].fn \notin PathFns
               /\ ~stack'[t][k].over
                  /\ (\A i \in DOMAIN stack'[t][k].left : stack'[t][k].left[i] # "path")
                    => fname' = stack'[t][k].stream
    <3>1. k \in 1 .. n /\ k < n
      BY <1>2, <1>3, <1>7, <1>12, <2>2, FnFacts
    <3>2. stack'[t][k] = stack[t][k] /\ \A j \in 1 .. k - 1 : stack'[t][j] = stack[t][j]
      BY <1>3, <1>12, <3>1
    <3> QED BY <1>8, <2>1, <2>2, <3>1, <3>2
  <2> QED BY <1>10, <1>0, <1>8, <2>2 DEF PathKept, Others
<1> QED BY <1>11, <1>16, <1>17, <1>18 DEF Kept

LEMMA PathKeeps ==
  ASSUME Kept, NEW t \in Threads, Path(t)
  PROVE  Kept'
<1> DEFINE f == Top(t)
           g == [Done(f) EXCEPT !.over = FALSE]
           n == Len(stack[t])
           mine == Append(Front(stack[t]), g)
           theirs(u) == [k \in DOMAIN stack[u] |-> [stack[u][k] EXCEPT !.over = TRUE]]
<1>0. Types /\ Sound /\ Cheating /\ PathKept
  BY DEF Kept
<1>1. /\ stack[t] # <<>> /\ f \in Frames /\ f.left # <<>> /\ Plan(f)
      /\ Head(Left(f)) = "path"
  BY AtFacts DEF Path
<1>2. f.fn \in PathFns /\ ~f.shut
  BY <1>1, StageFacts
<1>3. n \in Nat \ {0} /\ DOMAIN stack[t] = 1 .. n /\ f = stack[t][n]
  BY <1>0, <1>1, TopFacts
<1>4. g \in Frames /\ g.over = FALSE /\ GoesOn(g, f, "path")
  BY <1>1, DoneGoesOn
<1>5. g.left # <<>>
  BY <1>1, <1>4, GoesOnFacts
<1>6. /\ stack' = [u \in Threads |-> IF u = t THEN mine ELSE theirs(u)]
      /\ fname' = IF f.shut THEN "none" ELSE f.stream
      /\ found' = found /\ temporary' = temporary /\ call_count' = call_count
  BY DEF Path
<1> HIDE DEF g
<1>7. /\ mine \in Seq(Frames) /\ Len(mine) = n /\ mine[n] = g
      /\ \A k \in 1 .. n : k < n => mine[k] = stack[t][k]
  <2>1. stack[t] \in Seq(Frames)
    BY <1>0 DEF Types
  <2> QED BY <1>1, <1>3, <1>4, <2>1, AppendFacts
<1>8. ASSUME NEW u \in Threads
      PROVE  /\ theirs(u) \in Seq(Frames) /\ Len(theirs(u)) = Len(stack[u])
             /\ DOMAIN theirs(u) = DOMAIN stack[u]
             /\ \A k \in DOMAIN stack[u] : Kin(theirs(u)[k], stack[u][k]) /\ theirs(u)[k].over
  <2>1. /\ stack[u] \in Seq(Frames) /\ Len(stack[u]) \in Nat
        /\ DOMAIN stack[u] = 1 .. Len(stack[u])
        /\ \A k \in 1 .. Len(stack[u]) : stack[u][k] \in Frames
    BY <1>0, LenProperties, ElementOfSeq DEF Types
  <2>2. \A x \in Frames : LET y == [x EXCEPT !.over = TRUE]
                          IN y \in Frames /\ Kin(y, x) /\ y.over
    <3>1. ASSUME NEW x \in Frames, NEW y, y = [x EXCEPT !.over = TRUE]
          PROVE  y \in Frames /\ Kin(y, x) /\ y.over
      <4>1. y \in Frames
        BY <3>1 DEF Frames
      <4>2. y.fn = x.fn /\ y.who = x.who /\ y.left = x.left /\ y.stream = x.stream
            /\ y.shut = x.shut /\ y.over = TRUE
        BY <3>1 DEF Frames
      <4> QED BY <4>1, <4>2 DEF Kin
    <3> QED BY <3>1
  <2>3. theirs(u) \in [1 .. Len(stack[u]) -> Frames]
    BY <2>1, <2>2
  <2>4. theirs(u) \in Seq(Frames)
    BY <2>1, <2>3, SeqDef
  <2>5. Len(theirs(u)) = Len(stack[u])
    <3> HIDE DEF theirs
    <3>1. Len(theirs(u)) \in Nat /\ DOMAIN theirs(u) = 1 .. Len(theirs(u))
      BY <2>4, LenProperties
    <3>2. DOMAIN theirs(u) = 1 .. Len(stack[u])
      BY <2>3
    <3> QED BY <2>1, <3>1, <3>2
  <2> QED BY <2>1, <2>2, <2>4, <2>5
<1> HIDE DEF mine, theirs
<1>9. stack' \in [Threads -> Seq(Frames)]
  BY <1>6, <1>7, <1>8
<1>10. Types'
  BY <1>0, <1>6, <1>9 DEF Types
<1>11. stack'[t] = mine /\ \A u \in Threads \ {t} : stack'[u] = theirs(u)
  BY <1>6
<1>12. OthersKin(t) /\ Replaced(t, g)
  BY <1>3, <1>7, <1>8, <1>11 DEF OthersKin, Replaced, Lower
<1>13. Advanced(t, "path")
  BY <1>1, <1>4, <1>5, <1>12 DEF Advanced
<1>14. Looked => Looked'
  BY <1>6 DEF Looked
<1>15. Sound'
  BY <1>0, <1>10, <1>13, <1>14, AdvancedSound
<1>16. Cheating'
  <2>1. /\ "calloc" \in found' => ~temporary'
        /\ "calloc" \notin found' => /\ "calloc" \notin found /\ temporary' = temporary
                                     /\ ~("path" = "resolve" /\ Top(t).fn = "calloc")
    BY <1>0, <1>6 DEF Cheating
  <2>2. "path" # "check"
    OBVIOUS
  <2> QED BY <1>0, <1>10, <1>13, <2>1, <2>2, AdvancedCheating
<1>17. \A j \in 1 .. n - 1 : stack[t][j].fn \notin PathFns
  BY <1>0, <1>2, <1>3 DEF PathKept
<1>18. g.stream = f.stream
  BY <1>4 DEF GoesOn
<1>19. ASSUME NEW k \in DOMAIN stack'[t], stack'[t][k].fn \in PathFns
       PROVE  /\ \A j \in 1 .. k - 1 : stack'[t][j].fn \notin PathFns
              /\ fname' = stack'[t][k].stream
  <2>1. DOMAIN stack'[t] = 1 .. n
    BY <1>7, <1>11, LenProperties
  <2>2. k = n
    BY <1>3, <1>7, <1>11, <1>17, <1>19, <2>1
  <2>3. fname' = stack'[t][k].stream
    BY <1>2, <1>6, <1>7, <1>11, <1>18, <2>2
  <2>4. \A j \in 1 .. k - 1 : stack'[t][j] = stack[t][j]
    BY <1>3, <1>7, <1>11, <2>2
  <2> QED BY <1>17, <2>2, <2>3, <2>4
<1>20. ASSUME NEW u \in Threads \ {t}, NEW k \in DOMAIN stack'[u], stack'[u][k].fn \in PathFns
       PROVE  /\ \A j \in 1 .. k - 1 : stack'[u][j].fn \notin PathFns
              /\ stack'[u][k].over
  <2>1. /\ DOMAIN stack'[u] = DOMAIN stack[u] /\ DOMAIN stack[u] = 1 .. Len(stack[u])
        /\ Len(stack[u]) \in Nat
    BY <1>0, <1>8, <1>11, LenProperties DEF Types
  <2>2. \A j \in DOMAIN stack[u] : stack'[u][j].fn = stack[u][j].fn /\ stack'[u][j].over
    BY <1>8, <1>11 DEF Kin
  <2>3. stack[u][k].fn \in PathFns
    BY <1>20, <2>1, <2>2
  <2>4. \A j \in 1 .. k - 1 : stack[u][j].fn \notin PathFns /\ j \in DOMAIN stack[u]
    BY <1>0, <2>1, <2>3 DEF PathKept
  <2> QED BY <2>1, <2>2, <2>4
<1>21. PathKept'
  BY <1>19, <1>20 DEF PathKept
<1> QED BY <1>10, <1>15, <1>16, <1>21 DEF Kept

-----------------------------------------------------------------------------
(* A call makes another.                                                    *)

\* The depth and the kind of a call that h is when made by f at depth n.
MayCall(f, n, h) ==
  /\ h.left # <<>> /\ Plan(h) /\ Callers(h) /\ h.fn \notin Ends
  /\ \/ h.who = "monitor" /\ n = 1
     \/ h.who = "libc" /\ n <= 2
     \/ h.who = "dlsym" /\ n <= IF f.fn = "calloc" THEN 4 ELSE 3
  /\ h.fn = "calloc" => /\ h.who = "dlsym" /\ h.left[1] = "check"
                        /\ f.fn = "calloc" => Looked

LEMMA PushedSound ==
  ASSUME Types, Sound, Types', Looked => Looked', NEW t \in Threads, stack[t] # <<>>,
         OthersKin(t), NEW g \in Frames, NEW h \in Frames, Pushed(t, g, h),
         g.left # <<>>, g.fn = Top(t).fn, g.who = Top(t).who, Plan(g),
         g.fn = "calloc" /\ g.left[1] = "resolve" => ~Looked \/ Top(t).left[1] = "resolve",
         MayCall(Top(t), Len(stack[t]), h)
  PROVE  Sound'
<1> DEFINE n == Len(stack[t])
           f == Top(t)
<1>1. n \in Nat \ {0} /\ DOMAIN stack[t] = 1 .. n /\ f = stack[t][n]
  BY TopFacts
<1>2. /\ Len(stack'[t]) = n + 1 /\ Lower(t) /\ stack'[t][n] = g /\ stack'[t][n + 1] = h
      /\ DOMAIN stack'[t] = 1 .. n + 1
  BY LenProperties DEF Pushed, Types
<1>3. /\ \A u \in Threads \ {t} : \A k \in DOMAIN stack'[u] : SoundAt(u, k)'
      /\ \A k \in DOMAIN stack[t] : k < Len(stack[t]) => SoundAt(t, k)'
  BY <1>2, RestSound
<1>4. \A k : k = Len(stack[t]) => SoundAt(t, k)'
  BY <1>2, TopSound
<1>5. ASSUME NEW k, k = n + 1 PROVE SoundAt(t, k)'
  <2>1. k - 1 = n /\ k > 1 /\ stack'[t][k] = h /\ stack'[t][k - 1] = g /\ k \in Nat
    BY <1>1, <1>2, <1>5
  <2>2. /\ h.left # <<>> /\ Plan(h) /\ Callers(h) /\ h.fn \notin Ends
        /\ \/ h.who = "monitor" /\ n = 1
           \/ h.who = "libc" /\ n <= 2
           \/ h.who = "dlsym" /\ n <= IF f.fn = "calloc" THEN 4 ELSE 3
        /\ h.fn = "calloc" => /\ h.who = "dlsym" /\ h.left[1] = "check"
                              /\ f.fn = "calloc" => Looked
    BY DEF MayCall
  <2>3. g.fn = f.fn
    OBVIOUS
  <2> HIDE DEF n, f
  <2>4. /\ h.fn \in Ends => k = 1
        /\ h.who \in {"program", "monitor"} => k <= 2
        /\ h.who = "libc" => k <= 3
        /\ h.who = "dlsym" => k > 1 /\ k <= IF g.fn = "calloc" THEN 5 ELSE 4
        /\ k > 1 /\ h.fn = "calloc" /\ g.fn = "calloc" => h.left[1] # "resolve" /\ Looked'
    BY <1>1, <1>5, <2>1, <2>2, <2>3
  <2> QED BY <2>1, <2>2, <2>4 DEF SoundAt, Nesting, Looked
<1>6. \A k \in DOMAIN stack'[t] : k = n + 1 \/ k = n \/ (k \in DOMAIN stack[t] /\ k < n)
  BY <1>1, <1>2
<1>7. \A k \in DOMAIN stack'[t] : SoundAt(t, k)'
  BY <1>3, <1>4, <1>5, <1>6
<1> QED BY <1>3, <1>7 DEF Sound

LEMMA NestedKeeps ==
  ASSUME Kept, NEW t \in Threads, stack[t] # <<>>, NEW h \in Frames, Nested(t, h),
         MayCall(Top(t), Len(stack[t]), h), h.fn \notin PathFns,
         Head(Left(Top(t))) # "check",
         Top(t).fn = "calloc" => Top(t).left[1] = "resolve",
         UNCHANGED kept
  PROVE  Kept'
<1> DEFINE f == Top(t)
           g == [f EXCEPT !.asked = TRUE]
           n == Len(stack[t])
<1>0. Types /\ Sound /\ Cheating /\ PathKept
  BY DEF Kept
<1>1. /\ n \in Nat \ {0} /\ DOMAIN stack[t] = 1 .. n
      /\ f = stack[t][n] /\ f \in Frames /\ f.left # <<>> /\ Plan(f)
  BY <1>0, TopFacts
<1>2. /\ g \in Frames /\ g.fn = f.fn /\ g.who = f.who /\ g.left = f.left
      /\ g.stream = f.stream /\ g.shut = f.shut /\ g.over = f.over
  BY <1>1 DEF Frames
<1>3. found' = found /\ temporary' = temporary /\ call_count' = call_count /\ fname' = fname
  BY DEF kept
<1>4. stack' = [stack EXCEPT ![t] = Front(@) \o <<g, h>>]
  BY DEF Nested
<1> HIDE DEF g
<1>5. stack' \in [Threads -> Seq(Frames)] /\ Others(t) /\ Pushed(t, g, h)
  BY <1>0, <1>2, <1>4, PushFacts DEF Types
<1>6. Types'
  BY <1>0, <1>3, <1>5 DEF Types
<1>7. /\ Len(stack'[t]) = n + 1 /\ DOMAIN stack'[t] = 1 .. n + 1
      /\ stack'[t][n] = g /\ stack'[t][n + 1] = h
      /\ \A k \in 1 .. n : k < n => stack'[t][k] = stack[t][k]
  BY <1>1, <1>5, LenProperties DEF Pushed, Lower
<1>8. Plan(g)
  BY <1>1, <1>2 DEF Plan
<1>9. Looked => Looked'
  BY <1>3 DEF Looked
<1>10. Sound'
  <2>1. OthersKin(t)
    BY <1>5, OthersAreKin
  <2>2. g.fn = "calloc" /\ g.left[1] = "resolve" => ~Looked \/ f.left[1] = "resolve"
    BY <1>2
  <2>3. g.left # <<>>
    BY <1>1, <1>2
  <2> QED BY <1>0, <1>2, <1>5, <1>6, <1>8, <1>9, <2>1, <2>2, <2>3, PushedSound
<1>11. \A k \in 1 .. n : /\ stack'[t][k].fn = stack[t][k].fn
                         /\ stack'[t][k].who = stack[t][k].who
                         /\ stack'[t][k].left = stack[t][k].left
                         /\ stack'[t][k].stream = stack[t][k].stream
                         /\ stack'[t][k].over = stack[t][k].over
  <2>1. \A k \in 1 .. n : k < n \/ k = n
    BY <1>1
  <2> QED BY <1>1, <1>2, <1>7, <2>1
<1>12. \A k \in DOMAIN stack'[t] : k \in 1 .. n \/ k = n + 1
  BY <1>1, <1>7
<1>13. Cheating'
  <2>1. CASE "calloc" \in found
    BY <1>0, <1>3, <2>1 DEF Cheating
  <2>2. CASE "calloc" \notin found
    <3>1. t = 1 /\ \A u \in Threads \ {1} : stack[u] = <<>>
      BY <1>0, <2>2 DEF Cheating
    <3>2. \A u \in Threads \ {1} : stack'[u] = <<>>
      BY <1>5, <3>1 DEF Others
    <3>3. h.fn = "calloc" => h.who = "dlsym" /\ h.left[1] = "check"
      BY DEF MayCall
    <3>4. CASE temporary
      <4>1. \A k \in 1 .. n : stack[t][k].fn = "calloc" => stack[t][k].left[1] = "resolve"
        <5>1. \A k \in 1 .. n : stack[t][k].fn = "calloc" =>
                stack[t][k].left[1] = "resolve" \/ k = n
          BY <1>0, <1>1, <2>2, <3>1, <3>4 DEF Cheating
        <5> QED BY <1>1, <5>1
      <4>2. \E k \in 1 .. n : stack[t][k].fn = "calloc" /\ stack[t][k].left[1] = "resolve"
        BY <1>0, <1>1, <3>1, <3>4 DEF Cheating
      <4>3. \E k \in DOMAIN stack'[1] : stack'[1][k].fn = "calloc"
                                        /\ stack'[1][k].left[1] = "resolve"
        <5>1. \A k \in 1 .. n : k \in DOMAIN stack'[1]
          BY <1>1, <1>7, <3>1
        <5> QED BY <1>11, <3>1, <4>2, <5>1
      <4>4. \A k \in DOMAIN stack'[1] : stack'[1][k].fn = "calloc" =>
              \/ stack'[1][k].left[1] = "resolve"
              \/ k = Len(stack'[1]) /\ stack'[1][k].who = "dlsym"
        BY <1>7, <1>11, <1>12, <3>1, <3>3, <4>1
      <4> QED BY <1>3, <2>2, <3>2, <3>4, <4>3, <4>4 DEF Cheating
    <3>5. CASE ~temporary
      <4>1. \A k \in 1 .. n : stack[t][k].fn # "calloc"
        <5> SUFFICES ASSUME NEW k \in 1 .. n, stack[t][k].fn = "calloc" PROVE FALSE
          OBVIOUS
        <5>1. k = n /\ stack[t][k].left[1] = "check"
          BY <1>0, <1>1, <2>2, <3>1, <3>5 DEF Cheating
        <5> QED BY <1>1, <5>1
      <4>2. \A k \in DOMAIN stack'[1] : stack'[1][k].fn = "calloc" =>
              k = Len(stack'[1]) /\ stack'[1][k].left[1] = "check"
        BY <1>7, <1>11, <1>12, <3>1, <3>3, <4>1
      <4> QED BY <1>3, <2>2, <3>2, <3>5, <4>2 DEF Cheating
    <3> QED BY <1>0, <3>4, <3>5 DEF Types
  <2> QED BY <2>1, <2>2
<1>14. PathKept'
  <2>1. \A k \in 1 .. n : stack[t][k].fn \in PathFns =>
          /\ \A j \in 1 .. k - 1 : stack[t][j].fn \notin PathFns
          /\ ~stack[t][k].over /\ (\A i \in DOMAIN stack[t][k].left : stack[t][k].left[i] # "path")
               => fname = stack[t][k].stream
    BY <1>0, <1>1 DEF PathKept
  <2>2. ASSUME NEW k \in DOMAIN stack'[t], stack'[t][k].fn \in PathFns
        PROVE  /\ \A j \in 1 .. k - 1 : stack'[t][j].fn \notin PathFns
               /\ ~stack'[t][k].over
                  /\ (\A i \in DOMAIN stack'[t][k].left : stack'[t][k].left[i] # "path")
                    => fname' = stack'[t][k].stream
    <3>1. k \in 1 .. n
      BY <1>7, <1>12, <2>2
    <3>2. \A j \in 1 .. k - 1 : j \in 1 .. n
      BY <1>1, <3>1
    <3> QED BY <1>3, <1>11, <2>1, <2>2, <3>1, <3>2
  <2> QED BY <1>0, <1>3, <1>5, <2>2 DEF PathKept, Others
<1> QED BY <1>6, <1>10, <1>13, <1>14 DEF Kept

LEMMA DlsymAllocatesKeeps ==
  ASSUME Kept, NEW t \in Threads, DlsymAllocates(t)
  PROVE  Kept'
<1> DEFINE h == Frame("calloc", "dlsym", Stages("calloc"), "none")
           f == Top(t)
           n == Len(stack[t])
<1>0. Types /\ Sound /\ Cheating /\ PathKept
  BY DEF Kept
<1>1. /\ stack[t] # <<>> /\ f \in Frames /\ f.left # <<>> /\ Plan(f)
      /\ Head(Left(f)) \in {"resolve", "readlink"}
  BY AtFacts DEF DlsymAllocates
<1>2. /\ n \in Nat \ {0} /\ f = stack[t][n] /\ n \in DOMAIN stack[t]
      /\ Callers(f) /\ Nesting(t, n)
  BY <1>0, <1>1, TopFacts
<1>3. Nested(t, h) /\ UNCHANGED kept
  BY DEF DlsymAllocates
<1>4. /\ h \in Frames /\ h.fn = "calloc" /\ h.who = "dlsym"
      /\ h.left # <<>> /\ Plan(h) /\ h.left[1] = "check"
  <2>1. "calloc" \in Wrappers /\ "none" \in Names
    BY FnFacts DEF Names
  <2>2. /\ h.left \in Seq(AllStages) /\ h.left # <<>> /\ Plan(h) /\ h.left[1] = "check"
    BY <2>1, PlanOfNew
  <2>3. h.left = Stages("calloc")
    BY DEF Frame
  <2>4. Stages("calloc") \in Seq(AllStages)
    BY <2>2, <2>3
  <2>5. h \in Frames /\ h.fn = "calloc" /\ h.who = "dlsym"
    BY <2>1, <2>4 DEF Frame, Frames
  <2> QED BY <2>2, <2>5
<1>5. f.fn = "calloc" => f.left[1] = "resolve"
  <2>1. f.fn = "calloc" => f.fn \notin PathFns
    BY FnFacts
  <2> QED BY <1>1, <2>1, StageFacts
<1>6. f.fn = "calloc" => Looked
  <2>1. f.fn = "calloc" /\ "calloc" \notin found => temporary
    <3> SUFFICES ASSUME f.fn = "calloc", "calloc" \notin found, ~temporary PROVE FALSE
      OBVIOUS
    <3>1. t = 1
      BY <1>0, <1>1 DEF Cheating
    <3>2. f.left[1] = "check"
      BY <1>0, <1>2, <3>1 DEF Cheating
    <3> QED BY <1>5, <3>2
  <2> QED BY <2>1 DEF Looked
<1>7. n <= IF f.fn = "calloc" THEN 4 ELSE 3
  <2> DEFINE b == stack[t][n - 1].fn
  <2>1. /\ f.who \in {"program", "monitor"} => n <= 2
        /\ f.who = "libc" => n <= 3
        /\ f.who = "dlsym" => n <= IF b = "calloc" THEN 5 ELSE 4
        /\ n > 1 /\ f.fn = "calloc" /\ b = "calloc" => f.left[1] # "resolve"
        /\ f.who = "dlsym" => n > 1 /\ f.fn = "calloc"
    BY <1>2 DEF Nesting, Callers
  <2>2. f.who \in {"program", "monitor", "libc", "dlsym"}
    BY <1>1 DEF Frames
  <2> HIDE DEF b, f, n
  <2> QED BY <1>2, <1>5, <2>1, <2>2
<1>8. MayCall(f, n, h)
  <2>1. h.fn \notin Ends /\ Callers(h)
    BY <1>4, FnFacts DEF Callers
  <2> HIDE DEF h, f, n
  <2> QED BY <1>4, <1>6, <1>7, <2>1 DEF MayCall
<1>9. h.fn \notin PathFns /\ Head(Left(f)) # "check"
  BY <1>1, <1>4, FnFacts
<1> HIDE DEF h
<1> QED BY <1>1, <1>3, <1>4, <1>5, <1>8, <1>9, NestedKeeps

LEMMA InsideKeeps ==
  ASSUME Kept, NEW t \in Threads, Inside(t)
  PROVE  Kept'
<1> DEFINE f == Top(t)
           n == Len(stack[t])
<1>0. Types /\ Sound /\ Cheating /\ PathKept
  BY DEF Kept
<1>1. /\ stack[t] # <<>> /\ f \in Frames /\ f.left # <<>> /\ Plan(f)
      /\ Head(Left(f)) \in {"real"}
  BY AtFacts DEF Inside
<1>2. n \in Nat \ {0} /\ Callers(f) /\ Nesting(t, n) /\ f = stack[t][n]
  BY <1>0, <1>1, TopFacts
<1>3. f.fn \in Allocating /\ UNCHANGED kept
  BY DEF Inside
<1>4. PICK fn \in {"malloc", "free"} : Nested(t, Frame(fn, "libc", Stages(fn), "none"))
  BY DEF Inside
<1> DEFINE h == Frame(fn, "libc", Stages(fn), "none")
<1>5. fn \in Wrappers /\ fn \notin Ends /\ fn \notin PathFns /\ fn # "calloc"
      /\ "none" \in Names
  BY FnFacts DEF Names
<1>6. /\ h \in Frames /\ h.fn = fn /\ h.who = "libc" /\ h.left # <<>> /\ Plan(h)
  <2>1. h.left \in Seq(AllStages) /\ h.left # <<>> /\ Plan(h)
    BY <1>5, PlanOfNew
  <2>2. h.left = Stages(fn)
    BY DEF Frame
  <2>3. Stages(fn) \in Seq(AllStages)
    BY <2>1, <2>2
  <2>4. h \in Frames /\ h.fn = fn /\ h.who = "libc"
    BY <1>5, <2>3 DEF Frame, Frames
  <2> QED BY <2>1, <2>4
<1>7. n <= 2
  <2>1. f.fn \notin {"malloc", "free", "exit", "calloc"}
    BY <1>3, FnFacts
  <2>2. f.who \in {"program", "monitor"}
    BY <1>1, <1>2, <2>1 DEF Frames, Callers
  <2> QED BY <1>2, <2>2 DEF Nesting
<1>8. MayCall(f, n, h)
  <2>1. Callers(h)
    BY <1>6 DEF Callers
  <2> HIDE DEF h, f, n
  <2> QED BY <1>5, <1>6, <1>7, <2>1 DEF MayCall
<1>9. f.fn # "calloc" /\ Head(Left(f)) # "check"
  BY <1>1, <1>3, FnFacts
<1> HIDE DEF h
<1>10. Nested(t, h)
  BY <1>4 DEF h
<1> QED BY <1>1, <1>3, <1>5, <1>6, <1>8, <1>9, <1>10, NestedKeeps

\* exit goes on to its end, and before that closes the output.
LEMMA FinalizeKeeps ==
  ASSUME Kept, NEW t \in Threads, Finalize(t)
  PROVE  Kept'
<1> DEFINE f == Top(t)
           g == Done(f)
           h == Frame("fclose", "monitor", Stages("fclose"), "output")
           top == Append(Front(stack[t]), g)
           more == IF env = "file" THEN <<h>> ELSE <<>>
           n == top \o more
<1>0. Types /\ Sound /\ Cheating /\ PathKept
  BY DEF Kept
<1>1. /\ stack[t] # <<>> /\ f \in Frames /\ f.left # <<>> /\ Plan(f)
      /\ Head(Left(f)) = "finalize"
  BY AtFacts DEF Finalize
<1>2. f.fn = "exit" /\ f.fn \in Ends
  BY <1>1, StageFacts DEF Ends
<1>3. Len(stack[t]) = 1 /\ f = stack[t][1] /\ DOMAIN stack[t] = {1}
  <2>1. /\ Len(stack[t]) \in Nat \ {0} /\ DOMAIN stack[t] = 1 .. Len(stack[t])
        /\ f = stack[t][Len(stack[t])] /\ Nesting(t, Len(stack[t]))
    BY <1>0, <1>1, TopFacts
  <2>2. Len(stack[t]) = 1
    BY <1>2, <2>1 DEF Nesting
  <2> QED BY <2>1, <2>2
<1>4. g \in Frames /\ GoesOn(g, f, "finalize")
  BY <1>1, DoneGoesOn
<1>5. g.fn = "exit" /\ g.who = f.who /\ Plan(g) /\ g.left # <<>>
  BY <1>1, <1>2, <1>4, GoesOnFacts DEF GoesOn
<1>6. /\ h \in Frames /\ h.fn = "fclose" /\ h.who = "monitor" /\ h.left # <<>> /\ Plan(h)
      /\ \E i \in DOMAIN h.left : h.left[i] = "path"
  <2>1. "fclose" \in Wrappers /\ "output" \in Names /\ "fclose" \in PathFns
    BY FnFacts DEF Names, PathFns, PathFirst
  <2>2. /\ h.left \in Seq(AllStages) /\ h.left # <<>> /\ Plan(h)
        /\ \E i \in DOMAIN h.left : h.left[i] = "path"
    BY <2>1, PlanOfNew
  <2>3. h.left = Stages("fclose")
    BY DEF Frame
  <2>4. Stages("fclose") \in Seq(AllStages)
    BY <2>2, <2>3
  <2>5. h \in Frames /\ h.fn = "fclose" /\ h.who = "monitor"
    BY <2>1, <2>4 DEF Frame, Frames
  <2> QED BY <2>2, <2>5
<1>7. /\ stack' = [stack EXCEPT ![t] = n] /\ found' = found /\ temporary' = temporary
      /\ call_count' = call_count /\ fname' = fname
  BY DEF Finalize, kept
<1>8. /\ top \in Seq(Frames) /\ Len(top) = 1 /\ top[1] = g
  <2>1. stack[t] \in Seq(Frames)
    BY <1>0 DEF Types
  <2>2. /\ top \in Seq(Frames) /\ Len(top) = Len(stack[t]) /\ top[Len(stack[t])] = g
    BY <1>1, <1>4, <2>1, AppendFacts
  <2> HIDE DEF top
  <2> QED BY <1>3, <2>2
<1>9. /\ more \in Seq(Frames) /\ Len(more) \in {0, 1} /\ (Len(more) = 1 => more[1] = h)
  BY <1>6
<1> HIDE DEF top, more, g, h
<1>10. /\ n \in Seq(Frames) /\ Len(n) \in {1, 2} /\ n[1] = g /\ (Len(n) = 2 => n[2] = h)
  <2>1. /\ top \o more \in Seq(Frames) /\ Len(top \o more) = Len(top) + Len(more)
        /\ \A i \in 1 .. Len(top) + Len(more) :
             (top \o more)[i] = IF i <= Len(top) THEN top[i] ELSE more[i - Len(top)]
    BY <1>8, <1>9, ConcatProperties
  <2>2. Len(top) + Len(more) \in {1, 2}
    <3>1. \A a, b : a = 1 /\ b \in {0, 1} => a + b \in {1, 2}
      OBVIOUS
    <3> HIDE DEF n
    <3> QED BY <1>8, <1>9, <3>1
  <2> HIDE DEF n
  <2>3. n = top \o more
    BY DEF n
  <2>4. n[1] = g
    <3>1. 1 \in 1 .. Len(top) + Len(more) /\ 1 <= Len(top)
      BY <1>8, <2>2
    <3> QED BY <1>8, <2>1, <2>3, <3>1
  <2>5. Len(n) = 2 => n[2] = h
    <3>1. SUFFICES ASSUME Len(n) = 2 PROVE n[2] = h
      OBVIOUS
    <3>2. Len(more) = 1 /\ 2 \in 1 .. Len(top) + Len(more) /\ ~(2 <= Len(top))
          /\ 2 - Len(top) = 1
      BY <1>8, <1>9, <2>1, <2>3, <3>1
    <3> QED BY <1>9, <2>1, <2>3, <3>2
  <2> QED BY <2>1, <2>2, <2>3, <2>4, <2>5
<1> HIDE DEF n
<1>11. stack' \in [Threads -> Seq(Frames)] /\ stack'[t] = n /\ Others(t)
  BY <1>0, <1>7, <1>10 DEF Types, Others
<1>12. Types'
  BY <1>0, <1>7, <1>11 DEF Types
<1>13. Looked => Looked'
  BY <1>7 DEF Looked
<1>14. OthersKin(t) /\ Lower(t)
  BY <1>3, <1>11, OthersAreKin DEF Lower
<1>15. DOMAIN n = 1 .. Len(n)
  BY <1>10, LenProperties
<1>16. Sound'
  <2>1. CASE Len(n) = 1
    <3>1. \A u \in Threads \ {t} : \A k \in DOMAIN stack'[u] : SoundAt(u, k)'
      BY <1>0, <1>12, <1>13, <1>14, RestSound
    <3>2. \A k : k = Len(stack[t]) => SoundAt(t, k)'
      <4>1. stack'[t][Len(stack[t])] = g /\ g.fn = f.fn /\ g.fn # "calloc"
        BY <1>2, <1>3, <1>5, <1>10, <1>11
      <4> QED BY <1>0, <1>1, <1>4, <1>5, <1>12, <1>13, <1>14, <4>1, TopSound
    <3>3. \A k \in DOMAIN stack'[t] : k = Len(stack[t])
      BY <1>3, <1>11, <1>15, <2>1
    <3> QED BY <3>1, <3>2, <3>3 DEF Sound
  <2>2. CASE Len(n) = 2
    <3>1. Pushed(t, g, h)
      BY <1>3, <1>10, <1>11, <1>14, <2>2 DEF Pushed
    <3>2. MayCall(f, Len(stack[t]), h)
      BY <1>3, <1>6, FnFacts DEF MayCall, Callers
    <3>3. g.fn = f.fn /\ g.fn # "calloc"
      BY <1>2, <1>5
    <3> QED BY <1>0, <1>1, <1>4, <1>5, <1>6, <1>12, <1>13, <1>14, <3>1, <3>2, <3>3,
                PushedSound
  <2> QED BY <1>10, <2>1, <2>2
<1>17. \A k \in DOMAIN stack'[t] :
         (stack'[t][k] = g /\ k = 1) \/ (stack'[t][k] = h /\ k = 2)
  <2>1. \A k \in DOMAIN n : k = 1 \/ (k = 2 /\ Len(n) = 2)
    BY <1>10, <1>15
  <2> QED BY <1>10, <1>11, <2>1
<1>18. Cheating'
  <2>1. CASE "calloc" \in found
    BY <1>0, <1>7, <2>1 DEF Cheating
  <2>2. CASE "calloc" \notin found
    <3>1. t = 1 /\ \A u \in Threads \ {1} : stack[u] = <<>>
      BY <1>0, <1>1, <2>2 DEF Cheating
    <3>2. ~temporary
      BY <1>0, <1>2, <1>3, <3>1 DEF Cheating
    <3>3. \A k \in DOMAIN stack'[1] : stack'[1][k].fn # "calloc"
      BY <1>5, <1>6, <1>17, <3>1
    <3>4. \A u \in Threads \ {1} : stack'[u] = <<>>
      BY <1>11, <3>1 DEF Others
    <3> QED BY <1>7, <2>2, <3>2, <3>3, <3>4 DEF Cheating
  <2> QED BY <2>1, <2>2
<1>19. PathKept'
  <2>1. ASSUME NEW k \in DOMAIN stack'[t], stack'[t][k].fn \in PathFns
        PROVE  /\ \A j \in 1 .. k - 1 : stack'[t][j].fn \notin PathFns
               /\ \E i \in DOMAIN stack'[t][k].left : stack'[t][k].left[i] = "path"
    <3>1. "exit" \notin PathFns
      BY FnFacts
    <3>2. k = 2 /\ stack'[t][k] = h
      BY <1>5, <1>17, <2>1, <3>1
    <3>3. \A j \in 1 .. k - 1 : j = 1
      BY <3>2
    <3> QED BY <1>5, <1>6, <1>10, <1>11, <3>1, <3>2, <3>3
  <2>2. \A u \in Threads \ {t} : stack'[u] = stack[u]
    BY <1>11 DEF Others
  <2> QED BY <1>0, <1>7, <2>1, <2>2 DEF PathKept
<1> QED BY <1>12, <1>16, <1>18, <1>19 DEF Kept

-----------------------------------------------------------------------------
(* The first call of a thread, and the end of all.                          *)

LEMMA EndKeeps ==
  ASSUME Kept, NEW t \in Threads, End(t)
  PROVE  Kept'
<1>0. Types /\ Sound /\ Cheating /\ PathKept
  BY DEF Kept
<1>1. /\ stack[t] # <<>> /\ Top(t) \in Frames /\ Top(t).left # <<>> /\ Plan(Top(t))
      /\ Head(Left(Top(t))) = "end"
  BY AtFacts DEF End
<1>2. Top(t).fn \in Ends
  BY <1>1, StageFacts
<1>3. DOMAIN stack[t] = {1} /\ Top(t) = stack[t][1]
  <2>1. /\ Len(stack[t]) \in Nat \ {0} /\ DOMAIN stack[t] = 1 .. Len(stack[t])
        /\ Top(t) = stack[t][Len(stack[t])] /\ Nesting(t, Len(stack[t]))
    BY <1>0, <1>1, TopFacts
  <2>2. Len(stack[t]) = 1
    BY <1>2, <2>1 DEF Nesting
  <2> QED BY <2>1, <2>2
<1>4. ~temporary
  <2>1. SUFFICES ASSUME temporary PROVE FALSE
    OBVIOUS
  <2>2. "calloc" \notin found
        /\ \E k \in DOMAIN stack[1] : stack[1][k].fn = "calloc"
    BY <1>0, <2>1 DEF Cheating
  <2>3. t = 1
    BY <1>0, <1>1, <2>2 DEF Cheating
  <2> QED BY <1>2, <1>3, <2>2, <2>3, FnFacts
<1>5. /\ stack' = [u \in Threads |-> <<>>] /\ found' = found /\ temporary' = temporary
      /\ call_count' = call_count /\ fname' = fname
  BY DEF End, kept
<1>6. \A u \in Threads : stack'[u] = <<>> /\ DOMAIN stack'[u] = {}
  <2>1. \A u \in Threads : stack'[u] = <<>> /\ DOMAIN stack'[u] = 1 .. 0
    BY <1>5
  <2> QED BY <2>1
<1>7. Types'
  BY <1>0, <1>5 DEF Types
<1>8. Sound' /\ PathKept'
  BY <1>6 DEF Sound, PathKept
<1>9. Cheating'
  BY <1>4, <1>5, <1>6, ThreadsAssumption DEF Cheating
<1> QED BY <1>7, <1>8, <1>9 DEF Kept

LEMMA BeginKeeps ==
  ASSUME Kept, NEW t \in Threads, stack[t] = <<>>, NEW h \in Frames, Begin(t, h),
         t # 1 => "calloc" \in found,
         h.left # <<>>, Plan(h), Callers(h), h.who # "dlsym",
         h.fn = "calloc" => h.left[1] = "check",
         h.fn \in PathFns => \E i \in DOMAIN h.left : h.left[i] = "path",
         UNCHANGED kept
  PROVE  Kept'
<1> DEFINE one == <<h>>
<1>0. Types /\ Sound /\ Cheating /\ PathKept
  BY DEF Kept
<1>1. /\ found' = found /\ temporary' = temporary /\ call_count' = call_count
      /\ fname' = fname
  BY DEF kept
<1>2. one \in Seq(Frames) /\ Len(one) = 1 /\ one[1] = h /\ DOMAIN one = {1}
  <2>1. one \in Seq(Frames) /\ Len(one) = 1 /\ one[1] = h /\ DOMAIN one = 1 .. 1
    OBVIOUS
  <2> QED BY <2>1
<1>3. stack' = [stack EXCEPT ![t] = one]
  BY DEF Begin
<1> HIDE DEF one
<1>4. stack' \in [Threads -> Seq(Frames)] /\ stack'[t] = one /\ Others(t)
  BY <1>0, <1>2, <1>3 DEF Types, Others
<1>5. Types'
  BY <1>0, <1>1, <1>4 DEF Types
<1>6. Looked => Looked'
  BY <1>1 DEF Looked
<1>7. OthersKin(t) /\ Lower(t)
  <2>1. DOMAIN stack[t] = 1 .. Len(stack[t]) /\ Len(stack[t]) = 0
    OBVIOUS
  <2> QED BY <1>4, <2>1, OthersAreKin DEF Lower
<1>8. Sound'
  <2>1. \A u \in Threads \ {t} : \A k \in DOMAIN stack'[u] : SoundAt(u, k)'
    BY <1>0, <1>5, <1>6, <1>7, RestSound
  <2>2. ASSUME NEW k, k = 1 PROVE SoundAt(t, k)'
    <3>1. stack'[t][k] = h /\ ~(k > 1)
      BY <1>2, <1>4, <2>2
    <3> QED BY <2>2, <3>1 DEF SoundAt, Nesting
  <2>3. \A k \in DOMAIN stack'[t] : k = 1
    BY <1>2, <1>4
  <2> QED BY <2>1, <2>2, <2>3 DEF Sound
<1>9. Cheating'
  <2>1. CASE "calloc" \in found
    BY <1>0, <1>1, <2>1 DEF Cheating
  <2>2. CASE "calloc" \notin found
    <3>1. t = 1 /\ \A u \in Threads \ {1} : stack[u] = <<>>
      BY <1>0, <2>2 DEF Cheating
    <3>2. ~temporary
      <4>1. DOMAIN stack[t] = {}
        <5>1. DOMAIN stack[t] = 1 .. 0
          OBVIOUS
        <5> QED BY <5>1
      <4> QED BY <1>0, <3>1, <4>1 DEF Cheating
    <3>3. \A k \in DOMAIN stack'[1] : stack'[1][k].fn = "calloc" =>
            k = Len(stack'[1]) /\ stack'[1][k].left[1] = "check"
      BY <1>2, <1>4, <3>1
    <3>4. \A u \in Threads \ {1} : stack'[u] = <<>>
      BY <1>4, <3>1 DEF Others
    <3> QED BY <1>1, <2>2, <3>2, <3>3, <3>4 DEF Cheating
  <2> QED BY <2>1, <2>2
<1>10. PathKept'
  <2>1. ASSUME NEW k \in DOMAIN stack'[t], stack'[t][k].fn \in PathFns
        PROVE  /\ \A j \in 1 .. k - 1 : stack'[t][j].fn \notin PathFns
               /\ \E i \in DOMAIN stack'[t][k].left : stack'[t][k].left[i] = "path"
    <3>1. k = 1 /\ stack'[t][k] = h
      BY <1>2, <1>4
    <3>2. \A j \in 1 .. k - 1 : FALSE
      BY <3>1
    <3> QED BY <2>1, <3>1, <3>2
  <2>2. \A u \in Threads \ {t} : stack'[u] = stack[u]
    BY <1>4 DEF Others
  <2> QED BY <1>0, <1>1, <2>1, <2>2 DEF PathKept
<1> QED BY <1>5, <1>8, <1>9, <1>10 DEF Kept

\* The calls of the constructor write no line.
LEMMA PlanOfConstructor ==
  ASSUME NEW fn \in Wrappers, fn \notin {"calloc"}, NEW who, NEW stream
  PROVE  LET h == Frame(fn, who, GET_ORIG_RET, stream)
         IN h.left \in Seq(AllStages) /\ h.left # <<>> /\ Plan(h)
<1> DEFINE h == Frame(fn, who, GET_ORIG_RET, stream)
<1>1. h.fn = fn /\ h.left = GET_ORIG_RET
  BY DEF Frame
<1> HIDE DEF h
<1>2. /\ GET_ORIG_RET \in Seq(AllStages) /\ GET_ORIG_RET # <<>>
      /\ DOMAIN GET_ORIG_RET = 1 .. 4 /\ Len(GET_ORIG_RET) = 4
  BY DEF GET_ORIG_RET, AllStages
<1>3. /\ GET_ORIG_RET[1] = "resolve" /\ GET_ORIG_RET[2] = "real"
      /\ GET_ORIG_RET[3] = "load" /\ GET_ORIG_RET[4] = "store"
  BY DEF GET_ORIG_RET
<1>4. Plan(h)
  BY <1>1, <1>2, <1>3 DEF Plan, Lookups
<1> QED BY <1>1, <1>2, <1>4 DEF h

LEMMA PlanOfReturn ==
  LET h == Frame("exit", "libc", <<"finalize", "end">>, "none")
  IN h.left \in Seq(AllStages) /\ h.left # <<>> /\ Plan(h)
<1> DEFINE h == Frame("exit", "libc", <<"finalize", "end">>, "none")
<1>1. h.fn = "exit" /\ h.left = <<"finalize", "end">>
  BY DEF Frame
<1> HIDE DEF h
<1>2. /\ h.left \in Seq(AllStages) /\ h.left # <<>> /\ DOMAIN h.left = 1 .. 2 /\ Len(h.left) = 2
      /\ h.left[1] = "finalize" /\ h.left[2] = "end"
  BY <1>1 DEF AllStages
<1>3. h.fn = "exit" /\ h.fn \in Ends
  BY <1>1 DEF Ends
<1>4. Plan(h)
  BY <1>2, <1>3 DEF Plan, Lookups
<1> QED BY <1>2, <1>4 DEF h

LEMMA EarlyCallKeeps ==
  ASSUME Kept, EarlyCall
  PROVE  Kept'
<1>1. PICK fn \in {"malloc", "calloc", "free"} :
        Begin(1, Frame(fn, "program", Stages(fn), "none"))
  BY DEF EarlyCall
<1>2. stack[1] = <<>> /\ UNCHANGED kept
  BY DEF EarlyCall
<1> DEFINE h == Frame(fn, "program", Stages(fn), "none")
<1>3. fn \in Wrappers /\ "none" \in Names
  BY FnFacts DEF Names
<1>4. /\ h.left \in Seq(AllStages) /\ h.left # <<>> /\ Plan(h)
      /\ fn = "calloc" => h.left[1] = "check"
      /\ fn \in PathFns => \E i \in DOMAIN h.left : h.left[i] = "path"
  BY <1>3, PlanOfNew
<1>5. h.left = Stages(fn)
  BY DEF Frame
<1>6. Stages(fn) \in Seq(AllStages)
  BY <1>4, <1>5
<1>7. h \in Frames /\ h.fn = fn /\ h.who = "program"
  BY <1>3, <1>6 DEF Frame, Frames
<1>8. 1 \in Threads
  BY ThreadsAssumption
<1> HIDE DEF h
<1>9. Begin(1, h) /\ Callers(h)
  BY <1>1, <1>7 DEF h, Callers
<1>10. \A t : t = 1 => (t # 1 => "calloc" \in found) /\ Begin(t, h) /\ stack[t] = <<>>
                       /\ t \in Threads
  BY <1>2, <1>8, <1>9
<1> QED BY <1>2, <1>4, <1>7, <1>9, <1>10, BeginKeeps

LEMMA CallKeeps ==
  ASSUME Kept, NEW t \in Threads, Call(t)
  PROVE  Kept'
<1>1. PICK fn \in Calls[t] : Begin(t, Frame(fn, "program", Stages(fn), Streams[t]))
  BY DEF Call
<1>2. stack[t] = <<>> /\ UNCHANGED kept /\ (t # 1 => "calloc" \in found)
  BY DEF Call
<1> DEFINE h == Frame(fn, "program", Stages(fn), Streams[t])
<1>3. fn \in Wrappers /\ Streams[t] \in Names
  BY <1>1, CallsAssumption DEF Names
<1>4. /\ h.left \in Seq(AllStages) /\ h.left # <<>> /\ Plan(h)
      /\ fn = "calloc" => h.left[1] = "check"
      /\ fn \in PathFns => \E i \in DOMAIN h.left : h.left[i] = "path"
  BY <1>3, PlanOfNew
<1>5. h.left = Stages(fn)
  BY DEF Frame
<1>6. Stages(fn) \in Seq(AllStages)
  BY <1>4, <1>5
<1>7. h \in Frames /\ h.fn = fn /\ h.who = "program"
  BY <1>3, <1>6 DEF Frame, Frames
<1> HIDE DEF h
<1>8. Begin(t, h) /\ Callers(h)
  BY <1>1, <1>7 DEF h, Callers
<1> QED BY <1>2, <1>4, <1>7, <1>8, BeginKeeps

\* A call that the constructor makes, or the library when main returns.
LEMMA OwnCallKeeps ==
  ASSUME Kept, stack[1] = <<>>, UNCHANGED kept, NEW h, Begin(1, h),
         \/ \E fn \in {"getenv", "fopen", "dup2"} :
              h = Frame(fn, "monitor", GET_ORIG_RET, "none")
         \/ h = Frame("exit", "libc", <<"finalize", "end">>, "none")
  PROVE  Kept'
<1>1. "none" \in Names /\ 1 \in Threads
  BY ThreadsAssumption DEF Names
<1>2. /\ h \in Frames /\ h.left # <<>> /\ Plan(h) /\ h.who # "dlsym" /\ Callers(h)
      /\ h.fn # "calloc" /\ h.fn \notin PathFns
  <2>1. ASSUME NEW fn \in {"getenv", "fopen", "dup2"},
               h = Frame(fn, "monitor", GET_ORIG_RET, "none")
        PROVE  /\ h \in Frames /\ h.left # <<>> /\ Plan(h) /\ h.who = "monitor"
               /\ h.fn # "calloc" /\ h.fn \notin PathFns
    <3>1. fn \in Wrappers /\ fn # "calloc" /\ fn \notin PathFns
      BY FnFacts
    <3>2. h.left \in Seq(AllStages) /\ h.left # <<>> /\ Plan(h)
      BY <2>1, <3>1, PlanOfConstructor
    <3>3. GET_ORIG_RET \in Seq(AllStages)
      BY DEF GET_ORIG_RET, AllStages
    <3>4. h \in Frames /\ h.fn = fn /\ h.who = "monitor"
      BY <1>1, <2>1, <3>1, <3>3 DEF Frame, Frames
    <3> QED BY <3>1, <3>2, <3>4
  <2>2. ASSUME h = Frame("exit", "libc", <<"finalize", "end">>, "none")
        PROVE  /\ h \in Frames /\ h.left # <<>> /\ Plan(h) /\ h.who = "libc"
               /\ h.fn = "exit" /\ h.fn \notin PathFns
    <3>1. h.left \in Seq(AllStages) /\ h.left # <<>> /\ Plan(h)
      BY <2>2, PlanOfReturn
    <3>2. h.left = <<"finalize", "end">>
      BY <2>2 DEF Frame
    <3>3. <<"finalize", "end">> \in Seq(AllStages)
      BY <3>1, <3>2
    <3>4. h \in Frames /\ h.fn = "exit" /\ h.who = "libc"
      <4>1. "exit" \in Wrappers
        BY FnFacts
      <4> QED BY <1>1, <2>2, <3>3, <4>1 DEF Frame, Frames
    <3> QED BY <3>1, <3>4, FnFacts
  <2> QED BY <2>1, <2>2 DEF Callers
<1>3. \A t : t = 1 => (t # 1 => "calloc" \in found) /\ Begin(t, h) /\ stack[t] = <<>>
                      /\ t \in Threads
  BY <1>1
<1> QED BY <1>2, <1>3, BeginKeeps

LEMMA UnchangedKeeps ==
  ASSUME Kept, UNCHANGED <<stack, kept>>
  PROVE  Kept'
BY DEF Kept, Types, Sound, SoundAt, Nesting, Cheating, PathKept, kept

LEMMA InitializetionKeeps ==
  ASSUME Kept, Initializetion
  PROVE  Kept'
<1>1. stack[1] = <<>> /\ UNCHANGED kept
  BY DEF Initializetion
<1>2. CASE \E fn \in {"getenv", "fopen", "dup2"} :
             Begin(1, Frame(fn, "monitor", GET_ORIG_RET, "none"))
  BY <1>1, <1>2, OwnCallKeeps
<1>3. CASE UNCHANGED stack
  BY <1>1, <1>3, UnchangedKeeps
<1> QED BY <1>2, <1>3 DEF Initializetion

LEMMA ReturnKeeps ==
  ASSUME Kept, Return
  PROVE  Kept'
BY OwnCallKeeps DEF Return

-----------------------------------------------------------------------------
(* The theorems.                                                            *)

MonitorInv == Kept /\ NamedRight /\ OnlyDlsymIsCheated

LEMMA MonitorInit == Init => MonitorInv
<1> SUFFICES ASSUME Init PROVE MonitorInv
  OBVIOUS
<1>1. \A t \in Threads : stack[t] = <<>> /\ DOMAIN stack[t] = {}
  <2>1. \A t \in Threads : stack[t] = <<>> /\ DOMAIN stack[t] = 1 .. 0
    BY DEF Init
  <2> QED BY <2>1
<1>2. Types
  <2>1. <<>> \in Seq(Frames)
    OBVIOUS
  <2>2. stack \in [Threads -> Seq(Frames)]
    BY <2>1 DEF Init
  <2> QED BY <2>2 DEF Init, Types
<1>3. Sound /\ PathKept
  BY <1>1 DEF Sound, PathKept
<1>4. Cheating
  BY <1>1, ThreadsAssumption DEF Init, Cheating
<1>5. NamedRight
  BY FnFacts DEF Init, NoLine, NamedRight
<1>6. OnlyDlsymIsCheated
  BY DEF Init, OnlyDlsymIsCheated
<1> QED BY <1>2, <1>3, <1>4, <1>5, <1>6 DEF MonitorInv, Kept

LEMMA MonitorNext == MonitorInv /\ [Next]_vars => MonitorInv'
<1> SUFFICES ASSUME MonitorInv, [Next]_vars PROVE MonitorInv'
  OBVIOUS
<1>0. Kept /\ NamedRight /\ OnlyDlsymIsCheated
  BY DEF MonitorInv
<1>1. ASSUME last' = NoLine PROVE NamedRight'
  BY <1>1, FnFacts DEF NoLine, NamedRight
<1>2. ASSUME cheated' = cheated PROVE OnlyDlsymIsCheated'
  BY <1>0, <1>2 DEF OnlyDlsymIsCheated
<1>3. ASSUME NEW t \in Threads, Log(t) PROVE MonitorInv'
  <2>1. cheated' = cheated
    BY <1>3 DEF Log
  <2> QED BY <1>0, <1>2, <1>3, <2>1, LogKeeps DEF MonitorInv
<1>4. ASSUME NEW t \in Threads, Thread(t), last' = NoLine PROVE MonitorInv'
  <2>1. CASE Check(t)
    BY <1>0, <1>1, <1>2, <1>4, <2>1, CheckKeeps DEF MonitorInv, Check
  <2>2. CASE Resolve(t)
    BY <1>0, <1>1, <1>2, <1>4, <2>2, ResolveKeeps DEF MonitorInv, Resolve
  <2>3. CASE DlsymAllocates(t)
    BY <1>0, <1>1, <1>2, <1>4, <2>3, DlsymAllocatesKeeps DEF MonitorInv, DlsymAllocates
  <2>4. CASE Inside(t)
    BY <1>0, <1>1, <1>2, <1>4, <2>4, InsideKeeps DEF MonitorInv, Inside
  <2>5. CASE Real(t)
    BY <1>0, <1>1, <1>4, <2>5, RealKeeps DEF MonitorInv
  <2>6. CASE Load(t)
    BY <1>0, <1>1, <1>2, <1>4, <2>6, LoadKeeps DEF MonitorInv, Load
  <2>7. CASE Store(t)
    BY <1>0, <1>1, <1>2, <1>4, <2>7, StoreKeeps DEF MonitorInv, Store
  <2>8. CASE Path(t)
    BY <1>0, <1>1, <1>2, <1>4, <2>8, PathKeeps DEF MonitorInv, Path
  <2>9. CASE Finalize(t)
    BY <1>0, <1>1, <1>2, <1>4, <2>9, FinalizeKeeps DEF MonitorInv, Finalize
  <2>10. CASE End(t)
    BY <1>0, <1>1, <1>2, <1>4, <2>10, EndKeeps DEF MonitorInv, End
  <2> QED BY <1>4, <2>1, <2>2, <2>3, <2>4, <2>5, <2>6, <2>7, <2>8, <2>9, <2>10 DEF Thread
<1>5. ASSUME NEW t \in Threads, Call(t), last' = NoLine PROVE MonitorInv'
  BY <1>0, <1>1, <1>2, <1>5, CallKeeps DEF MonitorInv, Call
<1>6. ASSUME EarlyCall, last' = NoLine PROVE MonitorInv'
  BY <1>0, <1>1, <1>2, <1>6, EarlyCallKeeps DEF MonitorInv, EarlyCall
<1>7. ASSUME Initializetion, last' = NoLine PROVE MonitorInv'
  BY <1>0, <1>1, <1>2, <1>7, InitializetionKeeps DEF MonitorInv, Initializetion
<1>8. ASSUME Return, last' = NoLine PROVE MonitorInv'
  BY <1>0, <1>1, <1>2, <1>8, ReturnKeeps DEF MonitorInv, Return
<1>9. CASE UNCHANGED vars
  <2>1. UNCHANGED <<stack, kept>> /\ last' = last /\ cheated' = cheated
    BY <1>9 DEF vars
  <2>2. NamedRight'
    BY <1>0, <2>1 DEF NamedRight
  <2> QED BY <1>0, <1>2, <2>1, <2>2, UnchangedKeeps DEF MonitorInv
<1> QED BY <1>3, <1>4, <1>5, <1>6, <1>7, <1>8, <1>9 DEF Next

\* dlsym's own calloc, and no other, gets the NULL of temporary_calloc
\* (inject.c:503), for any number of threads and whatever they call.
THEOREM OnlyDlsymGetsNull == Spec => []OnlyDlsymIsCheated
<1>1. MonitorInv => OnlyDlsymIsCheated
  BY DEF MonitorInv
<1> QED BY <1>1, MonitorInit, MonitorNext, PTL DEF Spec

\* Calls of wrappers within wrappers never nest deeper than five.
THEOREM CallsNestShallowly == Spec => []NoRunaway
<1>1. MonitorInv => NoRunaway
  <2> SUFFICES ASSUME MonitorInv, NEW t \in Threads PROVE Len(stack[t]) <= 5
    BY DEF NoRunaway
  <2>1. Types /\ Sound
    BY DEF MonitorInv, Kept
  <2>2. CASE stack[t] = <<>>
    BY <2>2
  <2>3. CASE stack[t] # <<>>
    <3> DEFINE n == Len(stack[t])
               b == stack[t][n - 1].fn
               f == Top(t)
    <3>1. n \in Nat \ {0} /\ f = stack[t][n] /\ f \in Frames /\ Nesting(t, n)
      BY <2>1, <2>3, TopFacts
    <3>2. /\ f.who \in {"program", "monitor"} => n <= 2
          /\ f.who = "libc" => n <= 3
          /\ f.who = "dlsym" => n <= IF b = "calloc" THEN 5 ELSE 4
      BY <3>1 DEF Nesting
    <3>3. f.who \in {"program", "monitor", "libc", "dlsym"}
      BY <3>1 DEF Frames
    <3> HIDE DEF n, b, f
    <3>4. n <= 5
      BY <3>1, <3>2, <3>3
    <3> QED BY <3>4 DEF n
  <2> QED BY <2>2, <2>3
<1> QED BY <1>1, MonitorInit, MonitorNext, PTL DEF Spec

\* A line about a stream names the stream of its own call, unless another
\* thread has looked a path up in between.
THEOREM LinesNameTheirStream == Spec => []PathIsCallers
<1>1. MonitorInv => PathIsCallers
  BY DEF MonitorInv, NamedRight, PathIsCallers, PathFns
<1> QED BY <1>1, MonitorInit, MonitorNext, PTL DEF Spec

-----------------------------------------------------------------------------
(* Before descriptor 2 is the file: only the first thread runs, and only    *)
(* allocator calls write lines.  How many of them there can be is counted.  *)

\* What is left of the calls there are then.
Forms(fn) ==
  CASE fn = "malloc" ->
         {<<"resolve", "real", "log", "load", "store">>, <<"real", "log", "load", "store">>,
          <<"log", "load", "store">>, <<"load", "store">>, <<"store">>}
    [] fn = "calloc" ->
         {<<"check", "real", "log", "load", "store">>,
          <<"resolve", "real", "log", "load", "store">>, <<"real", "log", "load", "store">>,
          <<"log", "load", "store">>, <<"load", "store">>, <<"store">>}
    [] fn = "free" ->
         {<<"resolve", "real", "load", "store", "log">>, <<"real", "load", "store", "log">>,
          <<"load", "store", "log">>, <<"store", "log">>, <<"log">>}
    [] OTHER ->
         {<<"resolve", "real", "load", "store">>, <<"real", "load", "store">>,
          <<"load", "store">>, <<"store">>}

\* r is what is left of f after the stage that is next.
Passed(f, stage, r) ==
  /\ stage \in {"check", "resolve", "real", "log", "load", "store"}
  /\ stage # "check" => r = <<>> \/ r \in Forms(f.fn)
  /\ stage \in {"resolve", "log", "load", "store"} => f.left[1] = stage
  /\ stage = "resolve" => r # <<>> /\ r[1] = "real"
  /\ stage = "real" => /\ r # <<>> /\ r[1] \in {"log", "load"} /\ r # <<"log">>
                       /\ f.left[1] \in {"check", "resolve", "real"}
  /\ stage = "log" => /\ f.fn \in {"malloc", "calloc", "free"}
                      /\ f.left = <<"log">> <=> r = <<>>
                      /\ r # <<>> => r[1] = "load" /\ r # <<"log">>
                      /\ f.left = <<"log">> <=> f.fn = "free"
  /\ stage = "load" => r # <<>> /\ r[1] = "store" /\ r # <<"log">>
  /\ r # <<>> /\ r[1] = "store" => stage = "load"
  /\ stage = "store" => r = <<>> \/ r = <<"log">>

LEMMA FormPassed ==
  ASSUME NEW f, f.left \in Forms(f.fn)
  PROVE  Passed(f, Head(Left(f)), Tail(Left(f)))
<1>1. CASE f.fn = "malloc"
  <2>1. CASE f.left = <<"resolve", "real", "log", "load", "store">>
    BY <1>1, <2>1 DEF Forms, Passed, Left, Due
  <2>2. CASE f.left = <<"real", "log", "load", "store">>
    BY <1>1, <2>2 DEF Forms, Passed, Left, Due
  <2>3. CASE f.left = <<"log", "load", "store">>
    BY <1>1, <2>3 DEF Forms, Passed, Left, Due
  <2>4. CASE f.left = <<"load", "store">>
    BY <1>1, <2>4 DEF Forms, Passed, Left, Due
  <2>5. CASE f.left = <<"store">>
    BY <1>1, <2>5 DEF Forms, Passed, Left, Due
  <2> QED BY <1>1, <2>1, <2>2, <2>3, <2>4, <2>5 DEF Forms
<1>2. CASE f.fn = "calloc"
  <2>1. CASE f.left = <<"check", "real", "log", "load", "store">>
    BY <1>2, <2>1 DEF Forms, Passed, Left, Due
  <2>2. CASE f.left = <<"resolve", "real", "log", "load", "store">>
    BY <1>2, <2>2 DEF Forms, Passed, Left, Due
  <2>3. CASE f.left = <<"real", "log", "load", "store">>
    BY <1>2, <2>3 DEF Forms, Passed, Left, Due
  <2>4. CASE f.left = <<"log", "load", "store">>
    BY <1>2, <2>4 DEF Forms, Passed, Left, Due
  <2>5. CASE f.left = <<"load", "store">>
    BY <1>2, <2>5 DEF Forms, Passed, Left, Due
  <2>6. CASE f.left = <<"store">>
    BY <1>2, <2>6 DEF Forms, Passed, Left, Due
  <2> QED BY <1>2, <2>1, <2>2, <2>3, <2>4, <2>5, <2>6 DEF Forms
<1>3. CASE f.fn = "free"
  <2>1. CASE f.left = <<"resolve", "real", "load", "store", "log">>
    BY <1>3, <2>1 DEF Forms, Passed, Left, Due
  <2>2. CASE f.left = <<"real", "load", "store", "log">>
    BY <1>3, <2>2 DEF Forms, Passed, Left, Due
  <2>3. CASE f.left = <<"load", "store", "log">>
    BY <1>3, <2>3 DEF Forms, Passed, Left, Due
  <2>4. CASE f.left = <<"store", "log">>
    BY <1>3, <2>4 DEF Forms, Passed, Left, Due
  <2>5. CASE f.left = <<"log">>
    BY <1>3, <2>5 DEF Forms, Passed, Left, Due
  <2> QED BY <1>3, <2>1, <2>2, <2>3, <2>4, <2>5 DEF Forms
<1>4. CASE f.fn \notin {"malloc", "calloc", "free"}
  <2>1. CASE f.left = <<"resolve", "real", "load", "store">>
    BY <1>4, <2>1 DEF Forms, Passed, Left, Due
  <2>2. CASE f.left = <<"real", "load", "store">>
    BY <1>4, <2>2 DEF Forms, Passed, Left, Due
  <2>3. CASE f.left = <<"load", "store">>
    BY <1>4, <2>3 DEF Forms, Passed, Left, Due
  <2>4. CASE f.left = <<"store">>
    BY <1>4, <2>4 DEF Forms, Passed, Left, Due
  <2> QED BY <1>4, <2>1, <2>2, <2>3, <2>4 DEF Forms
<1> QED BY <1>1, <1>2, <1>3, <1>4

Boots == {"early", "getenv", "fopen", "dup2"}
Starting == env = "file" /\ stderr = "terminal"

\* The call has not reached its original.
Calling(f) == f.left[1] \in {"check", "resolve", "real"}

\* The calls on the stack of the only thread there is: one of the program or
\* of the constructor, what fopen allocates, and dlsym's callocs.
FrameInv(k) ==
  LET f == stack[1][k] IN
  /\ f.left \in Forms(f.fn)
  /\ k < Len(stack[1]) => f.left[1] \in {"resolve", "real"}
  /\ IF k = 1
     THEN IF boot = "early" THEN f.who = "program" /\ f.fn \in {"malloc", "calloc", "free"}
          ELSE f.who = "monitor" /\ f.fn = boot
     ELSE \/ f.who = "dlsym" /\ f.fn = "calloc"
          \/ f.who = "libc" /\ f.fn \in {"malloc", "free"} /\ k = 2 /\ boot = "fopen"
  /\ f.left[1] = "store" => f.n = call_count
  /\ f.fn = "calloc" /\ f.asked => f.left[1] = "resolve"
  /\ f.who = "dlsym" /\ stack[1][k - 1].fn # "calloc" /\ ~Calling(f) => 1 \in buffer

\* Calls on a stack that have not been counted: all but a free() about to
\* write its line.
Uncounted(s) ==
  IF s = <<>> THEN 0
  ELSE IF s[Len(s)].left = <<"log">> THEN Len(s) - 1 ELSE Len(s)

\* The calls still to come: of the other libraries and of the constructor,
\* one inside fopen, one of dlsym for its buffer, one of dlsym while calloc
\* is looked up.
OfLoader == CASE boot = "early"  -> Early - calls[1] + 3
              [] boot = "getenv" -> 2
              [] boot = "fopen"  -> 1
              [] OTHER -> 0
InFopen == \/ boot \in {"early", "getenv"}
           \/ /\ boot = "fopen" /\ stack[1] # <<>> /\ Calling(stack[1][1])
              /\ stack[1][1].asked => stack[1][1].left[1] # "real" /\ "fopen" \notin found
ForBuffer == /\ 1 \notin buffer
             /\ \A k \in DOMAIN stack[1] :
                  stack[1][k].who = "dlsym" => stack[1][k - 1].fn = "calloc"
ForLookup == /\ "calloc" \notin found
             /\ \A k \in DOMAIN stack[1] : stack[1][k].fn = "calloc" => ~stack[1][k].asked
One(b) == IF b THEN 1 ELSE 0
ToCome == OfLoader + One(InFopen) + One(ForBuffer) + One(ForLookup)

StartInv ==
  /\ boot \in Boots
  /\ \A t \in Threads \ {1} : stack[t] = <<>>
  /\ calls \in [Threads -> Nat] /\ calls[1] <= Early
  /\ \A k \in DOMAIN stack[1] : FrameInv(k)
  /\ boot = "dup2" => stack[1] # <<>> /\ Calling(stack[1][1])
  /\ call_count + Uncounted(stack[1]) + ToCome <= Early + 6

\* What FrameInv and the types say of the call on top.
LEMMA TopStart ==
  ASSUME Kept, StartInv, stack[1] # <<>>
  PROVE  LET n == Len(stack[1])
             f == Top(1)
         IN /\ n \in Nat \ {0} /\ DOMAIN stack[1] = 1 .. n /\ f = stack[1][n]
            /\ FrameInv(n) /\ f \in Frames
            /\ Passed(f, Head(Left(f)), Tail(Left(f)))
            /\ f.fn = "calloc" /\ f.left[1] = "resolve" /\ "calloc" \notin found
                 => Head(Left(f)) = "resolve"
            /\ f.fn = "fopen" /\ Head(Left(f)) = "resolve" => "fopen" \notin found
<1> DEFINE n == Len(stack[1])
           f == Top(1)
<1>1. 1 \in Threads /\ Types /\ Sound
  BY ThreadsAssumption DEF Kept
<1>2. /\ n \in Nat \ {0} /\ DOMAIN stack[1] = 1 .. n /\ f = stack[1][n]
      /\ f \in Frames /\ f.left # <<>> /\ Plan(f)
  BY <1>1, TopFacts
<1>3. FrameInv(n)
  BY <1>2 DEF StartInv
<1>4. f.left \in Forms(f.fn)
  BY <1>2, <1>3 DEF FrameInv
<1>5. Passed(f, Head(Left(f)), Tail(Left(f)))
  BY <1>4, FormPassed
<1>6. f.fn = "calloc" /\ f.left[1] = "resolve" /\ "calloc" \notin found
        => Head(Left(f)) = "resolve"
  BY <1>2, StageFacts
<1>7. f.fn = "fopen" /\ Head(Left(f)) = "resolve" => "fopen" \notin found
  <2> SUFFICES ASSUME f.fn = "fopen", Head(Left(f)) = "resolve", "fopen" \in found
               PROVE  FALSE
    OBVIOUS
  <2>1. f.left = <<"resolve", "real", "load", "store">>
    <3>1. f.left[1] = "resolve"
      BY <1>5 DEF Passed
    <3>2. f.left \in {<<"resolve", "real", "load", "store">>, <<"real", "load", "store">>,
                      <<"load", "store">>, <<"store">>}
      BY <1>4 DEF Forms
    <3> HIDE DEF f
    <3> QED BY <3>1, <3>2
  <2>2. ~Due(f, "resolve")
    BY DEF Due, Original
  <2> HIDE DEF f
  <2> QED BY <2>1, <2>2 DEF Left
<1> QED BY <1>2, <1>3, <1>5, <1>6, <1>7

LEMMA StartNumbers ==
  ASSUME Kept, StartInv
  PROVE  /\ call_count \in Nat /\ Early \in Nat /\ calls[1] \in Nat
         /\ OfLoader \in Nat /\ ToCome \in Nat /\ Uncounted(stack[1]) \in Nat
<1>1. call_count \in Nat /\ Early \in Nat /\ 1 \in Threads
  BY SizeAssumption, ThreadsAssumption DEF Kept, Types
<1>2. calls[1] \in Nat /\ calls[1] <= Early
  BY <1>1 DEF StartInv
<1>3. OfLoader \in Nat
  BY <1>1, <1>2 DEF OfLoader
<1>4. ToCome \in Nat
  BY <1>3 DEF ToCome, One
<1>5. stack[1] # <<>> => Len(stack[1]) \in Nat \ {0}
  BY TopStart
<1> QED BY <1>1, <1>2, <1>3, <1>4, <1>5 DEF Uncounted

LEMMA UncountedIs ==
  ASSUME NEW s \in Seq(Frames)
  PROVE  /\ Len(s) \in Nat
         /\ Len(s) = 0 => s = <<>> /\ Uncounted(s) = 0
         /\ Len(s) # 0 => /\ s # <<>>
                          /\ Uncounted(s) = IF s[Len(s)].left = <<"log">>
                                            THEN Len(s) - 1 ELSE Len(s)
BY EmptySeq, LenProperties DEF Uncounted

\* A stage of the call on top is done: g is the rest of the call.
Finished(stage, g) ==
  LET n == Len(stack[1])
      f == Top(1)
  IN /\ stage = Head(Left(f)) /\ stage # "check"
     /\ g.fn = f.fn /\ g.who = f.who /\ g.left = Tail(Left(f)) /\ g.asked = FALSE
     /\ IF g.left = <<>> THEN Popped(1) ELSE Replaced(1, g)
     /\ Others(1) /\ UNCHANGED <<boot, calls>>
     /\ buffer \subseteq buffer' /\ found \subseteq found'
     /\ call_count' = IF stage = "store" THEN call_count + 1 ELSE call_count
     /\ stage = "load" => g.n = call_count
     /\ stage = "real" => /\ f.who = "dlsym" /\ stack[1][n - 1].fn # "calloc" => 1 \in buffer'
                          /\ ~(n = 1 /\ boot = "dup2")
     /\ stage = "resolve" /\ f.fn = "calloc" => "calloc" \in found'

LEMMA FinishedCount ==
  ASSUME Kept, Kept', StartInv, stack[1] # <<>>, NEW stage, NEW g, Finished(stage, g)
  PROVE  call_count' + Uncounted(stack'[1]) <= call_count + Uncounted(stack[1])
<1> DEFINE n == Len(stack[1])
           f == Top(1)
           s == stack'[1]
<1>1. /\ n \in Nat \ {0} /\ f = stack[1][n] /\ FrameInv(n) /\ DOMAIN stack[1] = 1 .. n
      /\ Passed(f, Head(Left(f)), Tail(Left(f)))
  BY TopStart
<1>2. stage = Head(Left(f)) /\ g.left = Tail(Left(f)) /\ stage # "check"
  BY DEF Finished
<1>3. Passed(f, stage, g.left)
  BY <1>1, <1>2
<1>4. 1 \in Threads /\ stack[1] \in Seq(Frames) /\ s \in Seq(Frames) /\ call_count \in Nat
  BY ThreadsAssumption DEF Kept, Types
<1>5. Uncounted(stack[1]) = IF f.left = <<"log">> THEN n - 1 ELSE n
  BY <1>1, <1>4, UncountedIs
<1>6. call_count' = IF stage = "store" THEN call_count + 1 ELSE call_count
  BY DEF Finished
<1>7. CASE g.left = <<>>
  <2>1. Popped(1) /\ stage \in {"log", "store"}
    BY <1>2, <1>3, <1>7 DEF Finished, Passed
  <2>2. Len(s) = n - 1 /\ Uncounted(s) <= n - 1
    <3>1. Len(s) = n - 1
      BY <2>1 DEF Popped
    <3>2. CASE n = 1
      BY <1>4, <3>1, <3>2, UncountedIs
    <3>3. CASE n > 1
      BY <1>1, <1>4, <3>1, <3>3, UncountedIs
    <3> HIDE DEF s, n
    <3> QED BY <1>1, <3>1, <3>2, <3>3
  <2>3. stage = "log" => f.left = <<"log">>
    BY <1>3, <1>7 DEF Passed
  <2>4. stage = "store" => f.left # <<"log">>
    <3>1. stage = "store" => f.left[1] = "store"
      BY <1>3 DEF Passed
    <3> QED BY <3>1
  <2>5. Uncounted(s) \in Int /\ n \in Int
    <3>1. Len(s) \in Int /\ n \in Int
      BY <1>1, <1>4
    <3> QED BY <1>4, <3>1, UncountedIs
  <2> DEFINE u == Uncounted(s)
             w == Uncounted(stack[1])
  <2>6. u \in Int /\ u <= n - 1 /\ w = IF f.left = <<"log">> THEN n - 1 ELSE n
    BY <1>5, <2>2, <2>5
  <2> HIDE DEF s, n, f, u, w
  <2>7. ASSUME stage = "log" PROVE call_count' + u <= call_count + w
    BY <1>4, <1>6, <2>3, <2>5, <2>6, <2>7
  <2>8. ASSUME stage = "store" PROVE call_count' + u <= call_count + w
    BY <1>4, <1>6, <2>4, <2>5, <2>6, <2>8
  <2> QED BY <2>1, <2>7, <2>8 DEF u, w, s
<1>8. CASE g.left # <<>>
  <2>1. Replaced(1, g)
    BY <1>8 DEF Finished
  <2>2. Uncounted(s) = IF g.left = <<"log">> THEN n - 1 ELSE n
    BY <1>1, <1>4, <2>1, UncountedIs DEF Replaced
  <2>3. stage = "store" => g.left = <<"log">> /\ f.left # <<"log">>
    <3>1. stage = "store" => f.left[1] = "store" /\ g.left = <<"log">>
      BY <1>3, <1>8 DEF Passed
    <3> QED BY <3>1
  <2>4. stage # "store" => g.left # <<"log">>
    <3>1. stage = "resolve" => g.left[1] = "real"
      BY <1>3 DEF Passed
    <3>2. stage \in {"real", "load", "log"} => g.left # <<"log">>
      BY <1>3, <1>8 DEF Passed
    <3>3. stage \in {"resolve", "real", "log", "load", "store"}
      BY <1>2, <1>3 DEF Passed
    <3> QED BY <3>1, <3>2, <3>3
  <2>8. f.left # <<"log">>
    <3>1. f.left[1] = "log" => stage = "log"
      BY <1>2, <1>3 DEF Passed
    <3>2. stage = "log" => f.left # <<"log">>
      BY <1>3, <1>8 DEF Passed
    <3>3. f.left = <<"log">> => f.left[1] = "log"
      OBVIOUS
    <3> QED BY <3>1, <3>2, <3>3
  <2> DEFINE u == Uncounted(s)
             w == Uncounted(stack[1])
  <2>5. /\ u = IF g.left = <<"log">> THEN n - 1 ELSE n
        /\ w = IF f.left = <<"log">> THEN n - 1 ELSE n
        /\ n \in Int
    BY <1>1, <1>5, <2>2
  <2> HIDE DEF s, n, f, u, w
  <2>6. ASSUME stage = "store" PROVE call_count' + u <= call_count + w
    BY <1>4, <1>6, <2>3, <2>5, <2>6
  <2>7. ASSUME stage # "store" PROVE call_count' + u <= call_count + w
    BY <1>4, <1>6, <2>4, <2>5, <2>7, <2>8
  <2> QED BY <2>6, <2>7 DEF u, w, s
<1> QED BY <1>7, <1>8

LEMMA FinishedFrames ==
  ASSUME Kept, Kept', StartInv, stack[1] # <<>>, NEW stage, NEW g, Finished(stage, g)
  PROVE  \A k \in DOMAIN stack'[1] : FrameInv(k)'
<1> DEFINE n == Len(stack[1])
           f == Top(1)
           s == stack'[1]
<1>1. /\ n \in Nat \ {0} /\ f = stack[1][n] /\ FrameInv(n) /\ DOMAIN stack[1] = 1 .. n
      /\ Passed(f, Head(Left(f)), Tail(Left(f)))
  BY TopStart
<1>n. n \in Nat \ {0}
  BY <1>1
<1>2. /\ stage = Head(Left(f)) /\ g.left = Tail(Left(f)) /\ stage # "check"
      /\ g.fn = f.fn /\ g.who = f.who /\ boot' = boot /\ buffer \subseteq buffer'
  BY DEF Finished
<1>3. Passed(f, stage, g.left)
  BY <1>1, <1>2
<1>4. 1 \in Threads /\ s \in Seq(Frames)
  BY ThreadsAssumption DEF Kept, Types
<1>5. DOMAIN s = 1 .. Len(s) /\ Len(s) \in Nat
  BY <1>4, LenProperties
<1>6. Lower(1) /\ Len(s) <= n /\ (Len(s) = n => g.left # <<>> /\ s[n] = g)
  BY <1>1, <1>5 DEF Finished, Popped, Replaced
<1>7. \A k \in 1 .. n : k < n => s[k] = stack[1][k]
  BY <1>1, <1>6 DEF Lower
<1>8. ASSUME NEW k \in DOMAIN s, k < n
      PROVE  FrameInv(k)'
  <2>1. FrameInv(k) /\ k \in 1 .. n
    BY <1>1, <1>5, <1>8 DEF StartInv
  <2>2. s[k] = stack[1][k] /\ (k # 1 => s[k - 1] = stack[1][k - 1])
    <3>1. n \in Nat /\ (k # 1 => k - 1 \in 1 .. n /\ k - 1 < n)
      BY <1>1, <1>8, <2>1
    <3> QED BY <1>7, <1>8, <2>1, <3>1
  <2>3. stack[1][k].left[1] \in {"resolve", "real"}
    BY <1>8, <2>1 DEF FrameInv
  <2>4. k = 1 => stack[1][k].who # "dlsym"
    BY <2>1 DEF FrameInv
  <2>5. k # Len(stack[1]) /\ k < Len(stack[1])
    BY <1>1, <1>8, <2>1
  <2>6. stack[1][k].left[1] # "store" /\ Calling(stack[1][k])
    BY <2>3 DEF Calling
  <2> QED BY <1>2, <2>1, <2>2, <2>3, <2>4, <2>5, <2>6 DEF FrameInv, Calling
<1>9. ASSUME NEW k \in DOMAIN s, k = n
      PROVE  FrameInv(k)'
  <2>1. s[n] = g /\ g.left # <<>> /\ Len(s) = n
    <3>1. Len(s) = n
      <4>1. n <= Len(s)
        BY <1>5, <1>9
      <4> QED BY <1>n, <1>5, <1>6, <4>1
    <3> QED BY <1>6, <3>1
  <2>2. n # 1 => s[n - 1] = stack[1][n - 1]
    <3>1. n # 1 => n - 1 \in 1 .. n /\ n - 1 < n
      <4> HIDE DEF n
      <4> QED BY <1>n
    <3> QED BY <1>7, <3>1
  <2>3. g.left \in Forms(g.fn)
    BY <1>2, <1>3, <2>1 DEF Passed
  <2>4. g.left[1] = "store" => g.n = call_count'
    <3>1. g.left[1] = "store" => stage = "load"
      BY <1>3, <2>1 DEF Passed
    <3> QED BY <3>1 DEF Finished
  <2>5. g.asked = FALSE
    BY DEF Finished
  <2>6. f.who = "dlsym" /\ stack[1][n - 1].fn # "calloc" /\ ~Calling(g) => 1 \in buffer'
    <3>1. ~Calling(g) => stage = "real" \/ ~Calling(f)
      <4>1. stage = "resolve" => g.left[1] = "real"
        BY <1>3 DEF Passed
      <4>2. stage \in {"log", "load", "store"} => f.left[1] = stage
        BY <1>3 DEF Passed
      <4>3. stage \in {"resolve", "real", "log", "load", "store"}
        BY <1>2, <1>3 DEF Passed
      <4> QED BY <4>1, <4>2, <4>3 DEF Calling
    <3>2. f.who = "dlsym" /\ stack[1][n - 1].fn # "calloc" /\ ~Calling(f) => 1 \in buffer
      BY <1>1 DEF FrameInv
    <3>3. stage = "real" /\ f.who = "dlsym" /\ stack[1][n - 1].fn # "calloc" => 1 \in buffer'
      BY DEF Finished
    <3> QED BY <1>2, <3>1, <3>2, <3>3
  <2>7. n = 1 => f.who # "dlsym"
    BY <1>1 DEF FrameInv
  <2>8. IF n = 1
        THEN IF boot = "early" THEN f.who = "program" /\ f.fn \in {"malloc", "calloc", "free"}
             ELSE f.who = "monitor" /\ f.fn = boot
        ELSE \/ f.who = "dlsym" /\ f.fn = "calloc"
             \/ f.who = "libc" /\ f.fn \in {"malloc", "free"} /\ n = 2 /\ boot = "fopen"
    BY <1>1 DEF FrameInv
  <2> DEFINE h == s[k]
             b == s[k - 1]
  <2>9. h = g /\ (k # 1 => b = stack[1][n - 1])
    BY <1>9, <2>1, <2>2
  <2> HIDE DEF f, n, h, b
  <2>10. /\ h.left \in Forms(h.fn)
         /\ h.left[1] = "store" => h.n = call_count'
         /\ h.asked = FALSE
         /\ IF k = 1
            THEN IF boot' = "early" THEN h.who = "program" /\ h.fn \in {"malloc", "calloc", "free"}
                 ELSE h.who = "monitor" /\ h.fn = boot'
            ELSE \/ h.who = "dlsym" /\ h.fn = "calloc"
                 \/ h.who = "libc" /\ h.fn \in {"malloc", "free"} /\ k = 2 /\ boot' = "fopen"
    BY <1>2, <1>9, <2>3, <2>4, <2>5, <2>8, <2>9
  <2>11. h.who = "dlsym" /\ b.fn # "calloc" /\ ~Calling(h) => 1 \in buffer'
    BY <1>2, <1>9, <2>6, <2>7, <2>9
  <2>12. ~(k < Len(s))
    BY <1>n, <1>9, <2>1
  <2> QED BY <2>10, <2>11, <2>12 DEF FrameInv, Calling, h, b
<1>10. ASSUME NEW k \in DOMAIN s PROVE FrameInv(k)'
  <2>1. k < n \/ (k = n /\ Len(s) = n)
    BY <1>1, <1>5, <1>6
  <2> QED BY <1>8, <1>9, <1>10, <2>1
<1> QED BY <1>10

LEMMA FinishedToCome ==
  ASSUME Kept, Kept', StartInv, stack[1] # <<>>, NEW stage, NEW g, Finished(stage, g)
  PROVE  /\ OfLoader' = OfLoader
         /\ InFopen' => InFopen
         /\ ForBuffer' => ForBuffer
         /\ ForLookup' => ForLookup
         /\ boot = "dup2" => stack'[1] # <<>> /\ Calling(stack'[1][1])
<1> DEFINE n == Len(stack[1])
           f == Top(1)
           s == stack'[1]
<1>1. /\ n \in Nat \ {0} /\ f = stack[1][n] /\ FrameInv(n) /\ DOMAIN stack[1] = 1 .. n
      /\ Passed(f, Head(Left(f)), Tail(Left(f)))
      /\ f.fn = "calloc" /\ f.left[1] = "resolve" /\ "calloc" \notin found
           => Head(Left(f)) = "resolve"
      /\ f.fn = "fopen" /\ Head(Left(f)) = "resolve" => "fopen" \notin found
  BY TopStart
<1>n. n \in Nat \ {0}
  BY <1>1
<1>2. /\ stage = Head(Left(f)) /\ g.left = Tail(Left(f)) /\ stage # "check"
      /\ g.fn = f.fn /\ g.who = f.who /\ g.asked = FALSE
      /\ boot' = boot /\ calls' = calls /\ buffer \subseteq buffer' /\ found \subseteq found'
  BY DEF Finished
<1>3. Passed(f, stage, g.left)
  BY <1>1, <1>2
<1>4. 1 \in Threads /\ s \in Seq(Frames) /\ stack[1] \in Seq(Frames)
  BY ThreadsAssumption DEF Kept, Types
<1>5. DOMAIN s = 1 .. Len(s) /\ Len(s) \in Nat /\ (s # <<>> <=> Len(s) # 0)
  BY <1>4, LenProperties, EmptySeq
<1>6. /\ Lower(1)
      /\ \/ Len(s) = n - 1 /\ g.left = <<>>
         \/ Len(s) = n /\ g.left # <<>> /\ s[n] = g
  BY <1>1, <1>5 DEF Finished, Popped, Replaced
<1>7. \A k \in 1 .. n : k < n => s[k] = stack[1][k]
  BY <1>1, <1>6 DEF Lower
<1>8. OfLoader' = OfLoader
  BY <1>2 DEF OfLoader
<1>9. n = 1 /\ s # <<>> => s[1] = g /\ f = stack[1][1]
  BY <1>1, <1>5, <1>6
<1>10. n # 1 => s # <<>> /\ s[1] = stack[1][1]
  <2>1. Len(s) = n - 1 \/ Len(s) = n
    BY <1>6
  <2>2. n # 1 => 1 \in 1 .. n /\ 1 < n /\ Len(s) # 0
    <3> HIDE DEF n, s
    <3> QED BY <1>n, <2>1
  <2> QED BY <1>5, <1>7, <2>2
<1>11. stage = "resolve" => f.left[1] = "resolve" /\ g.left[1] = "real"
  BY <1>3 DEF Passed
<1>12. Calling(g) /\ g.left # <<>> => stage = "resolve"
  <2>1. stage \in {"resolve", "real", "log", "load", "store"}
    BY <1>2, <1>3 DEF Passed
  <2>2. /\ stage = "real" => g.left[1] \in {"log", "load"}
        /\ stage = "log" /\ g.left # <<>> => g.left[1] = "load"
        /\ stage = "load" => g.left[1] = "store"
        /\ stage = "store" /\ g.left # <<>> => g.left[1] = "log"
    BY <1>3 DEF Passed
  <2> HIDE DEF f
  <2> QED BY <2>1, <2>2 DEF Calling
<1>13. InFopen' => InFopen
  <2> SUFFICES ASSUME InFopen', boot = "fopen" PROVE InFopen
    BY <1>2 DEF InFopen
  <2>1. /\ s # <<>> /\ Calling(s[1])
        /\ s[1].asked => s[1].left[1] # "real" /\ "fopen" \notin found'
    BY <1>2 DEF InFopen, Calling
  <2>2. CASE n = 1
    <3>1. s[1] = g /\ f = stack[1][1] /\ g.left # <<>>
      BY <1>5, <1>6, <1>9, <2>1, <2>2
    <3>2. f.left[1] = "resolve" /\ stage = "resolve"
      BY <1>11, <1>12, <2>1, <3>1
    <3>3. f.fn = "fopen"
      BY <1>1, <2>2 DEF FrameInv
    <3>4. "fopen" \notin found
      BY <1>1, <1>2, <3>2, <3>3
    <3> HIDE DEF f
    <3> QED BY <3>1, <3>2, <3>4 DEF InFopen, Calling
  <2>3. CASE n # 1
    BY <1>2, <1>10, <2>1, <2>3 DEF InFopen, Calling
  <2> QED BY <2>2, <2>3
<1>14. ForBuffer' => ForBuffer
  <2> SUFFICES ASSUME ForBuffer', NEW k \in DOMAIN stack[1], stack[1][k].who = "dlsym",
                      stack[1][k - 1].fn # "calloc"
               PROVE  FALSE
    BY <1>2 DEF ForBuffer
  <2>1. 1 \notin buffer'
    BY DEF ForBuffer
  <2>2. FrameInv(k) /\ k \in 1 .. n
    BY <1>1 DEF StartInv
  <2>3. k # 1
    BY <2>2 DEF FrameInv
  <2>4. CASE k \in DOMAIN s
    <3>1. s[k].who = "dlsym" /\ s[k - 1].fn # "calloc"
      <4>1. k - 1 \in 1 .. n /\ k - 1 < n
        BY <1>1, <2>2, <2>3
      <4>2. s[k - 1] = stack[1][k - 1]
        BY <1>7, <4>1
      <4>3. s[k].who = stack[1][k].who
        BY <1>1, <1>2, <1>5, <1>6, <1>7, <2>2, <2>4
      <4> QED BY <4>2, <4>3
    <3> QED BY <2>4, <3>1 DEF ForBuffer
  <2>5. CASE k \notin DOMAIN s
    <3>1. k = n /\ g.left = <<>>
      BY <1>1, <1>5, <1>6, <2>2, <2>5
    <3>2. stage \in {"log", "store"}
      BY <1>2, <1>3, <3>1 DEF Passed
    <3>3. ~Calling(f)
      BY <1>3, <3>2 DEF Passed, Calling
    <3>4. 1 \in buffer
      BY <1>1, <2>2, <3>1, <3>3 DEF FrameInv
    <3> QED BY <1>2, <2>1, <3>4
  <2> QED BY <2>4, <2>5
<1>15. ForLookup' => ForLookup
  <2> SUFFICES ASSUME ForLookup', NEW k \in DOMAIN stack[1], stack[1][k].fn = "calloc",
                      stack[1][k].asked
               PROVE  FALSE
    BY <1>2 DEF ForLookup
  <2>1. "calloc" \notin found' /\ "calloc" \notin found
    BY <1>2 DEF ForLookup
  <2>2. k \in 1 .. n /\ FrameInv(k)
    BY <1>1 DEF StartInv
  <2>3. CASE k < n
    <3>1. k \in DOMAIN s /\ s[k] = stack[1][k]
      BY <1>1, <1>5, <1>6, <1>7, <2>2, <2>3
    <3> QED BY <3>1 DEF ForLookup
  <2>4. CASE k = n
    <3>1. f.fn = "calloc" /\ f.left[1] = "resolve"
      BY <1>1, <2>2, <2>4 DEF FrameInv
    <3>2. stage = "resolve"
      BY <1>1, <1>2, <2>1, <3>1
    <3> QED BY <2>1, <3>1, <3>2 DEF Finished
  <2> QED BY <1>1, <2>2, <2>3, <2>4
<1>16. boot = "dup2" => s # <<>> /\ Calling(s[1])
  <2> SUFFICES ASSUME boot = "dup2" PROVE s # <<>> /\ Calling(s[1])
    OBVIOUS
  <2>1. Calling(stack[1][1])
    BY DEF StartInv
  <2>2. CASE n = 1
    <3>1. Calling(f) /\ stage # "real"
      BY <1>1, <2>1, <2>2 DEF Finished
    <3>2. stage = "resolve"
      <4>1. stage \in {"resolve", "real", "log", "load", "store"}
        BY <1>2, <1>3 DEF Passed
      <4>2. stage \in {"log", "load", "store"} => f.left[1] = stage
        BY <1>3 DEF Passed
      <4> QED BY <3>1, <4>1, <4>2 DEF Calling
    <3>3. g.left # <<>> /\ g.left[1] = "real"
      BY <1>3, <3>2 DEF Passed
    <3>4. s[1] = g /\ s # <<>>
      BY <1>5, <1>6, <2>2, <3>3
    <3> QED BY <3>3, <3>4 DEF Calling
  <2>3. CASE n # 1
    BY <1>10, <2>1, <2>3
  <2> QED BY <2>2, <2>3
<1> QED BY <1>8, <1>13, <1>14, <1>15, <1>16

\* Enough is still to be counted to allow for what is new.
LEMMA Allowed ==
  ASSUME Kept, Kept', StartInv,
         OfLoader' \in Nat,
         call_count' + Uncounted(stack'[1]) + ToCome' <= call_count + Uncounted(stack[1]) + ToCome
  PROVE  call_count' + Uncounted(stack'[1]) + ToCome' <= Early + 6
<1>1. /\ call_count \in Nat /\ Early \in Nat /\ ToCome \in Nat /\ Uncounted(stack[1]) \in Nat
  BY StartNumbers
<1>2. call_count' \in Nat /\ 1 \in Threads /\ stack'[1] \in Seq(Frames)
  BY ThreadsAssumption DEF Kept, Types
<1>3. Uncounted(stack'[1]) \in Int
  <2>1. Len(stack'[1]) \in Int
    BY <1>2, LenProperties
  <2> QED BY <2>1 DEF Uncounted
<1>4. ToCome' \in Int
  <2>1. One(InFopen)' \in Int /\ One(ForBuffer)' \in Int /\ One(ForLookup)' \in Int
    BY DEF One
  <2> QED BY <2>1 DEF ToCome
<1>5. call_count + Uncounted(stack[1]) + ToCome <= Early + 6
  BY DEF StartInv
<1> DEFINE u == Uncounted(stack[1])
           v == Uncounted(stack'[1])
           c == ToCome
           d == ToCome'
<1> HIDE DEF u, v, c, d
<1>6. call_count' + v + d <= call_count + u + c /\ call_count + u + c <= Early + 6
  BY <1>5 DEF u, v, c, d
<1>7. {call_count, call_count', u, v, c, d, Early} \subseteq Int
  BY <1>1, <1>2, <1>3, <1>4 DEF u, v, c, d
<1>8. call_count' + v + d <= Early + 6
  BY <1>6, <1>7
<1> QED BY <1>8 DEF v, d

LEMMA FinishedStart ==
  ASSUME Kept, Kept', StartInv, stack[1] # <<>>, NEW stage, NEW g, Finished(stage, g)
  PROVE  StartInv'
<1>1. /\ \A k \in DOMAIN stack'[1] : FrameInv(k)'
      /\ call_count' + Uncounted(stack'[1]) <= call_count + Uncounted(stack[1])
      /\ OfLoader' = OfLoader /\ (InFopen' => InFopen)
      /\ (ForBuffer' => ForBuffer) /\ (ForLookup' => ForLookup)
      /\ boot = "dup2" => stack'[1] # <<>> /\ Calling(stack'[1][1])
  <2>1. \A k \in DOMAIN stack'[1] : FrameInv(k)'
    BY FinishedFrames
  <2>2. call_count' + Uncounted(stack'[1]) <= call_count + Uncounted(stack[1])
    BY FinishedCount
  <2> QED BY <2>1, <2>2, FinishedToCome
<1>2. boot' = boot /\ calls' = calls /\ Others(1) /\ 1 \in Threads
  BY ThreadsAssumption DEF Finished
<1>3. ToCome' <= ToCome /\ ToCome' \in Nat /\ OfLoader' \in Nat
  <2>1. OfLoader \in Nat
    BY StartNumbers
  <2>2. One(InFopen)' <= One(InFopen) /\ One(InFopen) \in Nat /\ One(InFopen)' \in Nat
    BY <1>1 DEF One
  <2>3. One(ForBuffer)' <= One(ForBuffer) /\ One(ForBuffer) \in Nat /\ One(ForBuffer)' \in Nat
    BY <1>1 DEF One
  <2>4. One(ForLookup)' <= One(ForLookup) /\ One(ForLookup) \in Nat /\ One(ForLookup)' \in Nat
    BY <1>1 DEF One
  <2> QED BY <1>1, <2>1, <2>2, <2>3, <2>4 DEF ToCome
<1>4. call_count' + Uncounted(stack'[1]) + ToCome' <= Early + 6
  <2> DEFINE u == Uncounted(stack[1])
             v == Uncounted(stack'[1])
             c == ToCome
             d == ToCome'
  <2>1. call_count \in Nat /\ u \in Nat /\ c \in Nat
    BY StartNumbers
  <2>2. call_count' \in Nat /\ stack'[1] \in Seq(Frames)
    BY <1>2 DEF Kept, Types
  <2>3. v \in Int
    <3>1. Len(stack'[1]) \in Int
      BY <2>2, LenProperties
    <3> QED BY <3>1 DEF Uncounted
  <2>4. call_count' + v <= call_count + u /\ d <= c /\ d \in Nat
    BY <1>1, <1>3
  <2> HIDE DEF u, v, c, d
  <2>5. call_count' + v + d <= call_count + u + c
    <3>1. {call_count, call_count', u, v, c, d} \subseteq Int
      BY <2>1, <2>2, <2>3, <2>4
    <3> QED BY <2>4, <3>1
  <2>6. call_count' + Uncounted(stack'[1]) + ToCome'
          <= call_count + Uncounted(stack[1]) + ToCome
    BY <2>5 DEF u, v, c, d
  <2> QED BY <1>3, <2>6, Allowed
<1>5. boot' \in Boots /\ (\A t \in Threads \ {1} : stack'[t] = <<>>)
      /\ calls' \in [Threads -> Nat] /\ calls'[1] <= Early
  BY <1>2 DEF StartInv, Others
<1> QED BY <1>1, <1>2, <1>4, <1>5 DEF StartInv, Calling

LEMMA FinishedBy ==
  ASSUME Kept, StartInv, stack[1] # <<>>, NEW stage, stage = Head(Left(Top(1))), stage # "check",
         NEW g \in Frames, g.fn = Top(1).fn, g.who = Top(1).who, g.left = Done(Top(1)).left,
         g.asked = FALSE, Step(1, g), UNCHANGED <<boot, calls>>,
         buffer \subseteq buffer', found \subseteq found',
         call_count' = IF stage = "store" THEN call_count + 1 ELSE call_count,
         stage = "load" => g.n = call_count,
         stage = "real" =>
           /\ Top(1).who = "dlsym" /\ stack[1][Len(stack[1]) - 1].fn # "calloc" => 1 \in buffer'
           /\ ~(Len(stack[1]) = 1 /\ boot = "dup2"),
         stage = "resolve" /\ Top(1).fn = "calloc" => "calloc" \in found'
  PROVE  Finished(stage, g)
<1>1. 1 \in Threads /\ stack \in [Threads -> Seq(Frames)]
  BY ThreadsAssumption DEF Kept, Types
<1>2. Others(1) /\ IF g.left = <<>> THEN Popped(1) ELSE Replaced(1, g)
  BY <1>1, StepFacts
<1>3. Top(1) \in Frames
  BY TopStart
<1>4. Done(Top(1)).left = Tail(Left(Top(1)))
  BY <1>3 DEF Done, Frames
<1> QED BY <1>2, <1>4 DEF Finished

\* The stages there are then.
LEMMA StartStage ==
  ASSUME Kept, StartInv, NEW stages, At(1, stages)
  PROVE  LET f == Top(1)
         IN /\ stack[1] # <<>> /\ f \in Frames /\ f.left # <<>> /\ Plan(f)
            /\ Head(Left(f)) \in stages /\ Passed(f, Head(Left(f)), Tail(Left(f)))
            /\ Head(Left(f)) \in {"check", "resolve", "real", "log", "load", "store"}
<1>1. 1 \in Threads
  BY ThreadsAssumption
<1>2. /\ stack[1] # <<>> /\ Top(1) \in Frames /\ Top(1).left # <<>> /\ Plan(Top(1))
      /\ Head(Left(Top(1))) \in stages
  BY <1>1, AtFacts
<1>3. Passed(Top(1), Head(Left(Top(1))), Tail(Left(Top(1))))
  BY <1>2, TopStart
<1> QED BY <1>2, <1>3 DEF Passed

LEMMA ResolveStart ==
  ASSUME Kept, Kept', StartInv, Resolve(1)
  PROVE  StartInv'
<1> DEFINE f == Top(1)
           stage == Head(Left(f))
           g == Done(f)
<1>1. /\ stack[1] # <<>> /\ f \in Frames /\ f.left # <<>> /\ Plan(f)
      /\ stage = "resolve"
  BY StartStage DEF Resolve
<1>2. g \in Frames /\ g.asked = FALSE /\ GoesOn(g, f, stage)
  BY <1>1, DoneFacts, DoneGoesOn
<1>3. /\ Step(1, g) /\ call_count' = call_count /\ found' = found \cup {Target(1)}
      /\ UNCHANGED <<boot, calls, buffer>>
  BY DEF Resolve, outside
<1>4. f.fn = "calloc" => Target(1) = "calloc"
  BY <1>1, FnFacts DEF Target, At
<1>5. Finished(stage, g)
  <2> HIDE DEF g
  <2>1. stage = Head(Left(f)) /\ stage # "check"
    BY <1>1
  <2>2. g.fn = f.fn /\ g.who = f.who /\ g.left = Done(f).left
    BY <1>2 DEF GoesOn
  <2> HIDE DEF stage
  <2> QED BY <1>1, <1>2, <1>3, <1>4, <2>1, <2>2, FinishedBy
<1> HIDE DEF g, stage
<1> QED BY <1>1, <1>5, FinishedStart

LEMMA LoadStart ==
  ASSUME Kept, Kept', StartInv, Load(1)
  PROVE  StartInv'
<1> DEFINE f == Top(1)
           stage == Head(Left(f))
           g == [Done(f) EXCEPT !.n = call_count]
<1>1. /\ stack[1] # <<>> /\ f \in Frames /\ f.left # <<>> /\ Plan(f)
      /\ stage = "load" /\ call_count \in Nat
  BY StartStage DEF Load, Kept, Types
<1>2. Done(f) \in Frames /\ Done(f).asked = FALSE /\ g \in Frames /\ GoesOn(g, f, stage)
  BY <1>1, DoneFacts, DoneGoesOn
<1>3. g.asked = FALSE /\ g.n = call_count
  BY <1>2 DEF Frames
<1>4. Step(1, g) /\ call_count' = call_count /\ UNCHANGED <<found, boot, calls, buffer>>
  BY DEF Load, outside, kept
<1>5. Finished(stage, g)
  <2> HIDE DEF g
  <2>1. stage = Head(Left(f)) /\ stage # "check"
    BY <1>1
  <2>2. g.fn = f.fn /\ g.who = f.who /\ g.left = Done(f).left
    BY <1>2 DEF GoesOn
  <2> HIDE DEF stage
  <2> QED BY <1>1, <1>2, <1>3, <1>4, <2>1, <2>2, FinishedBy
<1> HIDE DEF g, stage
<1> QED BY <1>1, <1>5, FinishedStart

LEMMA StoreStart ==
  ASSUME Kept, Kept', StartInv, Store(1)
  PROVE  StartInv'
<1> DEFINE f == Top(1)
           stage == Head(Left(f))
           g == [Done(f) EXCEPT !.n = 0]
<1>1. /\ stack[1] # <<>> /\ f \in Frames /\ f.left # <<>> /\ Plan(f)
      /\ stage = "store" /\ Passed(f, stage, Tail(Left(f)))
  BY StartStage DEF Store
<1>2. Done(f) \in Frames /\ Done(f).asked = FALSE /\ g \in Frames /\ GoesOn(g, f, stage)
  <2>1. \A n \in Nat : LET h == [Done(f) EXCEPT !.n = n] IN
          h \in Frames /\ h.over = f.over /\ GoesOn(h, f, stage)
    BY <1>1, DoneGoesOn
  <2> QED BY <1>1, <2>1, DoneFacts
<1>3. g.asked = FALSE
  BY <1>2 DEF Frames
<1>4. Step(1, g) /\ call_count' = f.n + 1 /\ UNCHANGED <<found, boot, calls, buffer>>
  BY DEF Store, outside
<1>5. f.n = call_count
  <2>1. f.left[1] = "store"
    BY <1>1 DEF Passed
  <2>2. f = stack[1][Len(stack[1])] /\ FrameInv(Len(stack[1]))
    BY <1>1, TopStart
  <2> QED BY <2>1, <2>2 DEF FrameInv
<1>6. Finished(stage, g)
  <2> HIDE DEF g
  <2>1. stage = Head(Left(f)) /\ stage # "check"
    BY <1>1
  <2>2. g.fn = f.fn /\ g.who = f.who /\ g.left = Done(f).left
    BY <1>2 DEF GoesOn
  <2> HIDE DEF stage
  <2> QED BY <1>1, <1>2, <1>3, <1>4, <1>5, <2>1, <2>2, FinishedBy
<1> HIDE DEF g, stage
<1> QED BY <1>1, <1>6, FinishedStart

LEMMA LogStart ==
  ASSUME Kept, Kept', StartInv, Log(1)
  PROVE  StartInv'
<1> DEFINE f == Top(1)
           stage == Head(Left(f))
           g == Done(f)
<1>1. /\ stack[1] # <<>> /\ f \in Frames /\ f.left # <<>> /\ Plan(f)
      /\ stage = "log"
  BY StartStage DEF Log
<1>2. g \in Frames /\ g.asked = FALSE /\ GoesOn(g, f, stage)
  BY <1>1, DoneFacts, DoneGoesOn
<1>3. /\ Step(1, g) /\ call_count' = call_count
      /\ UNCHANGED <<found, boot, calls, buffer>>
  BY DEF Log, outside, kept
<1>4. Finished(stage, g)
  <2> HIDE DEF g
  <2>1. stage = Head(Left(f)) /\ stage # "check"
    BY <1>1
  <2>2. g.fn = f.fn /\ g.who = f.who /\ g.left = Done(f).left
    BY <1>2 DEF GoesOn
  <2> HIDE DEF stage
  <2> QED BY <1>1, <1>2, <1>3, <2>1, <2>2, FinishedBy
<1> HIDE DEF g, stage
<1> QED BY <1>1, <1>4, FinishedStart

\* While calloc's original is not known, a calloc that has called is the last
\* but one, and dlsym's is the last.
LEMMA LookupIsLast ==
  ASSUME Kept, StartInv, "calloc" \notin found, NEW k \in DOMAIN stack[1],
         k < Len(stack[1]), stack[1][k].fn = "calloc"
  PROVE  /\ k + 1 = Len(stack[1])
         /\ stack[1][k + 1].fn = "calloc" /\ stack[1][k + 1].left[1] # "resolve"
<1> DEFINE n == Len(stack[1])
           c == stack[1][k]
           d == stack[1][k + 1]
<1>1. stack[1] \in Seq(Frames) /\ 1 \in Threads /\ Sound /\ Cheating
  BY ThreadsAssumption DEF Kept, Types
<1>2. n \in Nat /\ DOMAIN stack[1] = 1 .. n
  BY <1>1, LenProperties
<1>3. k \in Nat /\ k >= 1 /\ k + 1 \in 1 .. n /\ (k + 1) - 1 = k /\ k + 1 # 1 /\ k # n
  <2> HIDE DEF n
  <2> QED BY <1>2 DEF n
<1>4. FrameInv(k) /\ FrameInv(k + 1)
  BY <1>2, <1>3 DEF StartInv
<1>5. k + 1 = 2 /\ boot = "fopen" => c.fn = "fopen"
  BY <1>3, <1>4 DEF FrameInv
<1>6. d.fn = "calloc"
  BY <1>3, <1>4, <1>5 DEF FrameInv
<1>7. d.left[1] # "resolve"
  <2>1. SoundAt(1, k + 1)
    BY <1>1, <1>2, <1>3 DEF Sound
  <2>2. k + 1 > 1
    BY <1>3
  <2> QED BY <1>3, <1>6, <2>1, <2>2 DEF SoundAt, Nesting
<1>8. k + 1 = n
  BY <1>1, <1>2, <1>3, <1>6, <1>7 DEF Cheating
<1> QED BY <1>6, <1>7, <1>8

LEMMA RealStart ==
  ASSUME Kept, Kept', StartInv, Real(1), stderr' = "terminal"
  PROVE  StartInv'
<1> DEFINE f == Top(1)
           n == Len(stack[1])
           stage == Head(Left(f))
           g == [Done(f) EXCEPT !.shut = f.fn = "fclose"]
<1>1. /\ stack[1] # <<>> /\ f \in Frames /\ f.left # <<>> /\ Plan(f)
      /\ stage = "real"
  BY StartStage DEF Real
<1>2. /\ n \in Nat \ {0} /\ DOMAIN stack[1] = 1 .. n /\ f = stack[1][n] /\ FrameInv(n)
      /\ f.fn = "calloc" /\ f.left[1] = "resolve" /\ "calloc" \notin found => stage = "resolve"
  BY <1>1, TopStart
<1>3. Done(f) \in Frames /\ Done(f).asked = FALSE /\ g \in Frames /\ GoesOn(g, f, stage)
  BY <1>1, DoneFacts, DoneGoesOn
<1>4. g.asked = FALSE
  BY <1>3 DEF Frames
<1>5. /\ Step(1, g) /\ call_count' = call_count /\ UNCHANGED <<found, boot, calls>>
      /\ stderr' = IF f.fn = "dup2" /\ f.who = "monitor" THEN "file" ELSE stderr
      /\ buffer' = IF f.who = "dlsym" /\ ~(f.fn = "calloc" /\ temporary)
                   THEN buffer \cup {1} ELSE buffer
  BY DEF Real, kept
<1>6. f.who = "dlsym" /\ stack[1][n - 1].fn # "calloc" => 1 \in buffer'
  <2> SUFFICES ASSUME f.fn = "calloc", temporary, stack[1][n - 1].fn # "calloc" PROVE FALSE
    BY <1>5
  <2>1. /\ "calloc" \notin found
        /\ \E k \in DOMAIN stack[1] : /\ stack[1][k].fn = "calloc"
                                      /\ stack[1][k].left[1] = "resolve"
    BY DEF Kept, Cheating
  <2>2. PICK k \in DOMAIN stack[1] : /\ stack[1][k].fn = "calloc"
                                     /\ stack[1][k].left[1] = "resolve"
    BY <2>1
  <2>3. k # n
    BY <1>1, <1>2, <2>1, <2>2
  <2>4. k \in Nat /\ k < n
    <3> HIDE DEF n
    <3> QED BY <1>2, <2>3
  <2>5. k + 1 = n
    BY <2>1, <2>2, <2>4, LookupIsLast
  <2>6. n - 1 = k
    <3> HIDE DEF n
    <3> QED BY <2>4, <2>5
  <2> QED BY <2>2, <2>6
<1>7. ~(n = 1 /\ boot = "dup2")
  BY <1>2, <1>5 DEF FrameInv
<1>8. Finished(stage, g)
  <2> HIDE DEF g
  <2>1. stage = Head(Left(f)) /\ stage # "check"
    BY <1>1
  <2>2. g.fn = f.fn /\ g.who = f.who /\ g.left = Done(f).left
    BY <1>3 DEF GoesOn
  <2>3. buffer \subseteq buffer'
    BY <1>5
  <2> HIDE DEF stage
  <2> QED BY <1>1, <1>3, <1>4, <1>5, <1>6, <1>7, <2>1, <2>2, <2>3, FinishedBy
<1> HIDE DEF g, stage
<1> QED BY <1>1, <1>8, FinishedStart

LEMMA CheckStart ==
  ASSUME Kept, Kept', StartInv, Check(1)
  PROVE  StartInv'
<1> DEFINE f == Top(1)
           n == Len(stack[1])
           s == stack'[1]
           g == [f EXCEPT !.left = <<"resolve">> \o Tail(@)]
<1>1. /\ stack[1] # <<>> /\ f \in Frames /\ f.left # <<>> /\ Plan(f)
      /\ Head(Left(f)) = "check" /\ 1 \in Threads
  BY StartStage, ThreadsAssumption DEF Check
<1>2. /\ n \in Nat \ {0} /\ DOMAIN stack[1] = 1 .. n /\ f = stack[1][n] /\ FrameInv(n)
  BY <1>1, TopStart
<1>3. f.fn = "calloc" /\ f.left[1] = "check"
  BY <1>1, StageFacts
<1>4. f.left = <<"check", "real", "log", "load", "store">>
  <2>1. f.left \in Forms("calloc")
    BY <1>2, <1>3 DEF FrameInv
  <2> HIDE DEF f
  <2> QED BY <1>3, <2>1 DEF Forms
<1>5. <<"resolve">> \o Tail(f.left) = <<"resolve", "real", "log", "load", "store">>
  <2> DEFINE a == <<"resolve">>
             b == <<"real", "log", "load", "store">>
             v == <<"resolve", "real", "log", "load", "store">>
  <2>1. a \in Seq(AllStages) /\ b \in Seq(AllStages) /\ v \in Seq(AllStages)
    BY DEF AllStages
  <2>2. Len(v) = Len(a) + Len(b)
    OBVIOUS
  <2>3. \A i \in 1 .. Len(v) : v[i] = IF i <= Len(a) THEN a[i] ELSE b[i - Len(a)]
    OBVIOUS
  <2>4. Tail(f.left) = b
    <3> HIDE DEF f
    <3> QED BY <1>4
  <2> HIDE DEF a, b, v
  <2>5. a \o b = v
    BY <2>1, <2>2, <2>3, ConcatIs
  <2> QED BY <2>4, <2>5 DEF a, v
<1>6. /\ g \in Frames /\ g.fn = f.fn /\ g.who = f.who /\ g.asked = f.asked /\ g.n = f.n
      /\ g.left = <<"resolve", "real", "log", "load", "store">>
  <2> DEFINE l == <<"resolve">> \o Tail(f.left)
  <2>1. l \in Seq(AllStages) /\ g = [f EXCEPT !.left = l]
    <3>1. <<"resolve", "real", "log", "load", "store">> \in Seq(AllStages)
      BY DEF AllStages
    <3> QED BY <1>5, <3>1
  <2>2. l = <<"resolve", "real", "log", "load", "store">>
    BY <1>5
  <2> HIDE DEF l, g, f
  <2> QED BY <1>1, <2>1, <2>2 DEF Frames
<1>7. f.asked = FALSE
  <2>1. f.asked \in BOOLEAN
    BY <1>1 DEF Frames
  <2> QED BY <1>2, <1>3, <2>1 DEF FrameInv
<1>8. /\ Step(1, g) /\ call_count' = call_count
      /\ UNCHANGED <<found, boot, calls, buffer>>
  BY DEF Check, outside
<1> HIDE DEF g
<1>9. Replaced(1, g) /\ Others(1) /\ s \in Seq(Frames)
  <2>1. g.left # <<>>
    BY <1>6
  <2>2. stack \in [Threads -> Seq(Frames)] /\ stack' \in [Threads -> Seq(Frames)]
    BY DEF Kept, Types
  <2> QED BY <1>1, <1>6, <1>8, <2>1, <2>2, StepFacts
<1>10. /\ Len(s) = n /\ s[n] = g /\ DOMAIN s = 1 .. n
       /\ \A k \in 1 .. n : k # n => s[k] = stack[1][k]
  <2>1. Len(s) = n /\ s[n] = g /\ Lower(1) /\ DOMAIN s = 1 .. n
    BY <1>9, LenProperties DEF Replaced
  <2>2. \A k \in 1 .. n : k # n => k < n
    <3> HIDE DEF n
    <3> QED BY <1>2
  <2> QED BY <1>2, <2>1, <2>2 DEF Lower
<1>11. \A k \in 1 .. n : /\ s[k].fn = stack[1][k].fn /\ s[k].who = stack[1][k].who
                         /\ s[k].asked = stack[1][k].asked
                         /\ Calling(s[k]) <=> Calling(stack[1][k])
  BY <1>2, <1>3, <1>6, <1>10 DEF Calling
<1>12. ASSUME NEW k \in DOMAIN s PROVE FrameInv(k)'
  <2>1. FrameInv(k) /\ k \in 1 .. n
    BY <1>2, <1>10, <1>12 DEF StartInv
  <2>2. k # 1 => k - 1 \in 1 .. n
    <3> HIDE DEF n
    <3> QED BY <1>2, <2>1
  <2>3. k = 1 => stack[1][k].who # "dlsym"
    BY <2>1 DEF FrameInv
  <2>4. /\ s[k].left \in Forms(s[k].fn)
        /\ k < Len(s) => s[k].left[1] \in {"resolve", "real"}
        /\ s[k].left[1] = "store" => s[k].n = call_count'
        /\ s[k].fn = "calloc" /\ s[k].asked => s[k].left[1] = "resolve"
    <3>1. CASE k = n
      <4>1. g.left \in Forms("calloc") /\ g.left[1] = "resolve"
        BY <1>6 DEF Forms
      <4> QED BY <1>3, <1>6, <1>10, <3>1, <4>1
    <3>2. CASE k # n
      BY <1>8, <1>10, <2>1, <3>2 DEF FrameInv
    <3> QED BY <3>1, <3>2
  <2>5. IF k = 1
        THEN IF boot = "early" THEN s[k].who = "program" /\ s[k].fn \in {"malloc", "calloc", "free"}
             ELSE s[k].who = "monitor" /\ s[k].fn = boot
        ELSE \/ s[k].who = "dlsym" /\ s[k].fn = "calloc"
             \/ s[k].who = "libc" /\ s[k].fn \in {"malloc", "free"} /\ k = 2 /\ boot = "fopen"
    <3>1. s[k].who = stack[1][k].who /\ s[k].fn = stack[1][k].fn
      BY <1>11, <2>1
    <3>2. FrameInv(k)
      BY <2>1
    <3> QED BY <3>1, <3>2 DEF FrameInv
  <2>6. s[k].who = "dlsym" /\ s[k - 1].fn # "calloc" /\ ~Calling(s[k]) => 1 \in buffer
    <3>1. /\ s[k].who = stack[1][k].who
          /\ Calling(s[k]) <=> Calling(stack[1][k])
          /\ k # 1 => s[k - 1].fn = stack[1][k - 1].fn
      BY <1>11, <2>1, <2>2
    <3>2. stack[1][k].who = "dlsym" /\ stack[1][k - 1].fn # "calloc" /\ ~Calling(stack[1][k])
            => 1 \in buffer
      BY <2>1 DEF FrameInv
    <3> QED BY <2>3, <3>1, <3>2
  <2> QED BY <1>8, <2>4, <2>5, <2>6 DEF FrameInv, Calling
<1>13. ToCome' = ToCome
  <2>1. OfLoader' = OfLoader
    BY <1>8 DEF OfLoader
  <2>2. InFopen' <=> InFopen
    <3>1. s # <<>> /\ stack[1] # <<>> /\ 1 \in 1 .. n
      BY <1>1, <1>2, <1>9, <1>10, EmptySeq
    <3>2. boot = "fopen" => /\ s[1] = stack[1][1] \/ n = 1
                            /\ n # 1
      BY <1>2, <1>3, <1>10, <3>1 DEF FrameInv
    <3> QED BY <1>8, <3>1, <3>2 DEF InFopen, Calling
  <2>3. ForBuffer' <=> ForBuffer
    <3>1. \A k \in 1 .. n : s[k].who = "dlsym" => k # 1
      <4>1. ASSUME NEW k \in 1 .. n, k = 1 PROVE stack[1][k].who # "dlsym"
        <5>1. FrameInv(k)
          BY <1>2 DEF StartInv
        <5> QED BY <4>1, <5>1 DEF FrameInv
      <4> QED BY <1>11, <4>1
    <3>2. \A k \in 1 .. n : k # 1 => k - 1 \in 1 .. n
      <4> HIDE DEF n
      <4> QED BY <1>2
    <3> QED BY <1>2, <1>8, <1>10, <1>11, <3>1, <3>2 DEF ForBuffer
  <2>4. ForLookup' <=> ForLookup
    BY <1>2, <1>8, <1>10, <1>11 DEF ForLookup
  <2> QED BY <2>1, <2>2, <2>3, <2>4 DEF ToCome, One
<1>14. Uncounted(s) = Uncounted(stack[1])
  <2>1. g.left # <<"log">> /\ f.left # <<"log">>
    <3> HIDE DEF f
    <3> QED BY <1>4, <1>6
  <2>2. stack[1] \in Seq(Frames)
    BY <1>1 DEF Kept, Types
  <2> QED BY <1>2, <1>9, <1>10, <2>1, <2>2, UncountedIs
<1>15. boot = "dup2" => s # <<>> /\ Calling(s[1])
  <2>1. s # <<>> /\ 1 \in 1 .. n
    BY <1>2, <1>9, <1>10, EmptySeq
  <2> QED BY <1>11, <2>1 DEF StartInv
<1>16. boot' \in Boots /\ (\A t \in Threads \ {1} : stack'[t] = <<>>)
       /\ calls' \in [Threads -> Nat] /\ calls'[1] <= Early
  BY <1>8, <1>9 DEF StartInv, Others
<1>17. call_count' + Uncounted(s) + ToCome' <= Early + 6
  BY <1>8, <1>13, <1>14 DEF StartInv
<1> QED BY <1>8, <1>12, <1>15, <1>16, <1>17 DEF StartInv, Calling

\* The call on top has called h, of dlsym or, inside fopen, of the library.
Called(g, h) ==
  LET n == Len(stack[1])
      f == Top(1)
  IN /\ Pushed(1, g, h) /\ Others(1)
     /\ g.fn = f.fn /\ g.who = f.who /\ g.left = f.left /\ g.asked = TRUE
     /\ f.left[1] \in {"resolve", "real"} /\ (f.fn = "calloc" => f.left[1] = "resolve")
     /\ h.left \in Forms(h.fn) /\ h.left # <<"log">> /\ Calling(h) /\ h.asked = FALSE
     /\ \/ h.who = "dlsym" /\ h.fn = "calloc"
        \/ h.who = "libc" /\ h.fn \in {"malloc", "free"} /\ n = 1 /\ boot = "fopen"
     /\ UNCHANGED <<found, buffer, boot, calls, call_count>>

\* What the stack is after such a call.
LEMMA CalledStack ==
  ASSUME Kept, Kept', StartInv, stack[1] # <<>>, NEW g, NEW h, Called(g, h)
  PROVE  LET n == Len(stack[1])
             s == stack'[1]
         IN /\ n \in Nat \ {0} /\ DOMAIN stack[1] = 1 .. n /\ Top(1) = stack[1][n]
            /\ s \in Seq(Frames) /\ Len(s) = n + 1 /\ DOMAIN s = 1 .. n + 1
            /\ s[n] = g /\ s[n + 1] = h
            /\ \A k \in 1 .. n : k # n => s[k] = stack[1][k]
            /\ \A k \in 1 .. n : /\ s[k].fn = stack[1][k].fn /\ s[k].who = stack[1][k].who
                                 /\ s[k].left = stack[1][k].left
<1> DEFINE n == Len(stack[1])
           s == stack'[1]
<1>1. /\ n \in Nat \ {0} /\ DOMAIN stack[1] = 1 .. n /\ Top(1) = stack[1][n]
  BY TopStart
<1>2. s \in Seq(Frames)
  BY ThreadsAssumption DEF Kept, Types
<1>3. /\ Len(s) = n + 1 /\ Lower(1) /\ s[n] = g /\ s[n + 1] = h
      /\ g.fn = Top(1).fn /\ g.who = Top(1).who /\ g.left = Top(1).left
  BY DEF Called, Pushed
<1>4. DOMAIN s = 1 .. n + 1
  BY <1>2, <1>3, LenProperties
<1>5. \A k \in 1 .. n : k # n => k < n
  <2> HIDE DEF n
  <2> QED BY <1>1
<1>6. \A k \in 1 .. n : k # n => s[k] = stack[1][k]
  BY <1>1, <1>3, <1>5 DEF Lower
<1>7. \A k \in 1 .. n : /\ s[k].fn = stack[1][k].fn /\ s[k].who = stack[1][k].who
                        /\ s[k].left = stack[1][k].left
  BY <1>1, <1>3, <1>6
<1> QED BY <1>1, <1>2, <1>3, <1>4, <1>6, <1>7

LEMMA CalledFrames ==
  ASSUME Kept, Kept', StartInv, stack[1] # <<>>, NEW g, NEW h, Called(g, h)
  PROVE  \A k \in DOMAIN stack'[1] : FrameInv(k)'
<1> DEFINE n == Len(stack[1])
           s == stack'[1]
           f == Top(1)
<1>1. /\ n \in Nat \ {0} /\ DOMAIN stack[1] = 1 .. n /\ f = stack[1][n]
      /\ Len(s) = n + 1 /\ DOMAIN s = 1 .. n + 1 /\ s[n] = g /\ s[n + 1] = h
      /\ \A k \in 1 .. n : k # n => s[k] = stack[1][k]
      /\ \A k \in 1 .. n : /\ s[k].fn = stack[1][k].fn /\ s[k].who = stack[1][k].who
                           /\ s[k].left = stack[1][k].left
  BY CalledStack
<1>n. n \in Nat \ {0}
  BY <1>1
<1>2. /\ f.left[1] \in {"resolve", "real"} /\ (f.fn = "calloc" => f.left[1] = "resolve")
      /\ h.left \in Forms(h.fn) /\ h.left # <<"log">> /\ Calling(h) /\ h.asked = FALSE
      /\ \/ h.who = "dlsym" /\ h.fn = "calloc"
         \/ h.who = "libc" /\ h.fn \in {"malloc", "free"} /\ n = 1 /\ boot = "fopen"
      /\ UNCHANGED <<found, buffer, boot, calls, call_count>>
  BY DEF Called
<1>3. ASSUME NEW k \in 1 .. n PROVE FrameInv(k)'
  <2>1. FrameInv(k)
    BY <1>1, <1>3 DEF StartInv
  <2>2. stack[1][k].left[1] \in {"resolve", "real"}
    <3>1. k # n => k < n
      <4> HIDE DEF n
      <4> QED BY <1>n, <1>3
    <3> QED BY <1>1, <1>2, <2>1, <3>1 DEF FrameInv
  <2>3. /\ s[k].fn = stack[1][k].fn /\ s[k].who = stack[1][k].who
        /\ s[k].left = stack[1][k].left
    BY <1>1
  <2>4. s[k].left \in Forms(s[k].fn) /\ s[k].left[1] \in {"resolve", "real"}
    BY <2>1, <2>2, <2>3 DEF FrameInv
  <2>5. IF k = 1
        THEN IF boot = "early" THEN s[k].who = "program" /\ s[k].fn \in {"malloc", "calloc", "free"}
             ELSE s[k].who = "monitor" /\ s[k].fn = boot
        ELSE \/ s[k].who = "dlsym" /\ s[k].fn = "calloc"
             \/ s[k].who = "libc" /\ s[k].fn \in {"malloc", "free"} /\ k = 2 /\ boot = "fopen"
    BY <2>1, <2>3 DEF FrameInv
  <2>6. s[k].fn = "calloc" /\ s[k].asked => s[k].left[1] = "resolve"
    <3>1. CASE k = n
      BY <1>1, <1>2, <2>3, <3>1
    <3>2. CASE k # n
      BY <1>1, <2>1, <3>2 DEF FrameInv
    <3> QED BY <3>1, <3>2
  <2> QED BY <1>2, <2>4, <2>5, <2>6 DEF FrameInv, Calling
<1>4. ASSUME NEW k, k = n + 1 PROVE FrameInv(k)'
  <2>1. k # 1 /\ ~(k < Len(s)) /\ (n = 1 => k = 2)
    <3>1. Len(s) = n + 1
      BY <1>1
    <3> HIDE DEF n, s
    <3> QED BY <1>n, <1>4, <3>1
  <2>2. s[k] = h
    BY <1>1, <1>4
  <2>3. h.left[1] # "store"
    BY <1>2 DEF Calling
  <2> HIDE DEF n, f
  <2> QED BY <1>2, <2>1, <2>2, <2>3 DEF FrameInv, Calling
<1>5. \A k \in DOMAIN s : k \in 1 .. n \/ k = n + 1
  <2>1. DOMAIN s = 1 .. n + 1
    BY <1>1
  <2> HIDE DEF n, s
  <2> QED BY <1>n, <2>1
<1> QED BY <1>3, <1>4, <1>5

LEMMA CalledToCome ==
  ASSUME Kept, Kept', StartInv, stack[1] # <<>>, NEW g, NEW h, Called(g, h)
  PROVE  /\ OfLoader' = OfLoader
         /\ InFopen' => InFopen
         /\ ForBuffer' => ForBuffer
         /\ ForLookup' => ForLookup
         /\ h.who = "dlsym" /\ Top(1).fn # "calloc" => ~ForBuffer'
         /\ Top(1).fn = "calloc" => ~ForLookup'
         /\ Len(stack[1]) = 1 /\ Top(1).left[1] = "real" => ~(boot = "fopen" /\ InFopen')
         /\ Len(stack[1]) = 1 /\ "fopen" \in found => ~(boot = "fopen" /\ InFopen')
<1> DEFINE n == Len(stack[1])
           s == stack'[1]
           f == Top(1)
<1>1. /\ n \in Nat \ {0} /\ DOMAIN stack[1] = 1 .. n /\ f = stack[1][n] /\ s \in Seq(Frames)
      /\ Len(s) = n + 1 /\ DOMAIN s = 1 .. n + 1 /\ s[n] = g /\ s[n + 1] = h
      /\ \A k \in 1 .. n : k # n => s[k] = stack[1][k]
      /\ \A k \in 1 .. n : /\ s[k].fn = stack[1][k].fn /\ s[k].who = stack[1][k].who
                           /\ s[k].left = stack[1][k].left
  BY CalledStack
<1>2. /\ g.asked = TRUE /\ g.left = f.left
      /\ UNCHANGED <<found, buffer, boot, calls, call_count>>
  BY DEF Called
<1>3. /\ \A k \in 1 .. n : k \in DOMAIN s
      /\ n \in DOMAIN s /\ n + 1 \in DOMAIN s /\ (n + 1) - 1 = n /\ 1 \in 1 .. n
      /\ \A k \in 1 .. n : k # 1 => k - 1 \in 1 .. n
  <2>1. n \in Nat \ {0} /\ DOMAIN s = 1 .. n + 1
    BY <1>1
  <2> HIDE DEF n, s
  <2> QED BY <2>1
<1>4. OfLoader' = OfLoader
  BY <1>2 DEF OfLoader
<1>5. /\ s[1].left = stack[1][1].left /\ s # <<>>
      /\ n = 1 => s[1].asked
      /\ n # 1 => s[1] = stack[1][1]
  <2>1. s # <<>>
    <3>1. Len(s) # 0
      <4>1. n \in Nat /\ Len(s) = n + 1
        BY <1>1
      <4> HIDE DEF n, s
      <4> QED BY <4>1
    <3> QED BY <1>1, <3>1, EmptySeq
  <2>2. s[1].left = stack[1][1].left
    BY <1>1, <1>3
  <2>3. n = 1 => s[1].asked
    BY <1>1, <1>2
  <2>4. n # 1 => s[1] = stack[1][1]
    BY <1>1, <1>3
  <2> QED BY <2>1, <2>2, <2>3, <2>4
<1>6. InFopen' => InFopen
  <2> SUFFICES ASSUME InFopen', boot = "fopen" PROVE InFopen
    BY <1>2 DEF InFopen
  <2>1. /\ s # <<>> /\ Calling(s[1])
        /\ s[1].asked => s[1].left[1] # "real" /\ "fopen" \notin found
    BY <1>2 DEF InFopen, Calling
  <2> QED BY <1>5, <2>1 DEF InFopen, Calling
<1>7. ASSUME n = 1, boot = "fopen", InFopen' PROVE f.left[1] # "real" /\ "fopen" \notin found
  <2>1. /\ s[1].asked => s[1].left[1] # "real" /\ "fopen" \notin found
    BY <1>2, <1>7 DEF InFopen, Calling
  <2> QED BY <1>1, <1>5, <1>7, <2>1
<1>8. ForBuffer' => ForBuffer
  <2> SUFFICES ASSUME ForBuffer', NEW k \in 1 .. n, stack[1][k].who = "dlsym"
               PROVE  stack[1][k - 1].fn = "calloc"
    BY <1>1, <1>2 DEF ForBuffer
  <2>1. FrameInv(k)
    BY <1>1 DEF StartInv
  <2>2. k # 1
    BY <2>1 DEF FrameInv
  <2>3. s[k].who = "dlsym" /\ k \in DOMAIN s
    BY <1>1, <1>3
  <2>4. s[k - 1].fn = "calloc"
    BY <2>3 DEF ForBuffer
  <2> QED BY <1>1, <1>3, <2>2, <2>4
<1>9. ForLookup' => ForLookup
  <2> SUFFICES ASSUME ForLookup', NEW k \in 1 .. n, stack[1][k].fn = "calloc"
               PROVE  ~stack[1][k].asked
    BY <1>1, <1>2 DEF ForLookup
  <2>1. s[k].fn = "calloc" /\ k \in DOMAIN s
    BY <1>1, <1>3
  <2>2. ~s[k].asked
    BY <2>1 DEF ForLookup
  <2>3. k # n
    BY <1>1, <1>2, <2>2
  <2> QED BY <1>1, <2>2, <2>3
<1>10. ASSUME h.who = "dlsym", ForBuffer' PROVE f.fn = "calloc"
  <2>1. s[n + 1].who = "dlsym" /\ n + 1 \in DOMAIN s
    BY <1>1, <1>3, <1>10
  <2>2. s[(n + 1) - 1].fn = "calloc"
    BY <1>10, <2>1 DEF ForBuffer
  <2>3. n \in 1 .. n
    <3> HIDE DEF n
    <3> QED BY <1>1
  <2> QED BY <1>1, <1>3, <2>2, <2>3
<1>11. ASSUME f.fn = "calloc", ForLookup' PROVE FALSE
  <2>1. n \in 1 .. n
    <3> HIDE DEF n
    <3> QED BY <1>1
  <2>2. s[n].fn = "calloc" /\ s[n].asked /\ n \in DOMAIN s
    BY <1>1, <1>2, <1>3, <1>11, <2>1
  <2> QED BY <1>11, <2>2 DEF ForLookup
<1> QED BY <1>4, <1>6, <1>7, <1>8, <1>9, <1>10, <1>11

LEMMA AllocatorStages ==
  /\ Stages("malloc") = <<"resolve", "real", "log", "load", "store">>
  /\ Stages("calloc") = <<"check", "real", "log", "load", "store">>
  /\ Stages("free") = <<"resolve", "real", "load", "store", "log">>
  /\ {Stages("malloc"), Stages("calloc"), Stages("free")} \subseteq Seq(AllStages)
<1>1. /\ "malloc" \notin PathFirst /\ "malloc" \notin PathAfter
      /\ "calloc" \notin PathFirst /\ "calloc" \notin PathAfter
      /\ "free" \notin PathFirst /\ "free" \notin PathAfter
  BY FnFacts DEF PathFns
<1>2. Stages("malloc") = <<"resolve", "real", "log", "load", "store">>
  BY <1>1 DEF Stages
<1>3. Stages("calloc") = <<"check", "real", "log", "load", "store">>
  BY <1>1 DEF Stages
<1>4. Stages("free") = <<"resolve", "real", "load", "store", "log">>
  BY <1>1 DEF Stages
<1>5. /\ <<"resolve", "real", "log", "load", "store">> \in Seq(AllStages)
      /\ <<"check", "real", "log", "load", "store">> \in Seq(AllStages)
      /\ <<"resolve", "real", "load", "store", "log">> \in Seq(AllStages)
  BY DEF AllStages
<1> QED BY <1>2, <1>3, <1>4, <1>5

LEMMA CalledStart ==
  ASSUME Kept, Kept', StartInv, stack[1] # <<>>, NEW g, NEW h, Called(g, h),
         \/ h.who = "dlsym" /\ Top(1).fn # "calloc" /\ ForBuffer
         \/ Top(1).fn = "calloc" /\ ForLookup
         \/ /\ Len(stack[1]) = 1 /\ boot = "fopen" /\ InFopen
            /\ Top(1).left[1] = "real" \/ "fopen" \in found
  PROVE  StartInv'
<1> DEFINE n == Len(stack[1])
           s == stack'[1]
           f == Top(1)
           u == Uncounted(stack[1])
           v == Uncounted(s)
           c == ToCome
           d == ToCome'
<1>1. /\ n \in Nat \ {0} /\ DOMAIN stack[1] = 1 .. n /\ f = stack[1][n] /\ s \in Seq(Frames)
      /\ Len(s) = n + 1 /\ s[n + 1] = h
      /\ \A k \in 1 .. n : s[k].left = stack[1][k].left
  BY CalledStack
<1>2. /\ f.left[1] \in {"resolve", "real"} /\ h.left # <<"log">> /\ Others(1)
      /\ UNCHANGED <<boot, calls, call_count>>
  BY DEF Called
<1>3. u = n
  <2>1. f.left # <<"log">>
    <3>1. f.left[1] # "log"
      BY <1>2
    <3> QED BY <3>1
  <2>2. stack[1] \in Seq(Frames)
    BY ThreadsAssumption DEF Kept, Types
  <2> QED BY <1>1, <2>1, <2>2, UncountedIs
<1>4. v = n + 1
  <2>1. Len(s) # 0
    <3>1. n \in Nat /\ Len(s) = n + 1
      BY <1>1
    <3> HIDE DEF n, s
    <3> QED BY <3>1
  <2>2. v = IF s[Len(s)].left = <<"log">> THEN Len(s) - 1 ELSE Len(s)
    BY <1>1, <2>1, UncountedIs
  <2> QED BY <1>1, <1>2, <2>2
<1>5. d + 1 <= c /\ d \in Nat /\ c \in Nat /\ OfLoader' \in Nat
  <2>1. /\ OfLoader' = OfLoader
        /\ InFopen' => InFopen
        /\ ForBuffer' => ForBuffer
        /\ ForLookup' => ForLookup
        /\ \/ ForBuffer /\ ~ForBuffer'
           \/ ForLookup /\ ~ForLookup'
           \/ InFopen /\ ~InFopen'
    BY CalledToCome
  <2>2. OfLoader \in Nat
    BY StartNumbers
  <2>3. /\ One(InFopen) = IF InFopen THEN 1 ELSE 0
        /\ One(ForBuffer) = IF ForBuffer THEN 1 ELSE 0
        /\ One(ForLookup) = IF ForLookup THEN 1 ELSE 0
        /\ One(InFopen)' = IF InFopen' THEN 1 ELSE 0
        /\ One(ForBuffer)' = IF ForBuffer' THEN 1 ELSE 0
        /\ One(ForLookup)' = IF ForLookup' THEN 1 ELSE 0
    BY DEF One
  <2> QED BY <2>1, <2>2, <2>3 DEF ToCome
<1>6. call_count' + Uncounted(stack'[1]) + ToCome' <= Early + 6
  <2>1. call_count \in Nat /\ call_count' = call_count /\ n \in Nat
    BY <1>1, <1>2, StartNumbers
  <2> HIDE DEF u, v, c, d, n, s
  <2>2. call_count' + v + d <= call_count + u + c
    BY <1>3, <1>4, <1>5, <2>1
  <2>3. call_count' + Uncounted(stack'[1]) + ToCome'
          <= call_count + Uncounted(stack[1]) + ToCome
    BY <2>2 DEF u, v, c, d, s
  <2> QED BY <1>5, <2>3, Allowed
<1>7. boot = "dup2" => s # <<>> /\ Calling(s[1])
  <2> SUFFICES ASSUME boot = "dup2" PROVE s # <<>> /\ Calling(s[1])
    OBVIOUS
  <2>1. 1 \in 1 .. n /\ Len(s) # 0
    <3>1. n \in Nat \ {0} /\ Len(s) = n + 1
      BY <1>1
    <3> HIDE DEF n, s
    <3> QED BY <3>1
  <2>2. s # <<>>
    BY <1>1, <2>1, EmptySeq
  <2>3. Calling(stack[1][1])
    BY DEF StartInv
  <2> QED BY <1>1, <2>1, <2>2, <2>3 DEF Calling
<1>8. boot' \in Boots /\ (\A t \in Threads \ {1} : stack'[t] = <<>>)
      /\ calls' \in [Threads -> Nat] /\ calls'[1] <= Early
  BY <1>2 DEF StartInv, Others
<1>9. \A k \in DOMAIN s : FrameInv(k)'
  BY CalledFrames
<1> QED BY <1>2, <1>6, <1>7, <1>8, <1>9 DEF StartInv, Calling

LEMMA DlsymAllocatesStart ==
  ASSUME Kept, Kept', StartInv, DlsymAllocates(1)
  PROVE  StartInv'
<1> DEFINE f == Top(1)
           n == Len(stack[1])
           g == [f EXCEPT !.asked = TRUE]
           h == Frame("calloc", "dlsym", Stages("calloc"), "none")
<1>1. /\ stack[1] # <<>> /\ f \in Frames /\ f.left # <<>> /\ Plan(f) /\ 1 \in Threads
      /\ Head(Left(f)) = "resolve" /\ Passed(f, Head(Left(f)), Tail(Left(f)))
  BY StartStage, ThreadsAssumption DEF DlsymAllocates
<1>2. n \in Nat \ {0} /\ DOMAIN stack[1] = 1 .. n /\ f = stack[1][n] /\ FrameInv(n)
  BY <1>1, TopStart
<1>3. f.left[1] = "resolve"
  BY <1>1 DEF Passed
<1>4. g.fn = f.fn /\ g.who = f.who /\ g.left = f.left /\ g.asked = TRUE /\ g \in Frames
  BY <1>1 DEF Frames
<1>5. /\ h.fn = "calloc" /\ h.who = "dlsym" /\ h.asked = FALSE
      /\ h.left = <<"check", "real", "log", "load", "store">>
  BY AllocatorStages DEF Frame
<1>6. h \in Frames
  <2>1. "calloc" \in Wrappers /\ "none" \in Names
    BY FnFacts DEF Names
  <2>2. Stages("calloc") \in Seq(AllStages)
    BY AllocatorStages
  <2> QED BY <2>1, <2>2 DEF Frame, Frames
<1>7. /\ h.left \in Forms(h.fn) /\ h.left # <<"log">> /\ Calling(h)
  <2> HIDE DEF h
  <2> QED BY <1>5 DEF Forms, Calling
<1>8. /\ stack' = [stack EXCEPT ![1] = Front(@) \o <<g, h>>]
      /\ 1 \notin buffer /\ UNCHANGED <<found, buffer, boot, calls, call_count>>
  BY DEF DlsymAllocates, Nested, kept, outside
<1> HIDE DEF g, h
<1>9. Pushed(1, g, h) /\ Others(1)
  BY <1>1, <1>4, <1>6, <1>8, PushFacts DEF Kept, Types
<1>10. Called(g, h)
  BY <1>3, <1>4, <1>5, <1>7, <1>8, <1>9 DEF Called
<1>11. ASSUME f.fn # "calloc" PROVE ForBuffer
  <2> SUFFICES ASSUME NEW k \in 1 .. n, stack[1][k].who = "dlsym" PROVE FALSE
    BY <1>2, <1>8 DEF ForBuffer
  <2>1. FrameInv(k)
    BY <1>2 DEF StartInv
  <2>2. k # 1 /\ stack[1][k].fn = "calloc"
    BY <2>1 DEF FrameInv
  <2>3. n # 1 /\ n # 2
    <3>1. k # n
      BY <1>2, <1>11, <2>2
    <3> HIDE DEF n
    <3> QED BY <1>2, <2>2, <3>1
  <2>4. f.fn = "calloc"
    BY <1>2, <2>3 DEF FrameInv
  <2> QED BY <1>11, <2>4
<1>12. ASSUME f.fn = "calloc" PROVE ForLookup
  <2>1. "calloc" \notin found
    <3>1. f.left \in Forms("calloc")
      BY <1>2, <1>12 DEF FrameInv
    <3>2. f.left = <<"resolve", "real", "log", "load", "store">>
      <4> HIDE DEF f
      <4> QED BY <1>3, <3>1 DEF Forms
    <3>3. "calloc" \in found => ~Due(f, "resolve")
      BY <1>12, FnFacts DEF Due
    <3>4. Head(f.left) = "resolve" /\ Tail(f.left) = <<"real", "log", "load", "store">>
      <4> HIDE DEF f
      <4> QED BY <3>2
    <3>5. "calloc" \in found => Left(f) = <<"real", "log", "load", "store">>
      BY <3>3, <3>4 DEF Left
    <3>6. Head(<<"real", "log", "load", "store">>) # "resolve"
      OBVIOUS
    <3> QED BY <1>1, <3>5, <3>6
  <2>2. ASSUME NEW k \in 1 .. n, stack[1][k].fn = "calloc", stack[1][k].asked PROVE FALSE
    <3>1. CASE k = n
      BY <1>2, <1>8, <2>2, <3>1 DEF DlsymAllocates
    <3>2. CASE k # n
      <4>1. k < n
        <5> HIDE DEF n
        <5> QED BY <1>2, <3>2
      <4>2. k + 1 = n /\ stack[1][k + 1].left[1] # "resolve"
        BY <1>2, <2>1, <2>2, <4>1, LookupIsLast
      <4> QED BY <1>2, <1>3, <4>2
    <3> QED BY <3>1, <3>2
  <2> QED BY <1>2, <2>1, <2>2 DEF ForLookup
<1> QED BY <1>1, <1>5, <1>10, <1>11, <1>12, CalledStart

LEMMA InsideStart ==
  ASSUME Kept, Kept', StartInv, Inside(1)
  PROVE  StartInv'
<1> DEFINE f == Top(1)
           n == Len(stack[1])
           g == [f EXCEPT !.asked = TRUE]
<1>1. /\ stack[1] # <<>> /\ f \in Frames /\ f.left # <<>> /\ Plan(f) /\ 1 \in Threads
      /\ Head(Left(f)) = "real" /\ Passed(f, Head(Left(f)), Tail(Left(f)))
  BY StartStage, ThreadsAssumption DEF Inside
<1>2. n \in Nat \ {0} /\ DOMAIN stack[1] = 1 .. n /\ f = stack[1][n] /\ FrameInv(n)
  BY <1>1, TopStart
<1>3. f.fn \in Allocating /\ ~f.asked /\ UNCHANGED <<found, buffer, boot, calls, call_count>>
  BY DEF Inside, kept, outside
<1>4. f.fn \notin {"malloc", "calloc", "free", "getenv", "dup2"}
  BY <1>3 DEF Allocating, Stream
<1>5. n = 1 /\ boot = "fopen" /\ f.fn = "fopen"
  <2>1. boot \in Boots
    BY DEF StartInv
  <2> QED BY <1>2, <1>4, <2>1 DEF FrameInv, Boots
<1>6. f.left[1] \in {"resolve", "real"}
  <2>1. f.left \in {<<"resolve", "real", "load", "store">>, <<"real", "load", "store">>,
                    <<"load", "store">>, <<"store">>}
    BY <1>2, <1>5 DEF FrameInv, Forms
  <2>2. f.left[1] \in {"check", "resolve", "real"}
    BY <1>1 DEF Passed
  <2> HIDE DEF f
  <2> QED BY <2>1, <2>2
<1>7. f.left[1] = "real" \/ "fopen" \in found
  <2> SUFFICES ASSUME f.left[1] = "resolve", "fopen" \notin found PROVE FALSE
    BY <1>6
  <2>1. Original(f.fn) = "fopen"
    BY <1>5 DEF Original
  <2>2. Due(f, "resolve")
    BY <2>1 DEF Due
  <2>3. Head(f.left) = "resolve"
    <3>1. f.left \in Seq(AllStages)
      BY <1>1 DEF Frames
    <3> QED BY <1>1, <3>1
  <2>4. Left(f) = f.left
    BY <2>2, <2>3 DEF Left
  <2> QED BY <1>1, <2>3, <2>4
<1>8. InFopen
  BY <1>1, <1>2, <1>3, <1>5, <1>6 DEF InFopen, Calling
<1>9. PICK fn \in {"malloc", "free"} : Nested(1, Frame(fn, "libc", Stages(fn), "none"))
  BY DEF Inside
<1> DEFINE h == Frame(fn, "libc", Stages(fn), "none")
<1>10. g.fn = f.fn /\ g.who = f.who /\ g.left = f.left /\ g.asked = TRUE /\ g \in Frames
  BY <1>1 DEF Frames
<1>11. /\ h.fn = fn /\ h.who = "libc" /\ h.asked = FALSE
       /\ h.left = IF fn = "malloc" THEN <<"resolve", "real", "log", "load", "store">>
                   ELSE <<"resolve", "real", "load", "store", "log">>
  <2>1. h.left = Stages(fn) /\ h.fn = fn /\ h.who = "libc" /\ h.asked = FALSE
    BY DEF Frame
  <2> HIDE DEF h
  <2>2. CASE fn = "malloc"
    BY <2>1, <2>2, AllocatorStages
  <2>3. CASE fn = "free"
    BY <2>1, <2>3, AllocatorStages
  <2> QED BY <2>2, <2>3
<1>12. h \in Frames
  <2>1. fn \in Wrappers /\ "none" \in Names
    BY FnFacts DEF Names
  <2>2. Stages(fn) \in Seq(AllStages)
    BY AllocatorStages
  <2> QED BY <2>1, <2>2 DEF Frame, Frames
<1>13. h.left \in Forms(h.fn) /\ h.left # <<"log">> /\ Calling(h)
  <2> HIDE DEF h
  <2>1. CASE fn = "malloc"
    BY <1>11, <2>1 DEF Forms, Calling
  <2>2. CASE fn = "free"
    BY <1>11, <2>2 DEF Forms, Calling
  <2> QED BY <2>1, <2>2
<1>14. stack' = [stack EXCEPT ![1] = Front(@) \o <<g, h>>]
  BY <1>9 DEF Nested
<1> HIDE DEF g, h
<1>15. Pushed(1, g, h) /\ Others(1)
  BY <1>1, <1>10, <1>12, <1>14, PushFacts DEF Kept, Types
<1>16. Called(g, h)
  BY <1>3, <1>4, <1>5, <1>6, <1>10, <1>11, <1>13, <1>15 DEF Called
<1> QED BY <1>1, <1>5, <1>7, <1>8, <1>16, CalledStart

\* A call of the loader or the constructor has begun.
LEMMA BegunStart ==
  ASSUME Kept, Kept', StartInv, stack[1] = <<>>, NEW h \in Frames, Begin(1, h),
         UNCHANGED <<call_count, found, buffer>>,
         h.left \in Forms(h.fn), h.left # <<"log">>, Calling(h), h.asked = FALSE,
         boot' \in Boots, calls' \in [Threads -> Nat], calls'[1] <= Early,
         IF boot' = "early" THEN h.who = "program" /\ h.fn \in {"malloc", "calloc", "free"}
         ELSE h.who = "monitor" /\ h.fn = boot',
         OfLoader' \in Nat, OfLoader' + 1 <= OfLoader, InFopen' => InFopen
  PROVE  StartInv'
<1> DEFINE s == stack'[1]
           one == <<h>>
           u == Uncounted(stack[1])
           v == Uncounted(s)
           c == ToCome
           d == ToCome'
<1>1. s = one /\ Others(1)
  BY ThreadsAssumption DEF Begin, Others, Kept, Types
<1>2. one \in Seq(Frames) /\ Len(one) = 1 /\ one[1] = h /\ DOMAIN one = {1} /\ one # <<>>
  <2>1. one \in Seq(Frames) /\ Len(one) = 1 /\ one[1] = h /\ DOMAIN one = 1 .. 1 /\ one # <<>>
    OBVIOUS
  <2> QED BY <2>1
<1> HIDE DEF one
<1>3. DOMAIN stack[1] = {}
  <2>1. DOMAIN stack[1] = 1 .. 0
    OBVIOUS
  <2> QED BY <2>1
<1>4. ASSUME NEW k \in DOMAIN s PROVE FrameInv(k)'
  <2>1. k = 1 /\ s[k] = h /\ ~(k < Len(s))
    BY <1>1, <1>2, <1>4
  <2>2. h.who # "dlsym" /\ h.left[1] # "store"
    BY DEF Calling
  <2> QED BY <2>1, <2>2 DEF FrameInv, Calling
<1>5. u = 0 /\ v = 1
  <2>1. v = IF s[Len(s)].left = <<"log">> THEN Len(s) - 1 ELSE Len(s)
    BY <1>1, <1>2, UncountedIs
  <2>2. v = 1
    BY <1>1, <1>2, <2>1
  <2> QED BY <2>2 DEF Uncounted
<1>6. d + 1 <= c /\ c \in Nat /\ d \in Nat
  <2>1. ForBuffer' => ForBuffer
    BY <1>3 DEF ForBuffer
  <2>2. ForLookup' => ForLookup
    BY <1>3 DEF ForLookup
  <2>3. /\ One(InFopen) = IF InFopen THEN 1 ELSE 0
        /\ One(ForBuffer) = IF ForBuffer THEN 1 ELSE 0
        /\ One(ForLookup) = IF ForLookup THEN 1 ELSE 0
        /\ One(InFopen)' = IF InFopen' THEN 1 ELSE 0
        /\ One(ForBuffer)' = IF ForBuffer' THEN 1 ELSE 0
        /\ One(ForLookup)' = IF ForLookup' THEN 1 ELSE 0
    BY DEF One
  <2>4. OfLoader \in Nat /\ OfLoader' \in Nat /\ OfLoader' + 1 <= OfLoader
    BY StartNumbers
  <2>5. /\ One(InFopen) \in {0, 1} /\ One(InFopen)' \in {0, 1}
        /\ One(InFopen)' <= One(InFopen)
    BY <2>3
  <2>6. /\ One(ForBuffer) \in {0, 1} /\ One(ForBuffer)' \in {0, 1}
        /\ One(ForBuffer)' <= One(ForBuffer)
    BY <2>1, <2>3
  <2>7. /\ One(ForLookup) \in {0, 1} /\ One(ForLookup)' \in {0, 1}
        /\ One(ForLookup)' <= One(ForLookup)
    BY <2>2, <2>3
  <2> DEFINE l == OfLoader
             i == One(InFopen)
             b == One(ForBuffer)
             k == One(ForLookup)
             m == OfLoader'
             j == One(InFopen)'
             e == One(ForBuffer)'
             q == One(ForLookup)'
  <2>8. c = l + i + b + k /\ d = m + j + e + q
    BY DEF ToCome
  <2> HIDE DEF l, i, b, k, m, j, e, q, c, d
  <2>9. /\ l \in Nat /\ m \in Nat /\ m + 1 <= l
        /\ {i, j, b, e, k, q} \subseteq {0, 1} /\ j <= i /\ e <= b /\ q <= k
    BY <2>4, <2>5, <2>6, <2>7 DEF l, i, b, k, m, j, e, q
  <2> QED BY <2>8, <2>9
<1>7. call_count' + Uncounted(stack'[1]) + ToCome' <= Early + 6
  <2>1. call_count \in Nat /\ call_count' = call_count
    BY StartNumbers
  <2> HIDE DEF u, v, c, d, s
  <2>2. call_count' + v + d <= call_count + u + c
    BY <1>5, <1>6, <2>1
  <2>3. call_count' + Uncounted(stack'[1]) + ToCome'
          <= call_count + Uncounted(stack[1]) + ToCome
    BY <2>2 DEF u, v, c, d, s
  <2> QED BY <2>3, Allowed
<1>8. \A t \in Threads \ {1} : stack'[t] = <<>>
  BY <1>1 DEF StartInv, Others
<1>9. boot' = "dup2" => s # <<>> /\ Calling(s[1])
  BY <1>1, <1>2
<1> QED BY <1>4, <1>7, <1>8, <1>9 DEF StartInv, Calling

LEMMA EarlyCallStart ==
  ASSUME Kept, Kept', StartInv, EarlyCall
  PROVE  StartInv'
<1>1. /\ boot = "early" /\ stack[1] = <<>> /\ calls[1] < Early
      /\ calls' = [calls EXCEPT ![1] = @ + 1]
      /\ UNCHANGED <<call_count, found, buffer, boot>>
  BY DEF EarlyCall, kept
<1>2. PICK fn \in {"malloc", "calloc", "free"} :
        Begin(1, Frame(fn, "program", Stages(fn), "none"))
  BY DEF EarlyCall
<1> DEFINE h == Frame(fn, "program", Stages(fn), "none")
<1>3. h.left = Stages(fn) /\ h.fn = fn /\ h.who = "program" /\ h.asked = FALSE
  BY DEF Frame
<1>4. h \in Frames
  <2>1. fn \in Wrappers /\ "none" \in Names
    BY FnFacts DEF Names
  <2>2. Stages(fn) \in Seq(AllStages)
    BY AllocatorStages
  <2> QED BY <2>1, <2>2 DEF Frame, Frames
<1>5. h.left \in Forms(h.fn) /\ h.left # <<"log">> /\ Calling(h)
  <2> HIDE DEF h
  <2>1. CASE fn = "malloc"
    BY <1>3, <2>1, AllocatorStages DEF Forms, Calling
  <2>2. CASE fn = "calloc"
    BY <1>3, <2>2, AllocatorStages DEF Forms, Calling
  <2>3. CASE fn = "free"
    BY <1>3, <2>3, AllocatorStages DEF Forms, Calling
  <2> QED BY <2>1, <2>2, <2>3
<1>6. /\ calls' \in [Threads -> Nat] /\ calls'[1] <= Early /\ calls'[1] = calls[1] + 1
      /\ calls[1] \in Nat /\ Early \in Nat
  <2>1. calls \in [Threads -> Nat] /\ 1 \in Threads /\ Early \in Nat
    BY ThreadsAssumption, SizeAssumption DEF StartInv
  <2> QED BY <1>1, <2>1
<1>7. OfLoader' \in Nat /\ OfLoader' + 1 <= OfLoader
  <2>1. OfLoader = Early - calls[1] + 3 /\ OfLoader' = Early - calls'[1] + 3
    BY <1>1 DEF OfLoader
  <2> QED BY <1>6, <2>1
<1>8. InFopen
  BY <1>1 DEF InFopen
<1>9. boot' = "early" /\ boot' \in Boots
  BY <1>1 DEF Boots
<1> HIDE DEF h
<1>10. Begin(1, h)
  BY <1>2 DEF h
<1> QED BY <1>1, <1>3, <1>4, <1>5, <1>6, <1>7, <1>8, <1>9, <1>10, BegunStart

LEMMA InitializetionStart ==
  ASSUME Kept, Kept', StartInv, env = "file", Initializetion
  PROVE  StartInv'
<1>1. /\ stack[1] = <<>> /\ calls' = [t \in Threads |-> 0]
      /\ UNCHANGED <<call_count, found, buffer>>
  BY DEF Initializetion, kept
<1>2. boot # "dup2"
  BY <1>1 DEF StartInv
<1>3. PICK fn \in {"getenv", "fopen", "dup2"} :
        /\ boot' = fn /\ Begin(1, Frame(fn, "monitor", GET_ORIG_RET, "none"))
        /\ \/ boot = "early" /\ fn = "getenv"
           \/ boot = "getenv" /\ fn = "fopen"
           \/ boot = "fopen" /\ fn = "dup2"
  BY <1>2 DEF Initializetion
<1> DEFINE h == Frame(fn, "monitor", GET_ORIG_RET, "none")
<1>4. /\ h.left = <<"resolve", "real", "load", "store">>
      /\ h.fn = fn /\ h.who = "monitor" /\ h.asked = FALSE
  BY DEF Frame, GET_ORIG_RET
<1>5. h \in Frames
  <2>1. fn \in Wrappers /\ "none" \in Names
    BY FnFacts DEF Names
  <2>2. GET_ORIG_RET \in Seq(AllStages)
    BY DEF GET_ORIG_RET, AllStages
  <2> QED BY <2>1, <2>2 DEF Frame, Frames
<1>6. h.left \in Forms(h.fn) /\ h.left # <<"log">> /\ Calling(h)
  <2> HIDE DEF h
  <2> QED BY <1>4 DEF Forms, Calling
<1>7. calls' \in [Threads -> Nat] /\ calls'[1] <= Early /\ calls[1] \in Nat /\ calls[1] <= Early
      /\ Early \in Nat
  BY <1>1, ThreadsAssumption, SizeAssumption DEF StartInv
<1>8. OfLoader' \in Nat /\ OfLoader' + 1 <= OfLoader
  <2>1. CASE boot = "early" /\ fn = "getenv"
    <3>1. OfLoader = Early - calls[1] + 3 /\ OfLoader' = 2
      BY <1>3, <2>1 DEF OfLoader
    <3> QED BY <1>7, <3>1
  <2>2. CASE boot = "getenv" /\ fn = "fopen"
    BY <1>3, <2>2 DEF OfLoader
  <2>3. CASE boot = "fopen" /\ fn = "dup2"
    BY <1>3, <2>3 DEF OfLoader
  <2> QED BY <1>3, <2>1, <2>2, <2>3
<1>9. InFopen' => InFopen
  BY <1>3 DEF InFopen
<1>10. boot' = fn /\ fn # "early" /\ boot' \in Boots
  BY <1>3 DEF Boots
<1> HIDE DEF h
<1>11. Begin(1, h)
  BY <1>3 DEF h
<1> QED BY <1>1, <1>4, <1>5, <1>6, <1>7, <1>8, <1>9, <1>10, <1>11, BegunStart

\* Until descriptor 2 is the file too few calls have been counted for an
\* allocator call to write its line.
LEMMA StartIsQuiet ==
  ASSUME Kept, StartInv, Log(1), Early + 4 <= monitor_MAGIC
  PROVE  last' = NoLine
<1> DEFINE f == Top(1)
           n == Len(stack[1])
           u == Uncounted(stack[1])
<1>1. /\ stack[1] # <<>> /\ f \in Frames /\ f.fn \in {"malloc", "calloc", "free"}
      /\ f.left = <<"log">> => f.fn = "free"
  <2>1. stack[1] # <<>> /\ f \in Frames /\ Passed(f, "log", Tail(Left(f)))
    <3>1. /\ Head(Left(f)) \in {"log"} /\ Passed(f, Head(Left(f)), Tail(Left(f)))
          /\ stack[1] # <<>> /\ f \in Frames
      BY StartStage DEF Log
    <3> QED BY <3>1
  <2> QED BY <2>1 DEF Passed
<1>2. n \in Nat \ {0} /\ f = stack[1][n] /\ FrameInv(n)
  BY <1>1, TopStart
<1>3. u = IF f.left = <<"log">> THEN n - 1 ELSE n
  <2>1. stack[1] \in Seq(Frames)
    BY ThreadsAssumption DEF Kept, Types
  <2> QED BY <1>2, <2>1, UncountedIs
<1>4. /\ call_count \in Nat /\ Early \in Nat /\ calls[1] \in Nat /\ calls[1] <= Early
      /\ OfLoader \in Nat /\ u \in Nat /\ ToCome \in Nat
      /\ call_count + u + ToCome <= Early + 6 /\ monitor_MAGIC \in Nat
  BY StartNumbers, SizeAssumption DEF StartInv
<1>5. ToCome >= OfLoader
  <2>1. One(InFopen) \in Nat /\ One(ForBuffer) \in Nat /\ One(ForLookup) \in Nat
    BY DEF One
  <2> QED BY <1>4, <2>1 DEF ToCome
<1>6. u + OfLoader >= 2
  <2>1. CASE boot = "early"
    <3>1. OfLoader = Early - calls[1] + 3
      BY <2>1 DEF OfLoader
    <3> HIDE DEF u
    <3> QED BY <1>4, <3>1
  <2>2. CASE boot = "getenv"
    <3>1. OfLoader = 2
      BY <2>2 DEF OfLoader
    <3> HIDE DEF u
    <3> QED BY <1>4, <3>1
  <2>3. CASE boot = "fopen"
    <3>1. OfLoader = 1 /\ n # 1
      BY <1>1, <1>2, <2>3 DEF OfLoader, FrameInv
    <3> HIDE DEF u, n
    <3> QED BY <1>2, <1>3, <3>1
  <2>4. CASE boot = "dup2"
    <3>1. n # 1 /\ f.fn = "calloc"
      BY <1>1, <1>2, <2>4 DEF FrameInv
    <3>2. f.left # <<"log">>
      BY <1>1, <3>1
    <3> HIDE DEF u, n, f
    <3> QED BY <1>2, <1>3, <1>4, <3>1, <3>2
  <2> QED BY <2>1, <2>2, <2>3, <2>4 DEF StartInv, Boots
<1>7. ~(call_count > monitor_MAGIC)
  <2> HIDE DEF u
  <2> QED BY <1>4, <1>5, <1>6
<1>8. ~Loud(f.fn)
  BY <1>1, <1>7 DEF Loud, Quiet
<1> QED BY <1>8 DEF Log

\* Until descriptor 2 is the file, StartInv; and what has to be shown.
LogInv == (Starting => StartInv) /\ LogGoesToOutput

LEMMA LogInit == Init => LogInv
<1> SUFFICES ASSUME Init PROVE LogInv
  OBVIOUS
<1>1. LogGoesToOutput
  BY DEF Init, LogGoesToOutput, NoLine
<1>2. /\ 1 \in Threads /\ boot = "early" /\ stack = [t \in Threads |-> <<>>]
      /\ calls = [t \in Threads |-> 0] /\ call_count = 0 /\ Early \in Nat
  BY ThreadsAssumption, SizeAssumption DEF Init
<1>3. stack[1] = <<>> /\ DOMAIN stack[1] = {}
  <2>1. stack[1] = <<>> /\ DOMAIN stack[1] = 1 .. 0
    BY <1>2
  <2> QED BY <2>1
<1>4. ToCome <= Early + 6 /\ ToCome \in Nat
  <2>1. OfLoader = Early + 3
    BY <1>2 DEF OfLoader
  <2>2. One(InFopen) \in {0, 1} /\ One(ForBuffer) \in {0, 1} /\ One(ForLookup) \in {0, 1}
    BY DEF One
  <2> QED BY <1>2, <2>1, <2>2 DEF ToCome
<1>5. call_count + Uncounted(stack[1]) + ToCome <= Early + 6
  BY <1>2, <1>3, <1>4 DEF Uncounted
<1> QED BY <1>1, <1>2, <1>3, <1>5 DEF LogInv, StartInv, Boots

\* Only the thread that starts up runs, and it does what the lemmas above say.
LEMMA ThreadStart ==
  ASSUME Kept, Kept', StartInv, NEW t \in Threads, Thread(t), stderr' = "terminal"
  PROVE  StartInv'
<1>1. stack[t] # <<>>
  BY DEF Thread, Check, Resolve, DlsymAllocates, Inside, Real, Load, Store, Path, Finalize,
         End, At
<1>2. t = 1
  BY <1>1 DEF StartInv
<1>3. ~Path(1) /\ ~Finalize(1) /\ ~End(1)
  <2>1. ~At(1, {"path"}) /\ ~At(1, {"finalize"}) /\ ~At(1, {"end"})
    BY StartStage
  <2> QED BY <2>1 DEF Path, Finalize, End
<1>4. \/ Check(1) \/ Resolve(1) \/ DlsymAllocates(1) \/ Inside(1) \/ Real(1)
      \/ Load(1) \/ Store(1)
  BY <1>2, <1>3 DEF Thread
<1> QED BY <1>4, CheckStart, ResolveStart, DlsymAllocatesStart, InsideStart, RealStart,
           LoadStart, StoreStart

LEMMA LogNext == MonitorInv /\ MonitorInv' /\ LogInv /\ [Next]_vars => LogInv'
<1> SUFFICES ASSUME MonitorInv, MonitorInv', LogInv, [Next]_vars PROVE LogInv'
  OBVIOUS
<1>0. Kept /\ Kept' /\ (Starting => StartInv) /\ LogGoesToOutput
  BY DEF MonitorInv, LogInv
<1>1. ASSUME last' = NoLine PROVE LogGoesToOutput'
  BY <1>1 DEF LogGoesToOutput, NoLine
<1>2. ASSUME NEW t \in Threads, Log(t), env' = env PROVE LogInv'
  <2>1. stderr' = stderr
    BY <1>2 DEF Log, outside
  <2>2. CASE ~Starting
    <3>1. last' = NoLine \/ last'.to = stderr
      BY <1>2 DEF Log
    <3>2. LogGoesToOutput'
      BY <1>1, <1>2, <2>2, <3>1 DEF LogGoesToOutput, Starting
    <3> QED BY <1>2, <2>1, <2>2, <3>2 DEF LogInv, Starting
  <2>3. CASE Starting
    <3>1. StartInv
      BY <1>0, <2>3
    <3>2. t = 1
      BY <1>2, <3>1 DEF StartInv, Log, At
    <3>3. StartInv'
      BY <1>0, <1>2, <3>1, <3>2, LogStart
    <3>4. Early + 4 <= monitor_MAGIC => last' = NoLine
      BY <1>0, <1>2, <3>1, <3>2, StartIsQuiet
    <3>5. LogGoesToOutput'
      BY <3>4 DEF LogGoesToOutput, NoLine
    <3> QED BY <3>3, <3>5 DEF LogInv
  <2> QED BY <2>2, <2>3
<1>3. ASSUME last' = NoLine, env' = env,
             EarlyCall \/ Initializetion \/ Return \/ \E t \in Threads : Call(t) \/ Thread(t)
      PROVE  LogInv'
  <2>1. ASSUME Starting' PROVE StartInv'
    <3>1. stderr = "terminal"
      <4>1. stderr' = stderr \/ stderr' = "file"
        BY <1>3 DEF EarlyCall, Initializetion, Return, Call, Thread, Check, Resolve,
                    DlsymAllocates, Inside, Real, Load, Store, Path, Finalize, End, outside
      <4> QED BY <2>1, <4>1 DEF Starting
    <3>2. StartInv /\ env = "file" /\ stderr' = "terminal"
      BY <1>0, <1>3, <2>1, <3>1 DEF Starting
    <3>3. boot # "main"
      BY <3>2 DEF StartInv, Boots
    <3>4. CASE EarlyCall
      BY <1>0, <3>2, <3>4, EarlyCallStart
    <3>5. CASE Initializetion
      BY <1>0, <3>2, <3>5, InitializetionStart
    <3>6. CASE Return
      BY <3>3, <3>6 DEF Return
    <3>7. ASSUME NEW t \in Threads, Call(t) PROVE StartInv'
      BY <3>3, <3>7 DEF Call
    <3>8. ASSUME NEW t \in Threads, Thread(t) PROVE StartInv'
      BY <1>0, <3>2, <3>8, ThreadStart
    <3> QED BY <1>3, <3>4, <3>5, <3>6, <3>7, <3>8
  <2> QED BY <1>1, <1>3, <2>1 DEF LogInv
<1>4. CASE UNCHANGED vars
  <2>1. UNCHANGED <<env, stack, found, temporary, call_count, fname, stderr, boot, buffer,
                    calls, last>>
    BY <1>4 DEF vars, kept, outside
  <2>2. LogGoesToOutput'
    BY <1>0, <2>1 DEF LogGoesToOutput
  <2>3. Starting' => Starting
    BY <2>1 DEF Starting
  <2>4. StartInv => StartInv'
    BY <2>1 DEF StartInv, FrameInv, Calling, Uncounted, ToCome, OfLoader, InFopen,
                ForBuffer, ForLookup, One
  <2> QED BY <1>0, <2>2, <2>3, <2>4 DEF LogInv
<1> QED BY <1>2, <1>3, <1>4 DEF Next

\* With MONITOR_OUTPUT a file no line goes to the terminal (inject.c:197), for
\* any number of threads and whatever they call, if the other libraries make
\* few enough allocator calls before the constructor runs.
THEOREM LogIsInItsFile == Spec => []LogGoesToOutput
<1>1. MonitorInv /\ LogInv /\ [Next]_vars => (MonitorInv /\ LogInv)'
  BY MonitorNext, LogNext
<1>2. LogInv => LogGoesToOutput
  BY DEF LogInv
<1> QED BY <1>1, <1>2, MonitorInit, LogInit, PTL DEF Spec
=============================================================================
