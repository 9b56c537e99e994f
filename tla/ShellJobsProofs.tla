-------------------------- MODULE ShellJobsProofs --------------------------
(***************************************************************************)
(* Proofs about ShellJobs.tla for every set of lines, every set of pids and *)
(* every length of PGs_cmd.                                                 *)
(***************************************************************************)
EXTENDS ShellJobs, SequenceTheorems, TLAPS

-----------------------------------------------------------------------------
(* The stacks.                                                              *)

LEMMA FrontIs ==
  ASSUME NEW S, NEW s \in Seq(S)
  PROVE  /\ Front(s) \in Seq(S)
         /\ Len(s) \in Nat
         /\ Len(Front(s)) = IF Len(s) > 0 THEN Len(s) - 1 ELSE 0
         /\ \A i \in 1 .. Len(Front(s)) : Front(s)[i] = s[i]
<1>1. Len(s) \in Nat /\ \A i \in 1 .. Len(s) - 1 : s[i] \in S
  BY LenProperties, ElementOfSeq
<1>2. /\ SubSeq(s, 1, Len(s) - 1) \in Seq(S)
      /\ Len(SubSeq(s, 1, Len(s) - 1)) =
           IF 1 <= Len(s) - 1 THEN (Len(s) - 1) - 1 + 1 ELSE 0
      /\ \A i \in 1 .. (Len(s) - 1) - 1 + 1 : SubSeq(s, 1, Len(s) - 1)[i] = s[1 + i - 1]
  BY <1>1, SubSeqProperties
<1> QED BY <1>1, <1>2 DEF Front

LEMMA LastIs ==
  ASSUME NEW S, NEW s \in Seq(S), s # <<>>
  PROVE  /\ Len(s) \in Nat \ {0}
         /\ Last(s) \in S
         /\ Last(s) = s[Len(s)]
BY EmptySeq, ElementOfSeq DEF Last

LEMMA NotEmpty ==
  ASSUME NEW S, NEW s \in Seq(S), s # <<>>
  PROVE  Len(s) \in Nat /\ Len(s) > 0
BY EmptySeq

LEMMA AppendIs ==
  ASSUME NEW S, NEW s \in Seq(S), NEW e \in S
  PROVE  /\ Append(s, e) \in Seq(S)
         /\ Append(s, e) # <<>>
         /\ Len(s) \in Nat
         /\ Len(Append(s, e)) = Len(s) + 1
         /\ \A i \in 1 .. Len(s) : Append(s, e)[i] = s[i]
         /\ Append(s, e)[Len(s) + 1] = e
         /\ Last(Append(s, e)) = e
BY AppendProperties, LenProperties DEF Last

-----------------------------------------------------------------------------
(* The inductive invariants.                                                *)

Started(p) == p \in Children /\ proc[p].life # "none"

(* The shell's own entry stays at the bottom until it is popped, the other  *)
(* entries are children that have been forked, and the locals of run and    *)
(* sub_command are in range where they are used.                            *)
Place ==
  /\ shellPc # "lost" => PGs_table # <<>>
  /\ PGs_table # <<>> => PGs_table[1] = Shell
  /\ shellPc \in {"stage", "fgwait"} => local.idx \in 1 .. Len(line.cmds)
  /\ shellPc \in {"give", "wait", "back"} => local.pid \in Children

Types == TypeOK /\ Place

Group == {Shell} \cup Children
Tables == Seq(Group)
Counts == Seq(Seq(Pids))
Typed == Lines \cup {Empty}

LEMMA PidFacts ==
  /\ Children \subseteq Nat
  /\ Init_pid \notin Children /\ Shell \notin Children /\ 0 \notin Children
BY ChildrenAssumption DEF Init_pid, Shell

LEMMA EmptyLine ==
  Empty.cmds = <<"null">> /\ Empty.in = FALSE /\ Empty.amp = FALSE
BY DEF Empty

LEMMA LineFacts ==
  ASSUME NEW l \in Typed
  PROVE  Len(l.cmds) \in Nat /\ Len(l.cmds) >= 1
<1>1. CASE l \in Lines
  BY <1>1, LinesAssumption, NotEmpty
<1>2. CASE l = Empty
  BY <1>2, EmptyLine
<1> QED BY <1>1, <1>2 DEF Typed

\* What TypeOK says, with the names used below.
LEMMA TypesOf ==
  ASSUME TypeOK
  PROVE  /\ PGs_table \in Tables
         /\ PGs_count \in Counts /\ Len(PGs_count) = Len(PGs_table)
         /\ PGs_cmd \in Seq(Typed)
         /\ stdio \in [in : {"tty", "file"}, out : {"tty", "file"}]
         /\ tty \in Group
         /\ proc \in [Children -> Proc]
         /\ line \in Typed
         /\ local.idx \in Nat /\ local.pid \in {0} \cup Children
         /\ local.w \in Nat
BY DEF TypeOK, Tables, Counts, Typed, Group

LEMMA TypesInit == Init => Types
<1> SUFFICES ASSUME Init
             PROVE  Types
  OBVIOUS
<1> USE DEF Init
<1>1. <<Shell>> \in Tables /\ Len(<<Shell>>) = 1 /\ <<Shell>>[1] = Shell
  BY DEF Tables, Group
<1>2. <<<<Init_pid>>>> \in Counts /\ Len(<<<<Init_pid>>>>) = 1
  BY DEF Counts, Pids
<1>3. NoProc \in Proc
  BY DEF NoProc, Proc
<1>4. TypeOK
  BY <1>1, <1>2, <1>3 DEF TypeOK, Tables, Counts, Group, NoLocal, Shell
<1>5. Place
  BY <1>1 DEF Place
<1> QED BY <1>4, <1>5 DEF Types

-----------------------------------------------------------------------------
(* What a step does to the children.                                        *)

\* No step forgets or renames a process, or what it was forked for.
Kept ==
  /\ proc' \in [Children -> Proc]
  /\ \A p \in Children : proc[p].life # "none" =>
       /\ proc'[p].life # "none"
       /\ proc'[p].job = proc[p].job
       /\ proc'[p].line = proc[p].line

StoppedLive == \A p \in Children : proc[p].stopped => Live(p)

LEMMA ProcFields ==
  ASSUME NEW r \in Proc
  PROVE  /\ r.life \in {"none", "born", "ready", "run", "zombie", "reaped"}
         /\ r.pgid \in {0} \cup Group /\ r.job \in {0} \cup Group
         /\ r.line \in Typed /\ r.masked \in BOOLEAN /\ r.table \in Tables
         /\ r.stopped \in BOOLEAN /\ r.sigint \in BOOLEAN
BY DEF Proc, Group, Typed, Tables

LEMMA SameProc ==
  ASSUME TypeOK, UNCHANGED proc
  PROVE  Kept /\ (StoppedLive => StoppedLive')
BY TypesOf DEF Kept, StoppedLive, Live

LEMMA ContinueKept ==
  ASSUME TypeOK, NEW g \in Group, proc' = Continue(g)
  PROVE  /\ Kept
         /\ StoppedLive => StoppedLive'
         /\ \A p \in Children :
              /\ proc'[p].life = proc[p].life /\ proc'[p].pgid = proc[p].pgid
              /\ proc'[p].stopped = (proc[p].stopped /\ p \notin Members(g))
<1>1. proc \in [Children -> Proc]
  BY TypesOf
<1>2. ASSUME NEW p \in Children
      PROVE  /\ proc'[p] \in Proc
             /\ proc'[p].life = proc[p].life /\ proc'[p].pgid = proc[p].pgid
             /\ proc'[p].job = proc[p].job /\ proc'[p].line = proc[p].line
             /\ proc'[p].stopped = (proc[p].stopped /\ p \notin Members(g))
  <2>1. proc[p] \in Proc /\ proc[p].stopped \in BOOLEAN
    BY <1>1, ProcFields
  <2>2. CASE p \in Members(g)
    <3>1. proc'[p] = [proc[p] EXCEPT !.stopped = FALSE]
      BY <2>2 DEF Continue
    <3> QED BY <2>1, <2>2, <3>1 DEF Proc
  <2>3. CASE p \notin Members(g)
    <3>1. proc'[p] = proc[p]
      BY <2>3 DEF Continue
    <3> QED BY <2>1, <2>3, <3>1
  <2> QED BY <2>2, <2>3
<1>3. proc' \in [Children -> Proc]
  <2>1. \E f : proc' = [p \in Children |-> f[p]]
    <3>1. proc' = [p \in Children |->
             [p1 \in Children |-> IF p1 \in Members(g)
                      THEN [proc[p1] EXCEPT !.stopped = FALSE] ELSE proc[p1]][p]]
      BY DEF Continue
    <3> QED BY <3>1
  <2> QED BY <1>2, <2>1
<1> QED BY <1>2, <1>3 DEF Kept, StoppedLive, Live

LEMMA ReapKept ==
  ASSUME TypeOK, NEW p \in Children, Reap(p), proc[p].life = "zombie"
  PROVE  /\ Kept
         /\ StoppedLive => StoppedLive'
         /\ proc'[p].life = "reaped" /\ proc'[p].pgid = 0
         /\ \A q \in Children : q # p => proc'[q] = proc[q]
<1>1. proc \in [Children -> Proc] /\ proc[p] \in Proc
  BY TypesOf
<1>2. proc' = [proc EXCEPT ![p] = [proc[p] EXCEPT !.life = "reaped", !.pgid = 0]]
  BY <1>1 DEF Reap
<1>3. /\ [proc[p] EXCEPT !.life = "reaped", !.pgid = 0] \in Proc
      /\ proc'[p] = [proc[p] EXCEPT !.life = "reaped", !.pgid = 0]
  BY <1>1, <1>2 DEF Proc
<1>4. /\ proc'[p].life = "reaped" /\ proc'[p].pgid = 0
      /\ proc'[p].job = proc[p].job /\ proc'[p].line = proc[p].line
      /\ proc'[p].stopped = proc[p].stopped
  BY <1>1, <1>3 DEF Proc
<1>5. \A q \in Children : q # p => proc'[q] = proc[q]
  BY <1>1, <1>2
<1>6. proc' \in [Children -> Proc]
  BY <1>1, <1>2, <1>3
<1> QED BY <1>4, <1>5, <1>6 DEF Kept, StoppedLive, Live

\* A process that has joined its job and was forked for itself leads a group
\* of its own.
OwnGroups ==
  \A p \in Children :
    proc[p].life \in {"ready", "run"} /\ proc[p].job = p => proc[p].pgid = p

\* What a step of the children leaves alone.
Quiet ==
  \A p \in Children :
    /\ proc'[p].stopped = proc[p].stopped
    /\ proc[p].stopped => proc'[p].pgid = proc[p].pgid
    /\ proc[p].life = "reaped" => proc'[p].life = "reaped"
    /\ proc[p].life = "none" => proc'[p].life = "none"

LEMMA OneProc ==
  ASSUME TypeOK, NEW p \in Children, NEW r \in Proc,
         proc' = [proc EXCEPT ![p] = r],
         proc[p].life # "none" =>
           r.life # "none" /\ r.job = proc[p].job /\ r.line = proc[p].line,
         r.stopped => r.life \in {"born", "ready", "run"}
  PROVE  /\ Kept
         /\ StoppedLive => StoppedLive'
         /\ proc'[p] = r
         /\ \A q \in Children : q # p => proc'[q] = proc[q]
<1>1. proc \in [Children -> Proc]
  BY TypesOf
<1>2. proc'[p] = r /\ \A q \in Children : q # p => proc'[q] = proc[q]
  BY <1>1
<1>3. proc' \in [Children -> Proc]
  BY <1>1
<1> QED BY <1>2, <1>3 DEF Kept, StoppedLive, Live

LEMMA JoinKept ==
  ASSUME TypeOK, StoppedLive, NEW p \in Children, ChildJoin(p)
  PROVE  Kept /\ StoppedLive' /\ Quiet /\ (OwnGroups => OwnGroups')
<1>1. proc \in [Children -> Proc] /\ proc[p] \in Proc
  BY TypesOf
<1>2. proc[p].life = "born" /\ ~proc[p].stopped
  BY DEF ChildJoin
<1>3. PICK pgid \in {0} \cup Group :
        /\ proc' = [proc EXCEPT ![p].life = "ready", ![p].pgid = pgid]
        /\ proc[p].job = p => pgid = p
  <2> DEFINE first == proc[p].job = p
             target == IF first THEN p
                       ELSE IF proc[p].table = <<>> THEN Shell ELSE Last(proc[p].table)
  <2>1. proc[p].table \in Tables
    BY <1>1, ProcFields
  <2>2. target \in Group
    BY <2>1, LastIs DEF Group, Tables
  <2>3. proc' = [proc EXCEPT ![p].life = "ready",
                             ![p].pgid = IF first \/ GroupExists(target)
                                         THEN target ELSE proc[p].pgid]
    BY <1>1 DEF ChildJoin
  <2> DEFINE pgid == IF first \/ GroupExists(target) THEN target ELSE proc[p].pgid
  <2>4. proc[p].job = p => pgid = p
    OBVIOUS
  <2>5. pgid \in {0} \cup Group
    BY <1>1, <2>2, ProcFields
  <2> HIDE DEF target
  <2> QED BY <2>2, <2>3, <2>4, <2>5
<1> DEFINE r == [proc[p] EXCEPT !.life = "ready", !.pgid = pgid]
<1>4. proc' = [proc EXCEPT ![p] = r]
  BY <1>1, <1>3
<1>5. /\ r \in Proc /\ r.life = "ready" /\ r.pgid = pgid /\ r.job = proc[p].job
      /\ r.line = proc[p].line /\ r.stopped = proc[p].stopped
  BY <1>1, <1>3 DEF Proc, Group
<1> HIDE DEF r
<1>6. /\ Kept /\ StoppedLive' /\ proc'[p] = r
      /\ \A q \in Children : q # p => proc'[q] = proc[q]
  BY <1>4, <1>5, OneProc
<1>7. Quiet
  BY <1>2, <1>5, <1>6 DEF Quiet
<1>8. OwnGroups => OwnGroups'
  BY <1>3, <1>5, <1>6 DEF OwnGroups
<1> QED BY <1>6, <1>7, <1>8

LEMMA ExecKept ==
  ASSUME TypeOK, StoppedLive, NEW p \in Children, ChildExec(p)
  PROVE  Kept /\ StoppedLive' /\ Quiet /\ (OwnGroups => OwnGroups')
<1>1. proc \in [Children -> Proc] /\ proc[p] \in Proc
  BY TypesOf
<1>2. proc[p].life = "ready" /\ ~proc[p].stopped
  BY DEF ChildExec
<1> DEFINE r == [proc[p] EXCEPT !.life = "run", !.masked = FALSE, !.table = <<>>]
<1>3. proc' = [proc EXCEPT ![p] = r]
  BY <1>1 DEF ChildExec
<1>4. <<>> \in Seq({Shell} \cup Children)
  BY EmptySeq
<1>5. /\ r \in Proc /\ r.life = "run" /\ r.pgid = proc[p].pgid
      /\ r.job = proc[p].job /\ r.line = proc[p].line
      /\ r.stopped = proc[p].stopped
  BY <1>1, <1>4 DEF Proc
<1> HIDE DEF r
<1>6. /\ Kept /\ StoppedLive' /\ proc'[p] = r
      /\ \A q \in Children : q # p => proc'[q] = proc[q]
  BY <1>2, <1>3, <1>5, OneProc
<1>7. Quiet
  BY <1>2, <1>5, <1>6 DEF Quiet
<1>8. OwnGroups => OwnGroups'
  BY <1>2, <1>5, <1>6 DEF OwnGroups
<1> QED BY <1>6, <1>7, <1>8

LEMMA EndKept ==
  ASSUME TypeOK, StoppedLive, NEW p \in Children, ChildEnd(p)
  PROVE  Kept /\ StoppedLive' /\ Quiet /\ (OwnGroups => OwnGroups')
<1>1. proc \in [Children -> Proc] /\ proc[p] \in Proc
  BY TypesOf
<1>2. proc[p].life = "run" /\ ~proc[p].stopped
  BY DEF ChildEnd
<1> DEFINE r == [proc[p] EXCEPT !.life = "zombie", !.sigint = FALSE]
<1>3. proc' = [proc EXCEPT ![p] = r]
  BY <1>1 DEF ChildEnd
<1>4. /\ r \in Proc /\ r.life = "zombie" /\ r.pgid = proc[p].pgid
      /\ r.job = proc[p].job /\ r.line = proc[p].line
      /\ r.stopped = proc[p].stopped
  BY <1>1 DEF Proc
<1> HIDE DEF r
<1>5. /\ Kept /\ StoppedLive' /\ proc'[p] = r
      /\ \A q \in Children : q # p => proc'[q] = proc[q]
  BY <1>2, <1>3, <1>4, OneProc
<1>6. Quiet
  BY <1>2, <1>4, <1>5 DEF Quiet
<1>7. OwnGroups => OwnGroups'
  BY <1>4, <1>5 DEF OwnGroups
<1> QED BY <1>5, <1>6, <1>7

LEMMA HandleKept ==
  ASSUME TypeOK, StoppedLive, NEW p \in Children, ChildHandle(p)
  PROVE  Kept /\ StoppedLive' /\ Quiet /\ (OwnGroups => OwnGroups')
<1>1. proc \in [Children -> Proc] /\ proc[p] \in Proc
  BY TypesOf
<1>2. proc[p].life \in {"born", "ready"} /\ ~proc[p].stopped
  BY DEF ChildHandle
<1>3. CASE proc[p].table = <<>>
  <2>1. PICK life \in {proc[p].life, "zombie"} :
          proc' = [proc EXCEPT ![p].sigint = FALSE, ![p].life = life]
    BY <1>3 DEF ChildHandle
  <2> DEFINE r == [proc[p] EXCEPT !.sigint = FALSE, !.life = life]
  <2>2. proc' = [proc EXCEPT ![p] = r]
    BY <1>1, <2>1
  <2>3. /\ r \in Proc /\ r.life = life /\ r.pgid = proc[p].pgid
        /\ r.job = proc[p].job /\ r.line = proc[p].line
        /\ r.stopped = proc[p].stopped
    BY <1>1, <1>2 DEF Proc
  <2> HIDE DEF r
  <2>4. /\ Kept /\ StoppedLive' /\ proc'[p] = r
        /\ \A q \in Children : q # p => proc'[q] = proc[q]
    BY <1>2, <2>2, <2>3, OneProc
  <2>5. Quiet
    BY <1>2, <2>3, <2>4 DEF Quiet
  <2>6. OwnGroups => OwnGroups'
    BY <2>3, <2>4 DEF OwnGroups
  <2> QED BY <2>4, <2>5, <2>6
<1>4. CASE proc[p].table # <<>>
  <2> DEFINE sigint(q) == \/ q \in Members(Last(proc[p].table))
                          \/ q # p /\ proc[q].sigint
             table(q) == IF q = p THEN Front(proc[q].table) ELSE proc[q].table
             r(q) == [proc[q] EXCEPT !.sigint = sigint(q), !.table = table(q)]
  <2>1. proc' = [q \in Children |-> r(q)]
    BY <1>4 DEF ChildHandle
  <2>2. ASSUME NEW q \in Children
        PROVE  /\ r(q) \in Proc /\ r(q).life = proc[q].life
               /\ r(q).pgid = proc[q].pgid /\ r(q).job = proc[q].job
               /\ r(q).line = proc[q].line /\ r(q).stopped = proc[q].stopped
    <3>1. proc[q] \in Proc /\ proc[q].sigint \in BOOLEAN /\ proc[q].table \in Tables
      BY <1>1, ProcFields
    <3>2. table(q) \in Tables
      BY <3>1, FrontIs DEF Tables
    <3>3. sigint(q) \in BOOLEAN
      BY <3>1, Zenon
    <3> HIDE DEF table, sigint
    <3> QED BY <3>1, <3>2, <3>3 DEF Proc, Tables, Group
  <2> HIDE DEF r
  <2>3. proc' \in [Children -> Proc] /\ \A q \in Children : proc'[q] = r(q)
    BY <2>1, <2>2
  <2> QED BY <2>2, <2>3 DEF Kept, StoppedLive, Live, Quiet, OwnGroups
<1> QED BY <1>3, <1>4

\* A signal from the keyboard.
LEMMA KeyKept ==
  ASSUME TypeOK, StoppedLive, PressInt \/ PressStop
  PROVE  /\ Kept /\ StoppedLive' /\ (OwnGroups => OwnGroups')
         /\ \A p \in Children :
              /\ proc'[p].life = proc[p].life /\ proc'[p].pgid = proc[p].pgid
              /\ proc'[p].stopped => proc[p].stopped \/ p \in Members(tty)
<1>1. proc \in [Children -> Proc]
  BY TypesOf
<1> DEFINE Hit(q) == IF PressInt THEN [proc[q] EXCEPT !.sigint = TRUE]
                     ELSE [proc[q] EXCEPT !.stopped = TRUE]
           r(q) == IF q \in Members(tty) THEN Hit(q) ELSE proc[q]
<1>2. proc' = [q \in Children |-> r(q)]
  <2>1. CASE PressInt
    BY <2>1 DEF PressInt
  <2>2. CASE ~PressInt
    BY <2>2 DEF PressStop
  <2> QED BY <2>1, <2>2
<1>3. ASSUME NEW q \in Children
      PROVE  /\ r(q) \in Proc /\ r(q).life = proc[q].life
             /\ r(q).pgid = proc[q].pgid /\ r(q).job = proc[q].job
             /\ r(q).line = proc[q].line
             /\ r(q).stopped => proc[q].stopped \/ q \in Members(tty)
  <2>1. proc[q] \in Proc
    BY <1>1
  <2>2. CASE q \notin Members(tty)
    BY <2>1, <2>2
  <2>3. CASE q \in Members(tty) /\ PressInt
    <3>1. r(q) = [proc[q] EXCEPT !.sigint = TRUE]
      BY <2>3
    <3> HIDE DEF r, Hit
    <3> QED BY <2>1, <2>3, <3>1 DEF Proc
  <2>4. CASE q \in Members(tty) /\ ~PressInt
    <3>1. r(q) = [proc[q] EXCEPT !.stopped = TRUE]
      BY <2>4
    <3> HIDE DEF r, Hit
    <3> QED BY <2>1, <2>4, <3>1 DEF Proc
  <2> HIDE DEF r, Hit
  <2> QED BY <2>2, <2>3, <2>4
<1> HIDE DEF r, Hit
<1>4. proc' \in [Children -> Proc] /\ \A q \in Children : proc'[q] = r(q)
  BY <1>2, <1>3
<1>5. Kept
  BY <1>3, <1>4 DEF Kept
<1>6. OwnGroups => OwnGroups'
  BY <1>3, <1>4 DEF OwnGroups
<1>7. StoppedLive'
  BY <1>3, <1>4 DEF StoppedLive, Live, Members
<1> QED BY <1>3, <1>4, <1>5, <1>6, <1>7

\* What fork() and the bookkeeping after it do, in the words of the invariants.
ForkOf(p) ==
  /\ proc[p].life = "none"
  /\ proc'[p].life = "born" /\ proc'[p].line = line
  /\ proc'[p].job = IF local.idx = 1 THEN p ELSE Last(PGs_table)
  /\ proc'[p].stopped = FALSE /\ proc'[p].pgid = Shell
  /\ \A q \in Children : q # p => proc'[q] = proc[q]
  /\ IF local.idx = 1
     THEN /\ PGs_table' = Append(PGs_table, p)
          /\ PGs_count' = Append(PGs_count, <<Init_pid>>)
     ELSE /\ PGs_table' = PGs_table
          /\ PGs_count' = [PGs_count EXCEPT ![Len(PGs_count)] =
                             Append(PGs_count[Len(PGs_count)], p)]
  /\ IF local.idx = Len(line.cmds)
     THEN /\ local' = [local EXCEPT !.pid = p]
          /\ shellPc' = IF line.amp THEN "back" ELSE "give"
     ELSE local' = [local EXCEPT !.idx = local.idx + 1] /\ shellPc' = shellPc
  /\ UNCHANGED <<PGs_cmd, stdio, tty, line>>

LEMMA ForkKept ==
  ASSUME Types, StoppedLive, Fork
  PROVE  /\ Kept /\ StoppedLive' /\ (OwnGroups => OwnGroups')
         /\ \E p \in Children : ForkOf(p)
<1>1. proc \in [Children -> Proc] /\ PGs_table \in Tables /\ line \in Typed
  BY TypesOf DEF Types
<1>2. shellPc = "stage" /\ PGs_table # <<>>
  BY DEF Fork, Types, Place
<1>3. PICK p \in Free :
       /\ proc' = [proc EXCEPT ![p] =
            [NoProc EXCEPT !.life = "born", !.pgid = Shell, !.line = line,
                           !.job = IF IsFirst THEN p ELSE Last(PGs_table),
                           !.masked = ~IsLast, !.table = PGs_table]]
       /\ IF IsFirst
          THEN /\ PGs_table' = Append(PGs_table, p)
               /\ PGs_count' = Append(PGs_count, <<Init_pid>>)
          ELSE /\ PGs_count' = [PGs_count EXCEPT ![Len(PGs_count)] = Append(@, p)]
               /\ UNCHANGED PGs_table
       /\ IF IsLast
          THEN /\ local' = [local EXCEPT !.pid = p]
               /\ shellPc' = IF line.amp THEN "back" ELSE "give"
          ELSE local' = [local EXCEPT !.idx = @ + 1] /\ UNCHANGED shellPc
  BY DEF Fork
<1> DEFINE job == IF local.idx = 1 THEN p ELSE Last(PGs_table)
           r == [NoProc EXCEPT !.life = "born", !.pgid = Shell, !.line = line,
                               !.job = job, !.masked = ~IsLast, !.table = PGs_table]
<1>4. p \in Children /\ proc[p].life = "none"
  BY DEF Free
<1>5. proc' = [proc EXCEPT ![p] = r]
  BY <1>3 DEF IsFirst
<1>6. job \in Group
  BY <1>1, <1>2, <1>4, LastIs DEF Group, Tables
<1> HIDE DEF job
<1>7. (~IsLast) \in BOOLEAN
  BY DEF IsLast
<1>8. /\ r \in Proc /\ r.life = "born" /\ r.pgid = Shell /\ r.job = job
      /\ r.line = line /\ r.stopped = FALSE
  BY <1>1, <1>6, <1>7 DEF Proc, NoProc, Group, Tables, Typed
<1> HIDE DEF r
<1>9. /\ Kept /\ StoppedLive' /\ proc'[p] = r
      /\ \A q \in Children : q # p => proc'[q] = proc[q]
  BY <1>4, <1>5, <1>8, OneProc DEF Types
<1>10. OwnGroups => OwnGroups'
  BY <1>8, <1>9 DEF OwnGroups
<1>11. UNCHANGED <<PGs_cmd, stdio, tty, line>>
  BY DEF Fork
<1>12. ForkOf(p)
  BY <1>3, <1>4, <1>8, <1>9, <1>11 DEF ForkOf, IsFirst, IsLast, job
<1> QED BY <1>4, <1>9, <1>10, <1>12

-----------------------------------------------------------------------------
(* Types.                                                                   *)

Elsewhere == UNCHANGED <<tables, stdio, tty, shellPc, line, local>>

LEMMA ChildSteps ==
  ASSUME TypeOK, StoppedLive,
         NEW p \in Children, ChildRun(p) \/ ChildExit(p)
  PROVE  Kept /\ StoppedLive' /\ Quiet /\ (OwnGroups => OwnGroups') /\ Elsewhere
<1>1. CASE ChildJoin(p)
  BY <1>1, JoinKept DEF ChildJoin, Elsewhere
<1>2. CASE ChildHandle(p)
  BY <1>2, HandleKept DEF ChildHandle, Elsewhere
<1>3. CASE ChildExec(p)
  BY <1>3, ExecKept DEF ChildExec, Elsewhere
<1>4. CASE ChildEnd(p)
  BY <1>4, EndKept DEF ChildEnd, Elsewhere
<1> QED BY <1>1, <1>2, <1>3, <1>4 DEF ChildRun, ChildKilled, ChildExit

LEMMA StepKept ==
  ASSUME Types, StoppedLive, [Next]_vars
  PROVE  Kept /\ StoppedLive' /\ (OwnGroups => OwnGroups')
<1> USE DEF Types
<1>1. CASE UNCHANGED proc
  BY <1>1, SameProc DEF OwnGroups
<1>2. CASE Bg \/ Fg
  <2>1. PGs_table # <<>>
    BY <1>2 DEF Place, Bg, Fg
  <2>2. Last(PGs_table) \in Group
    BY <2>1, TypesOf, LastIs DEF Tables
  <2>3. proc' = Continue(Last(PGs_table))
    BY <1>2 DEF Bg, Fg
  <2> QED BY <2>2, <2>3, ContinueKept DEF OwnGroups, Kept
<1>3. ASSUME NEW p \in Children, Reap(p), proc[p].life = "zombie"
      PROVE  Kept /\ StoppedLive' /\ (OwnGroups => OwnGroups')
  BY <1>3, ReapKept DEF OwnGroups
<1>4. CASE FgWait
  <2> DEFINE e == Last(PGs_count)[local.w]
  <2>1. CASE e \in Children /\ proc[e].life # "reaped"
    BY <1>3, <1>4, <2>1 DEF FgWait
  <2>2. CASE ~(e \in Children /\ proc[e].life # "reaped")
    BY <1>1, <1>4, <2>2 DEF FgWait
  <2> QED BY <2>1, <2>2
<1>5. CASE WaitExited
  <2>1. local.pid \in Children
    BY <1>5 DEF WaitExited, Place
  <2> QED BY <1>3, <1>5, <2>1 DEF WaitExited
<1>6. CASE Fork
  BY <1>6, ForkKept
<1>7. CASE \E p \in Children : ChildRun(p) \/ ChildExit(p)
  BY <1>7, ChildSteps
<1>8. CASE PressInt \/ PressStop
  BY <1>8, KeyKept
<1>9. ReadLine \/ NullCommand \/ Exit \/ Report \/ FgDone \/ Give
        \/ WaitStopped \/ TakeBack \/ UNCHANGED vars
      => UNCHANGED proc
  BY DEF ReadLine, NullCommand, Exit, Report, FgDone, Give, WaitStopped,
         TakeBack, vars
<1> QED
  BY <1>1, <1>2, <1>4, <1>5, <1>6, <1>7, <1>8, <1>9 DEF Next, ShellRun

\* Popping a group and its pids.
LEMMA PopJobIs ==
  ASSUME TypeOK, PopJob
  PROVE  /\ PGs_table' \in Tables /\ PGs_count' \in Counts
         /\ Len(PGs_table) \in Nat /\ Len(PGs_count') = Len(PGs_table')
         /\ Len(PGs_table') = IF Len(PGs_table) > 0 THEN Len(PGs_table) - 1 ELSE 0
         /\ \A i \in 1 .. Len(PGs_table') :
              PGs_table'[i] = PGs_table[i] /\ PGs_count'[i] = PGs_count[i]
         /\ PGs_table' # <<>> =>
              Len(PGs_table) > 1 /\ PGs_table'[1] = PGs_table[1]
<1>1. /\ PGs_table \in Tables /\ PGs_count \in Counts
      /\ Len(PGs_count) = Len(PGs_table)
  BY TypesOf
<1>2. PGs_table' = Front(PGs_table) /\ PGs_count' = Front(PGs_count)
  BY DEF PopJob
<1>3. /\ PGs_table' \in Tables /\ Len(PGs_table) \in Nat
      /\ Len(PGs_table') = IF Len(PGs_table) > 0 THEN Len(PGs_table) - 1 ELSE 0
      /\ \A i \in 1 .. Len(PGs_table') : PGs_table'[i] = PGs_table[i]
  BY <1>1, <1>2, FrontIs DEF Tables
<1>4. /\ PGs_count' \in Counts /\ Len(PGs_count') = Len(PGs_table')
      /\ \A i \in 1 .. Len(PGs_count') : PGs_count'[i] = PGs_count[i]
  BY <1>1, <1>2, <1>3, FrontIs DEF Counts
<1>5. PGs_table' # <<>> => Len(PGs_table') > 0
  BY <1>3, NotEmpty DEF Tables
<1> QED BY <1>3, <1>4, <1>5

\* Where the shell is after a step that leaves the groups well-formed.
TablesKept ==
  /\ PGs_table' \in Tables /\ PGs_count' \in Counts
  /\ Len(PGs_count') = Len(PGs_table')
  /\ PGs_table' # <<>> => PGs_table'[1] = Shell

LEMMA PromptIs ==
  ASSUME Prompt
  PROVE  /\ shellPc' \in {"prompt", "lost"}
         /\ shellPc' # "lost" => PGs_table' # <<>>
         /\ line' = Empty /\ local' = NoLocal
BY DEF Prompt, Go

LEMMA ReturnIs ==
  ASSUME Types, shellPc \in {"stage", "fgwait"},
         NEW cmds \in Seq(Typed), Return(cmds)
  PROVE  /\ PGs_cmd' \in Seq(Typed)
         /\ shellPc' \in {"prompt", "stage", "lost"}
         /\ shellPc' # "lost" => PGs_table' # <<>>
         /\ line' \in Typed
         /\ local' \in [idx : Nat, pid : {0} \cup Children, w : Nat,
                        status : {"garbage", "exited"}]
         /\ shellPc' = "stage" => local'.idx \in 1 .. Len(line'.cmds)
<1>1. /\ line \in Typed /\ Len(line.cmds) \in Nat
      /\ local \in [idx : Nat, pid : {0} \cup Children, w : Nat,
                    status : {"garbage", "exited"}]
      /\ local.idx \in 1 .. Len(line.cmds)
  BY TypesOf, LineFacts DEF Types, TypeOK, Place
<1>2. CASE IsLast
  <2>1. PGs_cmd' = Front(cmds) /\ Prompt
    BY <1>2 DEF Return
  <2>2. NoLocal \in [idx : Nat, pid : {0} \cup Children, w : Nat,
                     status : {"garbage", "exited"}]
    BY DEF NoLocal
  <2> QED BY <2>1, <2>2, PromptIs, FrontIs DEF Typed
<1>3. CASE ~IsLast
  <2>1. /\ PGs_cmd' = cmds /\ Go("stage") /\ line' = line
        /\ local' = [local EXCEPT !.idx = local.idx + 1]
    BY <1>1, <1>3 DEF Return
  <2>2. shellPc' \in {"stage", "lost"} /\ (shellPc' # "lost" => PGs_table' # <<>>)
    BY <2>1 DEF Go
  <2>3. local.idx + 1 \in 1 .. Len(line.cmds)
    BY <1>1, <1>3 DEF IsLast
  <2> QED BY <1>1, <2>1, <2>2, <2>3
<1> QED BY <1>2, <1>3

Locals == [idx : Nat, pid : {0} \cup Children, w : Nat,
           status : {"garbage", "exited"}]
Stdio == [in : {"tty", "file"}, out : {"tty", "file"}]

LEMMA LocalsFacts ==
  ASSUME NEW r \in Locals
  PROVE  /\ [r EXCEPT !.idx = r.idx + 1] \in Locals
         /\ [r EXCEPT !.idx = r.idx + 1].idx = r.idx + 1
         /\ [r EXCEPT !.w = r.w + 1] \in Locals
         /\ [r EXCEPT !.w = r.w + 1].idx = r.idx
         /\ [r EXCEPT !.w = r.w + 1, !.status = "exited"] \in Locals
         /\ [r EXCEPT !.w = r.w + 1, !.status = "exited"].idx = r.idx
<1>1. r.idx + 1 \in Nat /\ r.w + 1 \in Nat
  BY DEF Locals
<1> DEFINE i == r.idx + 1
           w == r.w + 1
<1> HIDE DEF i, w
<1>2. i \in Nat /\ w \in Nat
  BY <1>1 DEF i, w
<1>3. /\ [r EXCEPT !.idx = i] \in Locals /\ [r EXCEPT !.idx = i].idx = i
      /\ [r EXCEPT !.w = w] \in Locals /\ [r EXCEPT !.w = w].idx = r.idx
  BY <1>2 DEF Locals
<1>4. /\ [r EXCEPT !.w = w, !.status = "exited"] \in Locals
      /\ [r EXCEPT !.w = w, !.status = "exited"].idx = r.idx
  BY <1>2 DEF Locals
<1> QED BY <1>3, <1>4 DEF i, w

LEMMA RedirectedIs ==
  ASSUME stdio \in Stdio
  PROVE  /\ Redirected \in Stdio
         /\ Redirected.in = IF IsLast /\ line.in THEN "file" ELSE stdio.in
BY DEF Redirected, Stdio

LEMMA SameTables ==
  ASSUME Types, UNCHANGED <<PGs_table, PGs_count>>
  PROVE  TablesKept
BY TypesOf DEF Types, Place, TablesKept

LEMMA PoppedTables ==
  ASSUME Types, PopJob
  PROVE  TablesKept
<1>1. TypeOK /\ (PGs_table' # <<>> => PGs_table # <<>> /\ PGs_table'[1] = PGs_table[1])
  <2>1. PGs_table = <<>> => Len(PGs_table) = 0
    OBVIOUS
  <2> QED BY <2>1, PopJobIs DEF Types
<1>2. PGs_table # <<>> => PGs_table[1] = Shell
  BY DEF Types, Place
<1> QED BY <1>1, <1>2, PopJobIs DEF TablesKept

LEMMA ForkTables ==
  ASSUME Types, shellPc = "stage", NEW p \in Children, ForkOf(p)
  PROVE  /\ TablesKept /\ PGs_table' # <<>>
         /\ local.idx = 1 => Last(PGs_table') = p
<1>1. /\ PGs_table \in Tables /\ PGs_count \in Counts
      /\ Len(PGs_count) = Len(PGs_table) /\ Len(PGs_table) \in Nat
      /\ Len(PGs_table) > 0 /\ PGs_table[1] = Shell
  <2>1. PGs_table # <<>>
    BY DEF Types, Place
  <2> QED BY <2>1, TypesOf, NotEmpty DEF Types, Place, Tables
<1>2. CASE local.idx = 1
  <2>1. PGs_table' = Append(PGs_table, p) /\ PGs_count' = Append(PGs_count, <<Init_pid>>)
    BY <1>2 DEF ForkOf
  <2>2. <<Init_pid>> \in Seq(Pids) /\ p \in Group
    BY DEF Pids, Group
  <2>3. /\ PGs_table' \in Tables /\ PGs_table' # <<>> /\ Last(PGs_table') = p
        /\ PGs_table'[1] = PGs_table[1]
        /\ Len(PGs_table') = Len(PGs_table) + 1
    BY <1>1, <2>1, <2>2, AppendIs DEF Tables
  <2>4. PGs_count' \in Counts /\ Len(PGs_count') = Len(PGs_count) + 1
    BY <1>1, <2>1, <2>2, AppendIs DEF Counts
  <2> QED BY <1>1, <2>3, <2>4 DEF TablesKept
<1>3. CASE local.idx # 1
  <2> DEFINE n == Len(PGs_count)
  <2>1. /\ PGs_table' = PGs_table
        /\ PGs_count' = [PGs_count EXCEPT ![n] = Append(PGs_count[n], p)]
    BY <1>3 DEF ForkOf
  <2>2. n \in 1 .. Len(PGs_count) /\ PGs_count[n] \in Seq(Pids) /\ p \in Pids
    BY <1>1, ElementOfSeq DEF Counts, Pids
  <2>3. Append(PGs_count[n], p) \in Seq(Pids)
    BY <2>2, AppendIs
  <2>4. PGs_count' \in Counts /\ Len(PGs_count') = Len(PGs_count)
    BY <1>1, <2>1, <2>2, <2>3, ExceptSeq DEF Counts
  <2>5. PGs_table' # <<>>
    BY <1>1, <2>1
  <2> QED BY <1>1, <1>3, <2>1, <2>4, <2>5 DEF TablesKept
<1> QED BY <1>2, <1>3

LEMMA TypesFrom ==
  ASSUME TablesKept, PGs_cmd' \in Seq(Typed), stdio' \in Stdio, tty' \in Group,
         proc' \in [Children -> Proc],
         shellPc' \in {"prompt", "stage", "give", "wait", "back", "fgwait",
                       "exited", "lost"},
         line' \in Typed, local' \in Locals,
         shellPc' # "lost" => PGs_table' # <<>>,
         shellPc' \in {"stage", "fgwait"} => local'.idx \in 1 .. Len(line'.cmds),
         shellPc' \in {"give", "wait", "back"} => local'.pid \in Children
  PROVE  Types'
BY DEF TablesKept, Types, TypeOK, Place, Tables, Counts, Typed, Stdio, Group, Locals

LEMMA TypesNext ==
  ASSUME Types, StoppedLive, [Next]_vars
  PROVE  Types'
<1> DEFINE Pcs == {"prompt", "stage", "give", "wait", "back", "fgwait", "exited", "lost"}
<1>1. /\ PGs_table \in Tables /\ PGs_cmd \in Seq(Typed) /\ stdio \in Stdio
      /\ tty \in Group /\ proc' \in [Children -> Proc] /\ shellPc \in Pcs
      /\ line \in Typed /\ local \in Locals
      /\ Empty \in Typed /\ Front(PGs_cmd) \in Seq(Typed)
      /\ Front(Front(PGs_cmd)) \in Seq(Typed)
      /\ Redirected \in Stdio
      /\ NoLocal \in Locals
  <2>1. PGs_cmd \in Seq(Typed) /\ stdio \in Stdio
    BY TypesOf DEF Types, Stdio
  <2>2. proc' \in [Children -> Proc]
    BY StepKept DEF Kept
  <2>3. Front(PGs_cmd) \in Seq(Typed)
    BY <2>1, FrontIs
  <2>4. Front(Front(PGs_cmd)) \in Seq(Typed)
    BY <2>3, FrontIs
  <2>5. shellPc \in Pcs /\ local \in Locals /\ line \in Typed /\ Empty \in Typed
    BY TypesOf DEF Types, TypeOK, Locals, Typed
  <2>6. NoLocal \in Locals
    BY DEF NoLocal, Locals
  <2> QED BY <2>1, <2>2, <2>3, <2>4, <2>5, <2>6, TypesOf, RedirectedIs DEF Types
<1>2. /\ shellPc # "lost" => PGs_table # <<>>
      /\ PGs_table # <<>> => PGs_table[1] = Shell /\ Last(PGs_table) \in Group
      /\ shellPc \in {"stage", "fgwait"} => local.idx \in 1 .. Len(line.cmds)
      /\ shellPc \in {"give", "wait", "back"} => local.pid \in Children
  BY <1>1, LastIs DEF Types, Place, Tables
<1>3. Shell \in Group
  BY DEF Group
<1> HIDE DEF Pcs
<1>4. CASE ReadLine
  <2>1. PICK l \in Readable : line' = l /\ PGs_cmd' = Append(PGs_cmd, l)
    BY <1>4 DEF ReadLine
  <2>2. l \in Typed
    BY <2>1 DEF Readable, Typed
  <2>3. PGs_cmd' \in Seq(Typed) /\ Len(l.cmds) \in Nat /\ Len(l.cmds) >= 1
    BY <1>1, <2>1, <2>2, AppendIs, LineFacts
  <2>4. /\ shellPc' = "stage" /\ local' = [NoLocal EXCEPT !.idx = 1]
        /\ UNCHANGED <<PGs_table, PGs_count, stdio, tty>> /\ shellPc = "prompt"
    BY <1>4 DEF ReadLine
  <2>5. local' \in Locals /\ local'.idx = 1
    BY <2>4 DEF NoLocal, Locals
  <2>6. local'.idx \in 1 .. Len(line'.cmds)
    BY <2>1, <2>3, <2>5
  <2> QED BY <1>1, <1>2, <2>1, <2>2, <2>3, <2>4, <2>5, <2>6, SameTables, TypesFrom
<1>5. CASE NullCommand
  <2>1. stdio' = Redirected /\ UNCHANGED <<tables, tty>> /\ Prompt
    BY <1>5 DEF NullCommand
  <2> QED BY <1>1, <2>1, PromptIs, SameTables, TypesFrom DEF tables
<1>6. CASE Exit
  <2>1. /\ UNCHANGED <<tables, stdio, tty, line, local>> /\ shellPc' = "exited"
        /\ shellPc = "stage"
    BY <1>6 DEF Exit
  <2> QED BY <1>1, <1>2, <2>1, SameTables, TypesFrom DEF tables
<1>7. CASE Report
  <2>1. /\ stdio' = Redirected /\ UNCHANGED <<PGs_table, PGs_count, tty>>
        /\ shellPc = "stage" /\ Return(PGs_cmd)
    BY <1>7 DEF Report
  <2> QED BY <1>1, <2>1, ReturnIs, SameTables, TypesFrom DEF Locals
<1>8. CASE Bg
  <2>1. /\ stdio' = Redirected /\ UNCHANGED tty /\ PopJob
        /\ shellPc = "stage" /\ Return(Front(PGs_cmd))
    BY <1>8 DEF Bg, BgReturn
  <2> QED BY <1>1, <2>1, ReturnIs, PoppedTables, TypesFrom DEF Locals
<1>9. CASE Fg
  <2>1. /\ stdio' = Redirected /\ SetForeground(Redirected, Last(PGs_table))
        /\ shellPc = "stage" /\ shellPc' = "fgwait"
        /\ local' = [local EXCEPT !.w = 1] /\ UNCHANGED <<tables, line>>
    BY <1>9 DEF Fg
  <2>2. local' \in Locals /\ local'.idx = local.idx
    BY <1>1, <2>1 DEF Locals
  <2>3. tty' \in Group
    BY <1>1, <1>2, <2>1 DEF SetForeground
  <2> QED BY <1>1, <1>2, <2>1, <2>2, <2>3, SameTables, TypesFrom DEF tables
<1>10. CASE FgWait
  <2>1. shellPc = "fgwait" /\ UNCHANGED <<tables, stdio, tty, shellPc, line>>
    BY <1>10 DEF FgWait
  <2>2. \/ local' = [local EXCEPT !.w = local.w + 1, !.status = "exited"]
        \/ local' = [local EXCEPT !.w = local.w + 1]
    BY <1>1, <1>10 DEF FgWait, Locals
  <2>3. local' \in Locals /\ local'.idx = local.idx
    BY <1>1, <2>2, LocalsFacts
  <2> QED BY <1>1, <1>2, <2>1, <2>3, SameTables, TypesFrom DEF tables, Pcs
<1>11. CASE FgDone
  <2>1. /\ shellPc = "fgwait" /\ SetForeground(stdio, ShellEntry) /\ UNCHANGED stdio
        /\ \/ UNCHANGED <<PGs_table, PGs_count>> /\ Return(PGs_cmd)
           \/ PopJob /\ Return(Front(PGs_cmd))
    BY <1>11 DEF FgDone
  <2>2. tty' \in Group
    BY <1>1, <1>2, <1>3, <2>1 DEF SetForeground, ShellEntry
  <2>3. TablesKept
    BY <2>1, SameTables, PoppedTables
  <2>4. \E cmds \in Seq(Typed) : Return(cmds)
    BY <1>1, <2>1
  <2> QED BY <1>1, <2>1, <2>2, <2>3, <2>4, ReturnIs, TypesFrom DEF Locals
<1>12. CASE Fork
  <2>1. PICK p \in Children : ForkOf(p)
    BY <1>12, ForkKept
  <2>2. shellPc = "stage"
    BY <1>12 DEF Fork
  <2>3. TablesKept /\ PGs_table' # <<>>
    BY <2>1, <2>2, ForkTables
  <2>4. Len(line.cmds) \in Nat /\ UNCHANGED <<PGs_cmd, stdio, tty, line>>
    BY <1>1, <2>1, LineFacts DEF ForkOf
  <2>5. CASE local.idx = Len(line.cmds)
    <3>1. local' = [local EXCEPT !.pid = p] /\ shellPc' \in {"back", "give"}
      BY <2>1, <2>5 DEF ForkOf
    <3>2. local' \in Locals /\ local'.pid = p
      BY <1>1, <3>1 DEF Locals
    <3> QED BY <1>1, <2>3, <2>4, <3>1, <3>2, TypesFrom
  <2>6. CASE local.idx # Len(line.cmds)
    <3>1. local' = [local EXCEPT !.idx = local.idx + 1] /\ shellPc' = "stage"
      BY <2>1, <2>2, <2>6 DEF ForkOf
    <3>2. local' \in Locals /\ local'.idx = local.idx + 1
      BY <1>1, <3>1, LocalsFacts
    <3>3. local'.idx \in 1 .. Len(line'.cmds)
      BY <1>2, <2>2, <2>4, <2>6, <3>2
    <3> QED BY <1>1, <2>3, <2>4, <3>1, <3>2, <3>3, TypesFrom
  <2> QED BY <2>5, <2>6
<1>13. CASE Give
  <2>1. /\ SetForeground(stdio, Last(PGs_table)) /\ shellPc = "give"
        /\ shellPc' = "wait" /\ UNCHANGED <<tables, stdio, line, local>>
    BY <1>13 DEF Give, ForegroundGroup
  <2>2. tty' \in Group
    BY <1>1, <1>2, <2>1 DEF SetForeground
  <2> QED BY <1>1, <1>2, <2>1, <2>2, SameTables, TypesFrom DEF tables
<1>14. CASE WaitStopped
  <2>1. /\ shellPc = "wait" /\ shellPc' = "back"
        /\ UNCHANGED <<tables, stdio, tty, line, local>>
    BY <1>14 DEF WaitStopped
  <2> QED BY <1>1, <1>2, <2>1, SameTables, TypesFrom DEF tables
<1>15. CASE WaitExited
  <2>1. /\ shellPc = "wait" /\ PGs_cmd' = Front(PGs_cmd) /\ PopJob /\ Go("back")
        /\ UNCHANGED <<stdio, tty, line, local>>
    BY <1>15 DEF WaitExited
  <2>2. shellPc' \in {"back", "lost"} /\ (shellPc' # "lost" => PGs_table' # <<>>)
    BY <2>1 DEF Go
  <2> QED BY <1>1, <1>2, <2>1, <2>2, PoppedTables, TypesFrom
<1>16. CASE TakeBack
  <2>1. /\ shellPc = "back" /\ SetForeground(stdio, ShellEntry) /\ Prompt
        /\ UNCHANGED <<tables, stdio>>
    BY <1>16 DEF TakeBack
  <2>2. tty' \in Group
    BY <1>1, <1>2, <1>3, <2>1 DEF SetForeground, ShellEntry
  <2> QED BY <1>1, <2>1, <2>2, PromptIs, SameTables, TypesFrom DEF tables
<1>17. CASE Elsewhere
  BY <1>1, <1>2, <1>17, SameTables, TypesFrom DEF Elsewhere, tables, Pcs
<1>18. (\E p \in Children : ChildRun(p) \/ ChildExit(p)) => Elsewhere
  BY ChildSteps DEF Types
<1>19. PressInt \/ PressStop \/ UNCHANGED vars => Elsewhere
  BY DEF PressInt, PressStop, vars, Elsewhere
<1> QED
  BY <1>4, <1>5, <1>6, <1>7, <1>8, <1>9, <1>10, <1>11, <1>12, <1>13, <1>14,
     <1>15, <1>16, <1>17, <1>18, <1>19 DEF Next, ShellRun

-----------------------------------------------------------------------------
(* What the stacks name.                                                    *)

\* Entries are children that have been forked, and so are the pids fg would
\* wait for, which were forked for the entry they are counted with.
Known ==
  /\ \A i \in 2 .. Len(PGs_table) : Started(PGs_table[i])
  /\ \A i \in 2 .. Len(PGs_table) : \A k \in 2 .. Len(PGs_count[i]) :
       /\ Started(PGs_count[i][k])
       /\ proc[PGs_count[i][k]].job = PGs_table[i]
  /\ shellPc \in {"give", "wait", "back"} => Started(local.pid)

\* What every step but fork() does to the stacks: it leaves them alone or pops.
Shrunk ==
  /\ Len(PGs_table) \in Nat /\ Len(PGs_table') \in Nat
  /\ Len(PGs_table') <= Len(PGs_table)
  /\ \A i \in 1 .. Len(PGs_table') :
       PGs_table'[i] = PGs_table[i] /\ PGs_count'[i] = PGs_count[i]

LEMMA ShrunkOr ==
  ASSUME TypeOK, UNCHANGED <<PGs_table, PGs_count>> \/ PopJob
  PROVE  Shrunk
<1>1. CASE UNCHANGED <<PGs_table, PGs_count>>
  BY <1>1, TypesOf, LenProperties DEF Shrunk, Tables
<1>2. CASE PopJob
  BY <1>2, PopJobIs DEF Shrunk
<1> QED BY <1>1, <1>2

LEMMA NonFork ==
  ASSUME Types, StoppedLive, [Next]_vars, ~Fork
  PROVE  /\ UNCHANGED <<PGs_table, PGs_count>> \/ PopJob
         /\ shellPc' \in {"give", "wait", "back"} =>
              /\ shellPc \in {"give", "wait", "back"}
              /\ UNCHANGED <<line, local>>
<1> DEFINE Goal == /\ UNCHANGED <<PGs_table, PGs_count>> \/ PopJob
                   /\ shellPc' \in {"give", "wait", "back"} =>
                        /\ shellPc \in {"give", "wait", "back"}
                        /\ UNCHANGED <<line, local>>
<1>1. ASSUME NEW cmds \in Seq(Typed), Return(cmds), shellPc \in {"stage", "fgwait"}
      PROVE  shellPc' \notin {"give", "wait", "back"}
  BY <1>1, ReturnIs
<1>2. PGs_cmd \in Seq(Typed) /\ Front(PGs_cmd) \in Seq(Typed)
  BY TypesOf, FrontIs DEF Types
<1>3. CASE ReadLine
  BY <1>3 DEF ReadLine
<1>4. CASE NullCommand
  BY <1>4, PromptIs DEF NullCommand, tables
<1>5. CASE Exit
  BY <1>5 DEF Exit, tables
<1>6. CASE Report
  BY <1>1, <1>2, <1>6 DEF Report
<1>7. CASE Bg
  BY <1>1, <1>2, <1>7 DEF Bg, BgReturn
<1>8. CASE Fg
  BY <1>8 DEF Fg, tables
<1>9. CASE FgWait
  BY <1>9 DEF FgWait, tables
<1>10. CASE FgDone
  BY <1>1, <1>2, <1>10 DEF FgDone
<1>11. CASE Give
  BY <1>11 DEF Give, tables
<1>12. CASE WaitStopped
  BY <1>12 DEF WaitStopped, tables
<1>13. CASE WaitExited
  BY <1>13 DEF WaitExited
<1>14. CASE TakeBack
  BY <1>14, PromptIs DEF TakeBack, tables
<1>15. CASE Elsewhere
  BY <1>15 DEF Elsewhere, tables
<1>16. (\E p \in Children : ChildRun(p) \/ ChildExit(p)) => Elsewhere
  BY ChildSteps DEF Types
<1>17. PressInt \/ PressStop \/ UNCHANGED vars => Elsewhere
  BY DEF PressInt, PressStop, vars, Elsewhere
<1> HIDE DEF Goal
<1> QED
  BY <1>3, <1>4, <1>5, <1>6, <1>7, <1>8, <1>9, <1>10, <1>11, <1>12, <1>13,
     <1>14, <1>15, <1>16, <1>17 DEF Next, ShellRun, Goal

\* Children keep what the stacks say of them.
LEMMA KnownKept ==
  ASSUME Kept, Known, Types, Types', Shrunk,
         shellPc' \in {"give", "wait", "back"} =>
           shellPc \in {"give", "wait", "back"} /\ UNCHANGED local
  PROVE  Known'
<1>1. \A p \in Children : proc[p].life # "none" =>
        proc'[p].life # "none" /\ proc'[p].job = proc[p].job
  BY DEF Kept
<1>2. \A i \in 2 .. Len(PGs_table') :
        /\ i \in 2 .. Len(PGs_table) /\ i \in 1 .. Len(PGs_table')
        /\ PGs_table'[i] = PGs_table[i] /\ PGs_count'[i] = PGs_count[i]
  BY DEF Shrunk
<1>3. \A i \in 2 .. Len(PGs_table') :
        PGs_table'[i] \in Children /\ proc'[PGs_table'[i]].life # "none"
  BY <1>1, <1>2 DEF Known, Started
<1>4. ASSUME NEW i \in 2 .. Len(PGs_table'), NEW k \in 2 .. Len(PGs_count'[i])
      PROVE  /\ PGs_count'[i][k] \in Children
             /\ proc'[PGs_count'[i][k]].life # "none"
             /\ proc'[PGs_count'[i][k]].job = PGs_table'[i]
  <2>1. Started(PGs_count[i][k]) /\ proc[PGs_count[i][k]].job = PGs_table[i]
    BY <1>2, <1>4 DEF Known
  <2>2. PGs_count'[i][k] = PGs_count[i][k] /\ PGs_table'[i] = PGs_table[i]
    BY <1>2
  <2> QED BY <1>1, <2>1, <2>2 DEF Started
<1>5. shellPc' \in {"give", "wait", "back"} =>
        local'.pid \in Children /\ proc'[local'.pid].life # "none"
  BY <1>1 DEF Known, Started
<1> QED BY <1>3, <1>4, <1>5 DEF Known, Started

LEMMA KnownFork ==
  ASSUME Types, Types', StoppedLive, Known, Fork
  PROVE  Known'
<1>1. PICK p \in Children : ForkOf(p)
  BY ForkKept
<1>2. /\ proc[p].life = "none" /\ proc'[p].life = "born"
      /\ proc'[p].job = IF local.idx = 1 THEN p ELSE Last(PGs_table)
      /\ \A q \in Children : q # p => proc'[q] = proc[q]
  BY <1>1 DEF ForkOf
<1>3. \A q : Started(q) => q \in Children /\ q # p /\ proc'[q].life # "none"
                           /\ proc'[q].job = proc[q].job
  BY <1>2 DEF Started
<1>4. /\ shellPc = "stage" /\ PGs_table \in Tables /\ PGs_count \in Counts
      /\ Len(PGs_table) \in Nat /\ Len(PGs_table) > 0
      /\ Len(PGs_count) = Len(PGs_table)
  <2>1. shellPc = "stage" /\ PGs_table # <<>>
    BY DEF Fork, Types, Place
  <2> QED BY <2>1, TypesOf, NotEmpty DEF Types, Tables
<1>5. shellPc' \in {"give", "wait", "back"} =>
        local'.pid \in Children /\ proc'[local'.pid].life # "none"
  <2>1. CASE local.idx = Len(line.cmds)
    <3>1. local \in Locals
      BY DEF Types, TypeOK, Locals
    <3>2. local' = [local EXCEPT !.pid = p]
      BY <1>1, <2>1 DEF ForkOf
    <3>3. local'.pid = p
      BY <3>1, <3>2 DEF Locals
    <3> QED BY <1>2, <3>3
  <2>2. CASE local.idx # Len(line.cmds)
    BY <1>1, <1>4, <2>2 DEF ForkOf
  <2> QED BY <2>1, <2>2
<1>6. CASE local.idx = 1
  <2>1. PGs_table' = Append(PGs_table, p) /\ PGs_count' = Append(PGs_count, <<Init_pid>>)
    BY <1>1, <1>6 DEF ForkOf
  <2>2. p \in Group /\ <<Init_pid>> \in Seq(Pids)
    BY DEF Group, Pids
  <2>3. /\ Len(PGs_table') = Len(PGs_table) + 1
        /\ \A i \in 1 .. Len(PGs_table) : PGs_table'[i] = PGs_table[i]
        /\ PGs_table'[Len(PGs_table) + 1] = p
    BY <1>4, <2>1, <2>2, AppendIs DEF Tables
  <2>4. /\ \A i \in 1 .. Len(PGs_table) : PGs_count'[i] = PGs_count[i]
        /\ PGs_count'[Len(PGs_table) + 1] = <<Init_pid>>
    BY <1>4, <2>1, <2>2, AppendIs DEF Counts
  <2>5. ASSUME NEW i \in 2 .. Len(PGs_table')
        PROVE  /\ PGs_table'[i] \in Children /\ proc'[PGs_table'[i]].life # "none"
               /\ \A k \in 2 .. Len(PGs_count'[i]) :
                    /\ PGs_count'[i][k] \in Children
                    /\ proc'[PGs_count'[i][k]].life # "none"
                    /\ proc'[PGs_count'[i][k]].job = PGs_table'[i]
    <3>1. CASE i \in 2 .. Len(PGs_table)
      <4>1. PGs_table'[i] = PGs_table[i] /\ PGs_count'[i] = PGs_count[i]
        BY <2>3, <2>4, <3>1
      <4> QED BY <1>3, <3>1, <4>1 DEF Known
    <3>2. CASE i = Len(PGs_table) + 1
      <4>1. PGs_table'[i] = p /\ PGs_count'[i] = <<Init_pid>>
        BY <2>3, <2>4, <3>2
      <4>2. Len(<<Init_pid>>) = 1
        OBVIOUS
      <4> QED BY <1>2, <4>1, <4>2
    <3> QED BY <1>4, <2>3, <3>1, <3>2
  <2> QED BY <1>5, <2>5 DEF Known, Started
<1>7. CASE local.idx # 1
  <2> DEFINE n == Len(PGs_count)
  <2>1. /\ PGs_table' = PGs_table
        /\ PGs_count' = [PGs_count EXCEPT ![n] = Append(PGs_count[n], p)]
    BY <1>1, <1>7 DEF ForkOf
  <2>2. n \in 1 .. Len(PGs_count) /\ PGs_count[n] \in Seq(Pids) /\ p \in Pids
    BY <1>4, ElementOfSeq DEF Counts, Pids
  <2>3. /\ Append(PGs_count[n], p) \in Seq(Pids)
        /\ Len(PGs_count[n]) \in Nat
        /\ Len(Append(PGs_count[n], p)) = Len(PGs_count[n]) + 1
        /\ \A k \in 1 .. Len(PGs_count[n]) :
             Append(PGs_count[n], p)[k] = PGs_count[n][k]
        /\ Append(PGs_count[n], p)[Len(PGs_count[n]) + 1] = p
    BY <2>2, AppendIs
  <2>4. \A i \in 1 .. n : PGs_count'[i] = IF i = n THEN Append(PGs_count[n], p)
                                          ELSE PGs_count[i]
    BY <1>4, <2>1, <2>2, <2>3, ExceptSeq DEF Counts
  <2>5. proc'[p].job = PGs_table[n]
    BY <1>2, <1>4, <1>7 DEF Last
  <2> HIDE DEF n
  <2>6. ASSUME NEW i \in 2 .. Len(PGs_table'), NEW k \in 2 .. Len(PGs_count'[i])
        PROVE  /\ PGs_count'[i][k] \in Children
               /\ proc'[PGs_count'[i][k]].life # "none"
               /\ proc'[PGs_count'[i][k]].job = PGs_table'[i]
    <3>1. i \in 2 .. Len(PGs_table) /\ PGs_table'[i] = PGs_table[i] /\ i \in 1 .. n
      BY <1>4, <2>1 DEF n
    <3>2. CASE k \in 2 .. Len(PGs_count[i]) /\ PGs_count'[i][k] = PGs_count[i][k]
      BY <1>3, <3>1, <3>2 DEF Known
    <3>3. CASE i = n /\ k = Len(PGs_count[n]) + 1
      <4>1. PGs_count'[i][k] = p
        BY <2>3, <2>4, <3>1, <3>3
      <4> QED BY <1>2, <2>5, <3>1, <3>3, <4>1
    <3>4. CASE i = n /\ k # Len(PGs_count[n]) + 1
      <4>1. PGs_count'[i] = Append(PGs_count[n], p)
        BY <2>4, <3>1, <3>4
      <4>2. k \in 2 .. Len(PGs_count[n])
        BY <2>3, <3>4, <4>1
      <4> QED BY <2>3, <3>2, <3>4, <4>1, <4>2
    <3>5. CASE i # n
      BY <2>4, <3>1, <3>2, <3>5
    <3> QED BY <3>3, <3>4, <3>5
  <2>7. \A i \in 2 .. Len(PGs_table') :
          PGs_table'[i] \in Children /\ proc'[PGs_table'[i]].life # "none"
    BY <1>3, <2>1 DEF Known
  <2> QED BY <1>5, <2>6, <2>7 DEF Known, Started
<1> QED BY <1>6, <1>7

LEMMA KnownNext ==
  ASSUME Types, Types', StoppedLive, Known, [Next]_vars
  PROVE  Known'
<1>1. CASE Fork
  BY <1>1, KnownFork
<1>2. CASE ~Fork
  <2>1. Kept
    BY StepKept
  <2>2. Shrunk
    BY <1>2, NonFork, ShrunkOr DEF Types
  <2> QED BY <1>2, <2>1, <2>2, NonFork, KnownKept
<1> QED BY <1>1, <1>2

-----------------------------------------------------------------------------
(* The terminal.                                                            *)

\* The terminal is the shell's but while it waits for a command; then it is
\* that command's, if the shell's descriptor 0 is the terminal at all.
Owner ==
  /\ shellPc \in {"prompt", "stage", "give", "exited"} => tty = Shell
  /\ stdio.in = "file" => tty = Shell
  /\ shellPc \in {"give", "wait"} => Last(PGs_table) = proc[local.pid].job
  /\ shellPc = "wait" /\ stdio.in = "tty" => tty = proc[local.pid].job
  /\ shellPc = "fgwait" /\ stdio.in = "tty" => tty = Last(PGs_table)

\* Giving the terminal back before the prompt.
LEMMA TakenBack ==
  ASSUME Types, Owner, UNCHANGED stdio, SetForeground(stdio, ShellEntry),
         shellPc # "lost", shellPc' \in {"prompt", "stage", "lost"}
  PROVE  Owner'
<1>1. ShellEntry = Shell
  BY DEF Types, Place, ShellEntry
<1>2. tty' = Shell
  <2>1. CASE stdio.in = "tty"
    BY <1>1, <2>1 DEF SetForeground
  <2>2. CASE stdio.in = "file"
    BY <2>2 DEF SetForeground, Owner
  <2> QED BY <2>1, <2>2, TypesOf DEF Types
<1> QED BY <1>2 DEF Owner

LEMMA OwnerNext ==
  ASSUME Types, StoppedLive, Known, Owner, [Next]_vars
  PROVE  Owner'
<1>1. Kept
  BY StepKept
<1>2. /\ PGs_cmd \in Seq(Typed) /\ Front(PGs_cmd) \in Seq(Typed)
      /\ stdio \in Stdio /\ Redirected \in Stdio
      /\ Redirected.in = "tty" => stdio.in = "tty"
      /\ stdio.in \in {"tty", "file"} /\ Redirected.in \in {"tty", "file"}
  <2>1. stdio \in Stdio /\ PGs_cmd \in Seq(Typed)
    BY TypesOf DEF Types, Stdio
  <2> QED BY <2>1, FrontIs, RedirectedIs DEF Stdio
<1>3. CASE ReadLine
  BY <1>3 DEF ReadLine, Owner
<1>4. CASE NullCommand
  BY <1>4, PromptIs DEF NullCommand, Owner
<1>5. CASE Exit
  BY <1>5 DEF Exit, Owner
<1>6. CASE Report
  <2>1. shellPc' \in {"prompt", "stage", "lost"}
    BY <1>2, <1>6, ReturnIs DEF Report
  <2> QED BY <1>6, <2>1 DEF Report, Owner
<1>7. CASE Bg
  <2>1. shellPc' \in {"prompt", "stage", "lost"}
    BY <1>2, <1>7, ReturnIs DEF Bg, BgReturn
  <2> QED BY <1>7, <2>1 DEF Bg, Owner
<1>8. CASE Fg
  <2>1. /\ shellPc = "stage" /\ shellPc' = "fgwait" /\ stdio' = Redirected
        /\ PGs_table' = PGs_table
        /\ tty' = IF Redirected.in = "tty" THEN Last(PGs_table) ELSE tty
    BY <1>8 DEF Fg, SetForeground, tables
  <2> QED BY <1>2, <2>1 DEF Owner
<1>9. CASE FgWait
  BY <1>9 DEF FgWait, Owner, tables
<1>10. CASE FgDone
  <2>1. shellPc = "fgwait" /\ UNCHANGED stdio /\ SetForeground(stdio, ShellEntry)
    BY <1>10 DEF FgDone
  <2>2. shellPc' \in {"prompt", "stage", "lost"}
    BY <1>2, <1>10, ReturnIs DEF FgDone
  <2> QED BY <2>1, <2>2, TakenBack
<1>11. CASE Fork
  <2>1. PICK p \in Children : ForkOf(p)
    BY <1>11, ForkKept
  <2>2. shellPc = "stage" /\ tty = Shell /\ tty' = Shell /\ stdio' = stdio
    BY <1>11 DEF Fork, Owner
  <2>3. CASE local.idx = Len(line.cmds)
    <3>1. local' = [local EXCEPT !.pid = p] /\ shellPc' \in {"back", "give"}
      BY <2>1, <2>3 DEF ForkOf
    <3>2. local \in Locals
      BY DEF Types, TypeOK, Locals
    <3>3. local'.pid = p
      BY <3>1, <3>2 DEF Locals
    <3>4. Last(PGs_table') = proc'[p].job
      <4>1. CASE local.idx = 1
        BY <2>1, <2>2, <4>1, ForkTables DEF ForkOf
      <4>2. CASE local.idx # 1
        BY <2>1, <4>2 DEF ForkOf
      <4> QED BY <4>1, <4>2
    <3> QED BY <2>2, <3>1, <3>3, <3>4 DEF Owner
  <2>4. CASE local.idx # Len(line.cmds)
    <3>1. shellPc' = "stage"
      BY <2>1, <2>2, <2>4 DEF ForkOf
    <3> QED BY <2>2, <3>1 DEF Owner
  <2> QED BY <2>3, <2>4
<1>12. CASE Give
  BY <1>12 DEF Give, SetForeground, ForegroundGroup, Owner, tables
<1>13. CASE WaitStopped
  BY <1>13 DEF WaitStopped, Owner
<1>14. CASE WaitExited
  BY <1>14 DEF WaitExited, Go, Owner
<1>15. CASE TakeBack
  <2>1. shellPc = "back" /\ UNCHANGED stdio /\ SetForeground(stdio, ShellEntry)
    BY <1>15 DEF TakeBack
  <2>2. shellPc' \in {"prompt", "stage", "lost"}
    BY <1>15, PromptIs DEF TakeBack
  <2> QED BY <2>1, <2>2, TakenBack
<1>16. CASE Elsewhere
  <2>1. shellPc \in {"give", "wait"} => proc'[local.pid].job = proc[local.pid].job
    BY <1>1 DEF Known, Started, Kept
  <2> QED BY <1>16, <2>1 DEF Elsewhere, Owner, tables
<1>17. (\E p \in Children : ChildRun(p) \/ ChildExit(p)) => Elsewhere
  BY ChildSteps DEF Types
<1>18. PressInt \/ PressStop \/ UNCHANGED vars => Elsewhere
  BY DEF PressInt, PressStop, vars, Elsewhere
<1> QED
  BY <1>3, <1>4, <1>5, <1>6, <1>7, <1>8, <1>9, <1>10, <1>11, <1>12, <1>13,
     <1>14, <1>15, <1>16, <1>17, <1>18 DEF Next, ShellRun

-----------------------------------------------------------------------------
(* What holds whatever is typed.                                            *)

JobInv == Types /\ StoppedLive /\ Known /\ Owner

LEMMA JobInit == Init => JobInv
<1> SUFFICES ASSUME Init
             PROVE  JobInv
  OBVIOUS
<1>1. Types
  BY TypesInit
<1>2. \A p \in Children : proc[p] = NoProc
  BY DEF Init
<1>3. StoppedLive
  BY <1>2 DEF StoppedLive, NoProc
<1>4. Known
  BY DEF Init, Known
<1>5. Owner
  BY DEF Init, Owner
<1> QED BY <1>1, <1>3, <1>4, <1>5 DEF JobInv

LEMMA JobNext == JobInv /\ [Next]_vars => JobInv'
BY TypesNext, StepKept, KnownNext, OwnerNext DEF JobInv

LEMMA JobInvariant == Spec => []JobInv
BY JobInit, JobNext, PTL DEF Spec

\* The variables keep their types and the stacks PGs_table and PGs_count,
\* pushed and popped at different places of sub_command and run, always have
\* the same length, whatever lines are typed.
THEOREM TypeCorrect == Spec => []TypeOK
<1>1. JobInv => TypeOK
  BY DEF JobInv, Types
<1> QED BY <1>1, JobInvariant, PTL

\* The pids that fg waits for were all forked for the job that it continues.
THEOREM FgWaitsForItsJob == Spec => []CountsAreOfTheJob
<1>1. JobInv => CountsAreOfTheJob
  BY DEF JobInv, Known, CountsAreOfTheJob
<1> QED BY <1>1, JobInvariant, PTL

\* run gives the terminal back before the next line is read, however the
\* command ended and even if descriptor 0 has stayed on a file.
THEOREM PromptHasTerminal == Spec => []PromptOwnsTerminal
<1>1. JobInv => PromptOwnsTerminal
  BY DEF JobInv, Owner, PromptOwnsTerminal
<1> QED BY <1>1, JobInvariant, PTL

\* The keys typed while the shell waits go to the job it waits for.
THEOREM JobHasTerminal == Spec => []ForegroundOwnsTerminal
<1>1. JobInv => ForegroundOwnsTerminal
  BY DEF JobInv, Owner, ForegroundOwnsTerminal
<1> QED BY <1>1, JobInvariant, PTL

-----------------------------------------------------------------------------
(* Lines that keep the stacks in order.                                     *)

\* One command, or a pipeline of programs.  (After `jobs | less` or
\* `fg | less` run pops an entry that the line has not pushed.)
OneOrPrograms(l) ==
  Len(l.cmds) = 1 \/ \A i \in 1 .. Len(l.cmds) : Program(l.cmds[i])
Plain == \A l \in Lines : OneOrPrograms(l)

LEMMA LineDomain ==
  ASSUME NEW l \in Typed
  PROVE  DOMAIN l.cmds = 1 .. Len(l.cmds)
<1>1. CASE l \in Lines
  <2>1. l.cmds \in Seq(STRING)
    BY <1>1, LinesAssumption
  <2> QED BY <2>1, LenProperties
<1>2. CASE l = Empty
  <2>1. DOMAIN <<"null">> = 1 .. Len(<<"null">>)
    OBVIOUS
  <2> QED BY <1>2, <2>1, EmptyLine
<1> QED BY <1>1, <1>2 DEF Typed

LEMMA PlainLine ==
  ASSUME Plain, NEW l \in Typed
  PROVE  OneOrPrograms(l)
<1>1. Len(<<"null">>) = 1
  OBVIOUS
<1> QED BY <1>1, EmptyLine DEF Plain, Typed, OneOrPrograms

\* A builtin is the only command of its line.
LEMMA PlainBuiltin ==
  ASSUME Plain, Types, shellPc = "stage", ~Program(Cmd)
  PROVE  Len(line.cmds) = 1 /\ local.idx = 1 /\ IsLast
<1>1. /\ line \in Typed /\ Len(line.cmds) \in Nat
      /\ local.idx \in 1 .. Len(line.cmds)
  BY TypesOf, LineFacts DEF Types, Place
<1>2. OneOrPrograms(line)
  BY <1>1, PlainLine
<1>3. Len(line.cmds) = 1
  BY <1>1, <1>2 DEF OneOrPrograms, Cmd
<1> QED BY <1>1, <1>3 DEF IsLast

\* A line that pops an entry has pushed one or found one above the shell's.
Above ==
  /\ shellPc # "lost"
  /\ shellPc = "stage" /\ local.idx > 1 => Len(PGs_table) > 1
  /\ shellPc = "stage" /\ Cmd \in {"fg", "bg"} => Len(PGs_table) > 1
  /\ shellPc \in {"give", "wait", "fgwait"} => Len(PGs_table) > 1
  /\ shellPc = "fgwait" => Len(line.cmds) = 1

LEMMA Builtin ==
  ASSUME NEW c \in {"export", "jobs", "fg", "bg", "null"}
  PROVE  ~Program(c)
BY DEF Program, Builtins

\* The last builtin of a line brings the prompt back.
LEMMA LastReturns ==
  ASSUME IsLast, NEW cmds, Return(cmds)
  PROVE  PGs_cmd' = Front(cmds) /\ Prompt
BY DEF Return

LEMMA AboveNext ==
  ASSUME Plain, Careful, Types, Types', StoppedLive, Above, [Next]_vars
  PROVE  Above'
<1>1. /\ PGs_table \in Tables /\ Len(PGs_table) \in Nat
      /\ shellPc # "lost" => Len(PGs_table) > 0
  BY TypesOf, NotEmpty, LenProperties DEF Types, Place, Tables
<1>2. /\ PGs_table' \in Tables /\ Len(PGs_table') \in Nat
      /\ PGs_table' # <<>> <=> Len(PGs_table') > 0
  <2>1. PGs_table' \in Tables
    BY DEF Types, TypeOK, Tables, Group
  <2>2. Len(PGs_table') \in Nat /\ (PGs_table' # <<>> => Len(PGs_table') > 0)
    BY <2>1, NotEmpty, LenProperties DEF Tables
  <2>3. Len(<<>>) = 0
    OBVIOUS
  <2> QED BY <2>1, <2>2, <2>3
<1>3. ASSUME Prompt, Len(PGs_table') > 0
      PROVE  Above'
  BY <1>2, <1>3 DEF Prompt, Go, Above
<1>4. ASSUME PopJob, Len(PGs_table) > 1
      PROVE  Len(PGs_table') = Len(PGs_table) - 1
  BY <1>1, <1>4, PopJobIs DEF Types
<1>5. CASE ReadLine
  <2>1. PICK l \in Readable :
          /\ Careful => \/ Len(PGs_table) > 1
                        \/ \A i \in DOMAIN l.cmds : l.cmds[i] \notin {"fg", "bg"}
          /\ line' = l
    BY <1>5 DEF ReadLine
  <2>2. /\ shellPc' = "stage" /\ PGs_table' = PGs_table
        /\ local' = [NoLocal EXCEPT !.idx = 1]
    BY <1>5 DEF ReadLine
  <2>3. local'.idx = 1
    BY <2>2 DEF NoLocal
  <2>4. l \in Typed
    BY DEF Readable, Typed
  <2>5. 1 \in DOMAIN l.cmds
    BY <2>4, LineDomain, LineFacts
  <2>6. Cmd' = l.cmds[1]
    BY <2>1, <2>3 DEF Cmd
  <2> QED BY <2>1, <2>2, <2>3, <2>5, <2>6 DEF Above
<1>6. CASE NullCommand
  <2>1. shellPc = "stage" /\ PGs_table' = PGs_table /\ Prompt
    BY <1>6 DEF NullCommand, tables
  <2> QED BY <1>1, <1>3, <2>1
<1>7. CASE Exit
  BY <1>7 DEF Exit, Above
<1>8. CASE Report
  <2>1. IsLast
    BY <1>8, PlainBuiltin, Builtin DEF Report
  <2>2. shellPc = "stage" /\ PGs_table' = PGs_table /\ Prompt
    BY <1>8, <2>1, LastReturns DEF Report
  <2> QED BY <1>1, <1>3, <2>2
<1>9. CASE Bg
  <2>1. IsLast
    BY <1>9, PlainBuiltin, Builtin DEF Bg
  <2>2. Len(PGs_table) > 1 /\ PopJob /\ Prompt
    BY <1>9, <2>1, LastReturns DEF Bg, BgReturn, Above
  <2> QED BY <1>1, <1>3, <1>4, <2>2
<1>10. CASE Fg
  <2>1. Len(line.cmds) = 1
    BY <1>10, PlainBuiltin, Builtin DEF Fg
  <2>2. Len(PGs_table) > 1 /\ PGs_table' = PGs_table
    BY <1>10 DEF Fg, Above, tables
  <2>3. shellPc' = "fgwait" /\ line' = line
    BY <1>10 DEF Fg
  <2> QED BY <2>1, <2>2, <2>3 DEF Above
<1>11. CASE FgWait
  BY <1>11 DEF FgWait, Above, tables
<1>12. CASE FgDone
  <2>1. shellPc = "fgwait" /\ Len(PGs_table) > 1 /\ IsLast
    <3>1. shellPc = "fgwait" /\ Len(line.cmds) = 1
      BY <1>12 DEF FgDone, Above
    <3>2. local.idx \in 1 .. Len(line.cmds)
      BY <3>1 DEF Types, Place
    <3> QED BY <3>1, <3>2 DEF Above, IsLast
  <2>2. /\ UNCHANGED PGs_table \/ PopJob
        /\ Prompt
    BY <1>12, <2>1, LastReturns DEF FgDone
  <2> QED BY <1>1, <1>3, <1>4, <2>1, <2>2
<1>13. CASE Fork
  <2>1. PICK p \in Children : ForkOf(p)
    BY <1>13, ForkKept
  <2>2. shellPc = "stage" /\ local.idx \in 1 .. Len(line.cmds)
    BY <1>13 DEF Fork, Types, Place
  <2>3. Len(PGs_table') > 1
    <3>1. CASE local.idx = 1
      <4>1. PGs_table' = Append(PGs_table, p) /\ p \in Group
        BY <2>1, <3>1 DEF ForkOf, Group
      <4> QED BY <1>1, <2>2, <4>1, AppendIs DEF Tables, Above
    <3>2. CASE local.idx # 1
      BY <2>1, <2>2, <3>2 DEF ForkOf, Above
    <3> QED BY <3>1, <3>2
  <2>4. shellPc' \in {"stage", "give", "back"}
    BY <2>1, <2>2 DEF ForkOf
  <2> QED BY <2>3, <2>4 DEF Above
<1>14. CASE Give
  BY <1>14 DEF Give, Above, tables
<1>15. CASE WaitStopped
  BY <1>15 DEF WaitStopped, Above
<1>16. CASE WaitExited
  <2>1. Len(PGs_table) > 1 /\ PopJob /\ Go("back")
    BY <1>16 DEF WaitExited, Above
  <2>2. shellPc' = "back"
    BY <1>1, <1>2, <1>4, <2>1 DEF Go
  <2> QED BY <2>2 DEF Above
<1>17. CASE TakeBack
  <2>1. shellPc = "back" /\ PGs_table' = PGs_table /\ Prompt
    BY <1>17 DEF TakeBack, tables
  <2> QED BY <1>1, <1>3, <2>1
<1>18. CASE Elsewhere
  BY <1>18 DEF Elsewhere, Above, tables, Cmd
<1>19. (\E p \in Children : ChildRun(p) \/ ChildExit(p)) => Elsewhere
  BY ChildSteps DEF Types
<1>20. PressInt \/ PressStop \/ UNCHANGED vars => Elsewhere
  BY DEF PressInt, PressStop, vars, Elsewhere
<1> QED
  BY <1>5, <1>6, <1>7, <1>8, <1>9, <1>10, <1>11, <1>12, <1>13, <1>14, <1>15,
     <1>16, <1>17, <1>18, <1>19, <1>20 DEF Next, ShellRun

\* The shell keeps its own entry under the lines above, when fg and bg are
\* typed only while there is a job.
THEOREM ShellEntryStays ==
  ASSUME Careful, Plain
  PROVE  Spec => []ShellKeepsItsEntry
<1>1. Init => Above
  BY DEF Init, Above
<1>2. Above /\ JobInv /\ [Next]_vars => Above'
  BY JobNext, AboveNext DEF JobInv
<1>3. Above => ShellKeepsItsEntry
  BY DEF Above, ShellKeepsItsEntry
<1>4. Spec => []JobInv
  BY JobInvariant
<1> QED BY <1>1, <1>2, <1>3, <1>4, PTL DEF Spec

-----------------------------------------------------------------------------
(* The list that jobs prints.                                               *)

\* Nothing is missing before or after a pipe, and "<" belongs to a program.
\* (After `jobs < file` descriptor 0 stays on the file; an empty command
\* leaves its line on PGs_cmd.)
Listed(l) ==
  /\ \A i \in 1 .. Len(l.cmds) : l.cmds[i] # "null"
  /\ l.in => Program(l.cmds[Len(l.cmds)])

NamesAgree ==
  \A i \in 2 .. Len(PGs_table) : PGs_cmd[i] = proc[PGs_table[i]].line

\* The line being read is on PGs_cmd before its group is on PGs_table.
Pending ==
  IF shellPc = "fgwait" \/ (shellPc = "stage" /\ local.idx = 1) THEN 1 ELSE 0

InStep ==
  /\ stdio.in = "tty"
  /\ NamesAgree
  /\ shellPc # "exited" => Len(PGs_cmd) = Len(PGs_table) + Pending
  /\ shellPc = "stage" => Listed(line)
  /\ shellPc = "stage" /\ local.idx = 1 => PGs_cmd[Len(PGs_cmd)] = line

LEMMA NamesKept ==
  ASSUME Kept, Known, Shrunk, NamesAgree,
         \A i \in 2 .. Len(PGs_table') : PGs_cmd'[i] = PGs_cmd[i]
  PROVE  NamesAgree'
<1>1. ASSUME NEW i \in 2 .. Len(PGs_table')
      PROVE  PGs_cmd'[i] = proc'[PGs_table'[i]].line
  <2>1. i \in 2 .. Len(PGs_table) /\ PGs_table'[i] = PGs_table[i]
    BY DEF Shrunk
  <2>2. Started(PGs_table[i]) /\ PGs_cmd[i] = proc[PGs_table[i]].line
    BY <2>1 DEF Known, NamesAgree
  <2> QED BY <2>1, <2>2 DEF Started, Kept
<1> QED BY <1>1 DEF NamesAgree

\* PGs_cmd.pop_back().
LEMMA CmdPopped ==
  ASSUME TypeOK, NEW n \in Nat, n > 0, Len(PGs_cmd) = n
  PROVE  /\ Len(Front(PGs_cmd)) = n - 1
         /\ \A i \in 1 .. n - 1 : Front(PGs_cmd)[i] = PGs_cmd[i]
         /\ n > 1 => /\ Len(Front(Front(PGs_cmd))) = n - 2
                     /\ \A i \in 1 .. n - 2 : Front(Front(PGs_cmd))[i] = PGs_cmd[i]
<1>1. PGs_cmd \in Seq(Typed)
  BY TypesOf
<1>2. /\ Front(PGs_cmd) \in Seq(Typed) /\ Len(Front(PGs_cmd)) = n - 1
      /\ \A i \in 1 .. n - 1 : Front(PGs_cmd)[i] = PGs_cmd[i]
  BY <1>1, FrontIs
<1>3. n > 1 => /\ Len(Front(Front(PGs_cmd))) = n - 2
               /\ \A i \in 1 .. n - 2 :
                    Front(Front(PGs_cmd))[i] = Front(PGs_cmd)[i]
  BY <1>2, FrontIs
<1> QED BY <1>2, <1>3

\* Back at the prompt, with as many lines as groups.
LEMMA PromptInStep ==
  ASSUME Kept, Known, Shrunk, NamesAgree, Prompt, stdio'.in = "tty",
         Len(PGs_cmd') = Len(PGs_table'),
         \A i \in 2 .. Len(PGs_table') : PGs_cmd'[i] = PGs_cmd[i]
  PROVE  InStep'
<1>1. NamesAgree'
  BY NamesKept
<1>2. shellPc' \in {"prompt", "lost"}
  BY PromptIs
<1>3. Pending' = 0
  BY <1>2 DEF Pending
<1>4. Len(PGs_table') \in Nat
  BY DEF Shrunk
<1> QED BY <1>1, <1>2, <1>3, <1>4 DEF InStep

LEMMA InStepNext ==
  ASSUME Plain, \A l \in Lines : Listed(l),
         JobInv, JobInv', Above, Above', InStep, [Next]_vars
  PROVE  InStep'
<1>1. /\ Types /\ Types' /\ StoppedLive /\ Known /\ Kept
      /\ PGs_table \in Tables /\ Len(PGs_table) \in Nat /\ Len(PGs_table) > 0
      /\ PGs_cmd \in Seq(Typed) /\ NamesAgree /\ stdio.in = "tty"
  <2>1. PGs_table # <<>>
    BY DEF JobInv, Types, Place, Above
  <2> QED BY <2>1, TypesOf, NotEmpty, StepKept DEF JobInv, Types, Tables, InStep
<1>2. UNCHANGED <<PGs_table, PGs_count>> \/ PopJob => Shrunk
  BY <1>1, ShrunkOr DEF Types
<1>3. PopJob => Len(PGs_table') = Len(PGs_table) - 1
  BY <1>1, PopJobIs DEF Types
<1>4. shellPc = "stage" /\ ~Program(Cmd) =>
        /\ IsLast /\ local.idx = 1 /\ Redirected.in = "tty"
        /\ Cmd # "null"
        /\ Len(PGs_cmd) = Len(PGs_table) + 1
  <2>1. SUFFICES ASSUME shellPc = "stage", ~Program(Cmd)
                 PROVE  /\ IsLast /\ local.idx = 1 /\ Redirected.in = "tty"
                        /\ Cmd # "null" /\ Len(PGs_cmd) = Len(PGs_table) + 1
    OBVIOUS
  <2>2. IsLast /\ local.idx = 1 /\ Len(line.cmds) = 1
    BY <1>1, <2>1, PlainBuiltin
  <2>3. Listed(line) /\ Len(PGs_cmd) = Len(PGs_table) + 1
    BY <2>1, <2>2 DEF InStep, Pending
  <2>4. ~line.in /\ Cmd # "null"
    BY <2>1, <2>2, <2>3 DEF Listed, Cmd
  <2>5. stdio \in Stdio
    BY <1>1, TypesOf DEF Types, Stdio
  <2> QED BY <1>1, <2>2, <2>3, <2>4, <2>5, RedirectedIs
<1>5. ASSUME Shrunk, PGs_cmd' = PGs_cmd, stdio'.in = "tty"
      PROVE  NamesAgree'
  BY <1>1, <1>5, NamesKept
<1>6. CASE ReadLine
  <2>1. PICK l \in Readable : line' = l /\ PGs_cmd' = Append(PGs_cmd, l)
    BY <1>6 DEF ReadLine
  <2>2. /\ shellPc = "prompt" /\ shellPc' = "stage"
        /\ local' = [NoLocal EXCEPT !.idx = 1]
        /\ UNCHANGED <<PGs_table, PGs_count, stdio>>
    BY <1>6 DEF ReadLine
  <2>3. local'.idx = 1
    BY <2>2 DEF NoLocal
  <2>4. l \in Lines /\ l \in Typed
    <3>1. tty = Shell
      BY <2>2 DEF JobInv, Owner
    <3> QED BY <1>1, <3>1 DEF Readable, Typed
  <2>5. Len(PGs_cmd) = Len(PGs_table)
    BY <1>1, <2>2 DEF InStep, Pending
  <2>6. /\ Len(PGs_cmd') = Len(PGs_cmd) + 1 /\ PGs_cmd'[Len(PGs_cmd) + 1] = l
        /\ \A i \in 1 .. Len(PGs_cmd) : PGs_cmd'[i] = PGs_cmd[i]
    BY <1>1, <2>1, <2>4, AppendIs
  <2>7. NamesAgree'
    <3>1. Shrunk
      BY <1>2, <2>2
    <3>2. \A i \in 2 .. Len(PGs_table') : PGs_cmd'[i] = PGs_cmd[i]
      BY <1>1, <2>2, <2>5, <2>6
    <3> QED BY <1>1, <3>1, <3>2, NamesKept
  <2>8. Pending' = 1 /\ Listed(line')
    BY <2>1, <2>2, <2>3, <2>4 DEF Pending
  <2>9. Listed(line)'
    BY <2>8 DEF Listed
  <2> QED BY <1>1, <2>1, <2>2, <2>3, <2>5, <2>6, <2>7, <2>8, <2>9 DEF InStep
<1>7. CASE NullCommand
  BY <1>4, <1>7, Builtin DEF NullCommand
<1>8. CASE Exit
  <2>1. /\ UNCHANGED <<tables, stdio>> /\ shellPc' = "exited"
    BY <1>8 DEF Exit
  <2>2. NamesAgree'
    BY <1>1, <1>2, <1>5, <2>1 DEF tables
  <2> QED BY <1>1, <2>1, <2>2 DEF InStep
<1>9. CASE Report
  <2>1. /\ shellPc = "stage" /\ IsLast /\ stdio' = Redirected /\ Redirected.in = "tty"
        /\ UNCHANGED <<PGs_table, PGs_count>>
        /\ Len(PGs_cmd) = Len(PGs_table) + 1 /\ Return(PGs_cmd)
    BY <1>4, <1>9, Builtin DEF Report
  <2>2. PGs_cmd' = Front(PGs_cmd) /\ Prompt
    BY <2>1, LastReturns
  <2>3. /\ Len(PGs_cmd') = Len(PGs_table)
        /\ \A i \in 1 .. Len(PGs_table) : PGs_cmd'[i] = PGs_cmd[i]
    BY <1>1, <2>1, <2>2, CmdPopped DEF Types
  <2> QED BY <1>1, <1>2, <2>1, <2>2, <2>3, PromptInStep
<1>10. CASE Bg
  <2>1. /\ shellPc = "stage" /\ IsLast /\ stdio' = Redirected /\ Redirected.in = "tty"
        /\ PopJob /\ Len(PGs_table) > 1
        /\ Len(PGs_cmd) = Len(PGs_table) + 1 /\ Return(Front(PGs_cmd))
    BY <1>4, <1>10, Builtin DEF Bg, BgReturn, Above
  <2>2. PGs_cmd' = Front(Front(PGs_cmd)) /\ Prompt
    BY <2>1, LastReturns
  <2>3. /\ Len(PGs_cmd') = Len(PGs_table) - 1
        /\ \A i \in 1 .. Len(PGs_table) - 1 : PGs_cmd'[i] = PGs_cmd[i]
    BY <1>1, <2>1, <2>2, CmdPopped DEF Types
  <2> QED BY <1>1, <1>2, <1>3, <2>1, <2>2, <2>3, PromptInStep
<1>11. CASE Fg
  <2>1. /\ shellPc' = "fgwait" /\ stdio' = Redirected /\ Redirected.in = "tty"
        /\ UNCHANGED tables /\ Len(PGs_cmd) = Len(PGs_table) + 1
    BY <1>4, <1>11, Builtin DEF Fg
  <2>2. NamesAgree' /\ Pending' = 1
    BY <1>1, <1>2, <1>5, <2>1 DEF tables, Pending
  <2> QED BY <2>1, <2>2 DEF InStep, tables
<1>12. CASE FgWait
  <2>1. /\ shellPc = "fgwait" /\ shellPc' = "fgwait" /\ UNCHANGED <<tables, stdio>>
    BY <1>12 DEF FgWait
  <2>2. NamesAgree' /\ Pending' = Pending
    BY <1>1, <1>2, <1>5, <2>1 DEF tables, Pending
  <2> QED BY <2>1, <2>2 DEF InStep, tables
<1>13. CASE FgDone
  <2>1. /\ shellPc = "fgwait" /\ IsLast /\ Len(PGs_table) > 1
        /\ Len(PGs_cmd) = Len(PGs_table) + 1 /\ UNCHANGED stdio
    <3>1. shellPc = "fgwait" /\ Len(line.cmds) = 1 /\ Len(PGs_table) > 1
      BY <1>13 DEF FgDone, Above
    <3>2. local.idx \in 1 .. Len(line.cmds)
      BY <1>1, <3>1 DEF Types, Place
    <3>3. Pending = 1
      BY <3>1 DEF Pending
    <3> QED BY <1>13, <3>1, <3>2, <3>3 DEF FgDone, IsLast, InStep
  <2>2. \/ UNCHANGED <<PGs_table, PGs_count>> /\ Return(PGs_cmd)
        \/ PopJob /\ Return(Front(PGs_cmd))
    BY <1>13 DEF FgDone
  <2>3. CASE UNCHANGED <<PGs_table, PGs_count>> /\ Return(PGs_cmd)
    <3>1. PGs_cmd' = Front(PGs_cmd) /\ Prompt
      BY <2>1, <2>3, LastReturns
    <3>2. /\ Len(PGs_cmd') = Len(PGs_table)
          /\ \A i \in 1 .. Len(PGs_table) : PGs_cmd'[i] = PGs_cmd[i]
      BY <1>1, <2>1, <3>1, CmdPopped DEF Types
    <3> QED BY <1>1, <1>2, <2>1, <2>3, <3>1, <3>2, PromptInStep
  <2>4. CASE PopJob /\ Return(Front(PGs_cmd))
    <3>1. PGs_cmd' = Front(Front(PGs_cmd)) /\ Prompt
      BY <2>1, <2>4, LastReturns
    <3>2. /\ Len(PGs_cmd') = Len(PGs_table) - 1
          /\ \A i \in 1 .. Len(PGs_table) - 1 : PGs_cmd'[i] = PGs_cmd[i]
      BY <1>1, <2>1, <3>1, CmdPopped DEF Types
    <3> QED BY <1>1, <1>2, <1>3, <2>1, <2>4, <3>1, <3>2, PromptInStep
  <2> QED BY <2>2, <2>3, <2>4
<1>14. CASE Fork
  <2>1. PICK p \in Children : ForkOf(p)
    BY <1>1, <1>14, ForkKept
  <2>2. /\ shellPc = "stage" /\ local.idx \in 1 .. Len(line.cmds) /\ Listed(line)
        /\ UNCHANGED <<PGs_cmd, stdio, line>>
        /\ \A q \in Children : proc[q].life # "none" => proc'[q].line = proc[q].line
    BY <1>1, <1>14 DEF Fork, Types, Place, InStep, Kept
  <2>3. Len(PGs_cmd') = Len(PGs_table') /\ NamesAgree'
    <3>1. CASE local.idx = 1
      <4>1. /\ PGs_table' = Append(PGs_table, p) /\ p \in Group
            /\ proc'[p].line = line
        BY <2>1, <3>1 DEF ForkOf, Group
      <4>2. Len(PGs_cmd) = Len(PGs_table) + 1 /\ PGs_cmd[Len(PGs_cmd)] = line
        BY <2>2, <3>1 DEF InStep, Pending
      <4>3. /\ Len(PGs_table') = Len(PGs_table) + 1
            /\ PGs_table'[Len(PGs_table) + 1] = p
            /\ \A i \in 1 .. Len(PGs_table) : PGs_table'[i] = PGs_table[i]
        BY <1>1, <4>1, AppendIs DEF Tables
      <4>4. ASSUME NEW i \in 2 .. Len(PGs_table')
            PROVE  PGs_cmd'[i] = proc'[PGs_table'[i]].line
        <5>1. CASE i = Len(PGs_table) + 1
          BY <2>2, <4>1, <4>2, <4>3, <5>1
        <5>2. CASE i \in 2 .. Len(PGs_table)
          <6>1. PGs_table'[i] = PGs_table[i] /\ Started(PGs_table[i])
            BY <1>1, <4>3, <5>2 DEF Known
          <6> QED BY <1>1, <2>2, <5>2, <6>1 DEF Started, NamesAgree
        <5> QED BY <1>1, <4>3, <5>1, <5>2
      <4> QED BY <2>2, <4>2, <4>3, <4>4 DEF NamesAgree
    <3>2. CASE local.idx # 1
      <4>1. PGs_table' = PGs_table /\ Len(PGs_cmd) = Len(PGs_table)
        BY <1>1, <2>1, <2>2, <3>2 DEF ForkOf, InStep, Pending
      <4>2. \A i \in 2 .. Len(PGs_table) : proc'[PGs_table[i]].line = proc[PGs_table[i]].line
        BY <1>1, <2>2 DEF Known, Started
      <4> QED BY <1>1, <2>2, <4>1, <4>2 DEF NamesAgree
    <3> QED BY <3>1, <3>2
  <2>4. Len(PGs_table') \in Nat
    BY <1>1, TypesOf, LenProperties DEF Types, TypeOK
  <2>5. Listed(line)'
    BY <2>2 DEF Listed
  <2>6. CASE local.idx = Len(line.cmds)
    <3>1. shellPc' \in {"give", "back"}
      BY <2>1, <2>6 DEF ForkOf
    <3>2. Pending' = 0
      BY <3>1 DEF Pending
    <3> QED BY <1>1, <2>2, <2>3, <2>4, <3>1, <3>2 DEF InStep
  <2>7. CASE local.idx # Len(line.cmds)
    <3>1. shellPc' = "stage" /\ local' = [local EXCEPT !.idx = local.idx + 1]
      BY <2>1, <2>2, <2>7 DEF ForkOf
    <3>2. local \in Locals
      BY <1>1 DEF Types, TypeOK, Locals
    <3>3. local'.idx = local.idx + 1
      BY <3>1, <3>2, LocalsFacts
    <3>4. local'.idx # 1
      BY <2>2, <3>3
    <3>5. Pending' = 0
      BY <3>1, <3>4 DEF Pending
    <3> QED BY <1>1, <2>2, <2>3, <2>4, <2>5, <3>1, <3>4, <3>5 DEF InStep
  <2> QED BY <2>6, <2>7
<1>15. CASE Give \/ WaitStopped
  <2>1. /\ shellPc \in {"give", "wait"} /\ shellPc' \in {"wait", "back"}
        /\ UNCHANGED <<tables, stdio>>
    BY <1>15 DEF Give, WaitStopped
  <2>2. NamesAgree' /\ Pending' = Pending
    BY <1>1, <1>2, <1>5, <2>1 DEF tables, Pending
  <2> QED BY <2>1, <2>2 DEF InStep, tables
<1>16. CASE WaitExited
  <2>1. /\ shellPc = "wait" /\ Len(PGs_table) > 1 /\ PopJob /\ Go("back")
        /\ PGs_cmd' = Front(PGs_cmd) /\ UNCHANGED stdio
    BY <1>16 DEF WaitExited, Above
  <2>2. Len(PGs_cmd) = Len(PGs_table)
    BY <1>1, <2>1 DEF InStep, Pending
  <2>3. /\ Len(PGs_cmd') = Len(PGs_table) - 1
        /\ \A i \in 1 .. Len(PGs_table) - 1 : PGs_cmd'[i] = PGs_cmd[i]
    BY <1>1, <2>1, <2>2, CmdPopped DEF Types
  <2>4. NamesAgree'
    BY <1>1, <1>2, <1>3, <2>1, <2>3, NamesKept
  <2>5. shellPc' \in {"back", "lost"}
    BY <2>1 DEF Go
  <2>6. Pending' = 0
    BY <2>5 DEF Pending
  <2> QED BY <1>1, <1>3, <2>1, <2>3, <2>4, <2>5, <2>6 DEF InStep
<1>17. CASE TakeBack
  <2>1. /\ shellPc = "back" /\ UNCHANGED <<tables, stdio>> /\ Prompt
    BY <1>17 DEF TakeBack
  <2>2. Len(PGs_cmd) = Len(PGs_table)
    BY <1>1, <2>1 DEF InStep, Pending
  <2> QED BY <1>1, <1>2, <2>1, <2>2, PromptInStep DEF tables
<1>18. CASE Elsewhere
  <2>1. NamesAgree' /\ Pending' = Pending
    BY <1>1, <1>2, <1>5, <1>18 DEF tables, Pending, Elsewhere
  <2> QED BY <1>18, <2>1 DEF InStep, tables, Elsewhere, Listed
<1>19. (\E p \in Children : ChildRun(p) \/ ChildExit(p)) => Elsewhere
  BY <1>1, ChildSteps DEF Types
<1>20. PressInt \/ PressStop \/ UNCHANGED vars => Elsewhere
  BY DEF PressInt, PressStop, vars, Elsewhere
<1> QED
  BY <1>6, <1>7, <1>8, <1>9, <1>10, <1>11, <1>12, <1>13, <1>14, <1>15, <1>16,
     <1>17, <1>18, <1>19, <1>20 DEF Next, ShellRun

\* jobs prints every group with the line that started it, although PGs_cmd and
\* PGs_table are pushed and popped at different places.
THEOREM JobsShowTheirLines ==
  ASSUME Careful, Plain, \A l \in Lines : Listed(l)
  PROVE  Spec => []JobsNameTheirCommands
<1>1. Init => Above
  BY DEF Init, Above
<1>2. Init => InStep
  <2>1. SUFFICES ASSUME Init
                 PROVE  InStep
    OBVIOUS
  <2>2. PGs_table = <<Shell>> /\ PGs_cmd = <<Empty>> /\ shellPc = "prompt"
    BY <2>1 DEF Init
  <2>3. Len(PGs_table) = 1 /\ Len(PGs_cmd) = 1
    BY <2>2
  <2>4. Pending = 0 /\ NamesAgree
    BY <2>2, <2>3 DEF Pending, NamesAgree
  <2> QED BY <2>1, <2>2, <2>3, <2>4 DEF Init, InStep
<1>3. Above /\ JobInv /\ [Next]_vars => Above'
  BY JobNext, AboveNext DEF JobInv
<1>4. InStep /\ Above /\ JobInv /\ [Next]_vars => InStep'
  BY <1>3, JobNext, InStepNext
<1>5. JobInv /\ Above /\ InStep => JobsNameTheirCommands
  <2>1. SUFFICES ASSUME JobInv, InStep, shellPc = "prompt",
                        NEW i \in 2 .. Len(PGs_table)
                 PROVE  i <= Len(PGs_cmd) /\ PGs_cmd[i] = proc[PGs_table[i]].line
    BY DEF JobsNameTheirCommands
  <2>2. PGs_table \in Tables
    BY <2>1, TypesOf DEF JobInv, Types
  <2>3. Len(PGs_table) \in Nat
    BY <2>2, LenProperties DEF Tables
  <2>4. Len(PGs_cmd) = Len(PGs_table)
    BY <2>1, <2>3 DEF InStep, Pending
  <2> QED BY <2>1, <2>3, <2>4 DEF InStep, NamesAgree
<1>6. Spec => []JobInv
  BY JobInvariant
<1> QED BY <1>1, <1>2, <1>3, <1>4, <1>5, <1>6, PTL DEF Spec

-----------------------------------------------------------------------------
(* Suspended and background jobs, without fg.                               *)

\* A step that does not fork brings no process to life.
Settled ==
  \A p \in Children :
    /\ proc[p].life = "none" => proc'[p].life = "none"
    /\ proc[p].life = "reaped" => proc'[p].life = "reaped"

LEMMA NonForkSettled ==
  ASSUME Types, StoppedLive, [Next]_vars, ~Fork
  PROVE  Settled
<1> USE DEF Types
<1>1. CASE UNCHANGED proc
  BY <1>1 DEF Settled
<1>2. CASE Bg \/ Fg
  <2>1. PGs_table # <<>>
    BY <1>2 DEF Place, Bg, Fg
  <2>2. Last(PGs_table) \in Group
    BY <2>1, TypesOf, LastIs DEF Tables
  <2>3. proc' = Continue(Last(PGs_table))
    BY <1>2 DEF Bg, Fg
  <2> QED BY <2>2, <2>3, ContinueKept DEF Settled
<1>3. ASSUME NEW p \in Children, Reap(p), proc[p].life = "zombie"
      PROVE  Settled
  BY <1>3, ReapKept DEF Settled
<1>4. CASE FgWait
  <2> DEFINE e == Last(PGs_count)[local.w]
  <2>1. CASE e \in Children /\ proc[e].life # "reaped"
    BY <1>3, <1>4, <2>1 DEF FgWait
  <2>2. CASE ~(e \in Children /\ proc[e].life # "reaped")
    BY <1>1, <1>4, <2>2 DEF FgWait
  <2> QED BY <2>1, <2>2
<1>5. CASE WaitExited
  <2>1. local.pid \in Children
    BY <1>5 DEF WaitExited, Place
  <2> QED BY <1>3, <1>5, <2>1 DEF WaitExited
<1>6. CASE \E p \in Children : ChildRun(p) \/ ChildExit(p)
  BY <1>6, ChildSteps DEF Settled, Quiet
<1>7. CASE PressInt \/ PressStop
  BY <1>7, KeyKept DEF Settled
<1>8. ReadLine \/ NullCommand \/ Exit \/ Report \/ FgDone \/ Give
        \/ WaitStopped \/ TakeBack \/ UNCHANGED vars
      => UNCHANGED proc
  BY DEF ReadLine, NullCommand, Exit, Report, FgDone, Give, WaitStopped,
         TakeBack, vars
<1> QED
  BY <1>1, <1>2, <1>4, <1>5, <1>6, <1>7, <1>8 DEF Next, ShellRun

LineFamilies ==
  \A p \in Children : proc[p].life # "none" =>
    /\ Len(proc[p].line.cmds) = 1 => proc[p].job = p
    /\ proc[p].job \in Children
    /\ proc[proc[p].job].life # "none"
    /\ proc[proc[p].job].line = proc[p].line

LEMMA LineFamiliesNext ==
  ASSUME Plain, Types, StoppedLive, LineFamilies, [Next]_vars,
         shellPc = "stage" /\ local.idx > 1 =>
           /\ Last(PGs_table) \in Children
           /\ proc[Last(PGs_table)].life # "none"
           /\ proc[Last(PGs_table)].line = line
  PROVE  LineFamilies'
<1>1. Kept
  BY StepKept
<1>2. CASE ~Fork
  <2>1. Settled
    BY <1>2, NonForkSettled
  <2>2. ASSUME NEW p \in Children, proc'[p].life # "none"
        PROVE  /\ Len(proc'[p].line.cmds) = 1 => proc'[p].job = p
               /\ proc'[p].job \in Children
               /\ proc'[proc'[p].job].life # "none"
               /\ proc'[proc'[p].job].line = proc'[p].line
    <3>1. proc[p].life # "none"
      BY <2>1, <2>2 DEF Settled
    <3>2. proc'[p].job = proc[p].job /\ proc'[p].line = proc[p].line
      BY <1>1, <3>1 DEF Kept
    <3> QED BY <1>1, <3>1, <3>2 DEF LineFamilies, Kept
  <2> QED BY <2>2 DEF LineFamilies
<1>3. CASE Fork
  <2>1. PICK q \in Children : ForkOf(q)
    BY <1>3, ForkKept
  <2>2. /\ proc[q].life = "none" /\ proc'[q].life = "born" /\ proc'[q].line = line
        /\ proc'[q].job = IF local.idx = 1 THEN q ELSE Last(PGs_table)
        /\ \A p \in Children : p # q => proc'[p] = proc[p]
    BY <2>1 DEF ForkOf
  <2>3. shellPc = "stage" /\ local.idx \in 1 .. Len(line.cmds)
    BY <1>3 DEF Fork, Types, Place
  <2>4. ASSUME NEW p \in Children, proc'[p].life # "none"
        PROVE  /\ Len(proc'[p].line.cmds) = 1 => proc'[p].job = p
               /\ proc'[p].job \in Children
               /\ proc'[proc'[p].job].life # "none"
               /\ proc'[proc'[p].job].line = proc'[p].line
    <3>1. CASE p # q
      <4>1. proc'[p] = proc[p] /\ proc[p].life # "none"
        BY <2>2, <2>4, <3>1
      <4>2. proc[p].job \in Children /\ proc[proc[p].job].life # "none"
        BY <4>1 DEF LineFamilies
      <4> QED BY <1>1, <4>1, <4>2 DEF LineFamilies, Kept
    <3>2. CASE p = q /\ local.idx = 1
      BY <2>2, <3>2
    <3>3. CASE p = q /\ local.idx # 1
      <4>1. /\ proc'[p].job = Last(PGs_table) /\ Last(PGs_table) \in Children
            /\ proc[Last(PGs_table)].life # "none"
            /\ proc[Last(PGs_table)].line = line
        BY <2>2, <2>3, <3>3
      <4>2. Len(line.cmds) # 1
        <5>1. Len(line.cmds) = 1 => local.idx \in 1 .. 1
          BY <2>3
        <5> QED BY <3>3, <5>1
      <4>3. proc'[p].line = line
        BY <2>2, <3>3
      <4> QED BY <2>2, <3>3, <4>1, <4>2, <4>3
    <3> QED BY <3>1, <3>2, <3>3
  <2> QED BY <2>4 DEF LineFamilies
<1> QED BY <1>2, <1>3

\* fg is not on the line.
NoFg(l) == \A i \in 1 .. Len(l.cmds) : l.cmds[i] # "fg"

\* The terminal is lent only to jobs without "&", and as long as it is lent the
\* job is listed or the process the shell waited for is gone.
Lending ==
  /\ shellPc # "fgwait"
  /\ shellPc = "stage" => NoFg(line)
  /\ shellPc = "stage" /\ local.idx > 1 =>
       /\ Last(PGs_table) \in Children
       /\ proc[Last(PGs_table)].life # "none"
       /\ proc[Last(PGs_table)].line = line
  /\ shellPc \in {"give", "wait"} => proc[local.pid].line = line /\ ~line.amp
  /\ shellPc = "back" /\ tty # Shell =>
       /\ tty = proc[local.pid].job
       /\ proc[local.pid].life = "reaped" \/ Last(PGs_table) = tty
  /\ tty # Shell =>
       tty \in Children /\ proc[tty].life # "none" /\ ~proc[tty].line.amp

LEMMA PromptLends ==
  ASSUME Kept, Lending, Prompt, tty' \in {tty, Shell}
  PROVE  Lending'
<1>1. shellPc' \in {"prompt", "lost"}
  BY PromptIs
<1>2. tty' # Shell =>
        tty' \in Children /\ proc'[tty'].life # "none" /\ ~proc'[tty'].line.amp
  BY DEF Lending, Kept
<1> QED BY <1>1, <1>2 DEF Lending

LEMMA LendingNext ==
  ASSUME Plain, \A l \in Lines : NoFg(l),
         JobInv, LineFamilies, Lending, [Next]_vars
  PROVE  Lending'
<1>1. Types /\ StoppedLive /\ Known /\ Owner /\ Kept
  BY StepKept DEF JobInv
<1>2. shellPc = "stage" =>
        /\ tty = Shell /\ NoFg(line)
        /\ line \in Typed /\ local.idx \in 1 .. Len(line.cmds)
  BY <1>1, TypesOf DEF Owner, Lending, Types, Place
<1>3. CASE ReadLine
  <2>1. PICK l \in Readable : line' = l
    BY <1>3 DEF ReadLine
  <2>2. /\ shellPc = "prompt" /\ shellPc' = "stage" /\ tty' = tty /\ tty = Shell
        /\ local' = [NoLocal EXCEPT !.idx = 1]
    BY <1>1, <1>3 DEF ReadLine, Owner
  <2>3. local'.idx = 1
    BY <2>2 DEF NoLocal
  <2>4. NoFg(l)
    <3>1. CASE l \in Lines
      BY <3>1
    <3>2. CASE l = Empty
      <4>1. \A i \in 1 .. Len(<<"null">>) : <<"null">>[i] # "fg"
        OBVIOUS
      <4> QED BY <3>2, <4>1, EmptyLine DEF NoFg
    <3> QED BY <3>1, <3>2 DEF Readable
  <2>5. NoFg(line)'
    BY <2>1, <2>4 DEF NoFg
  <2> QED BY <2>2, <2>3, <2>5 DEF Lending
<1>4. CASE NullCommand
  BY <1>1, <1>4, PromptLends DEF NullCommand
<1>5. CASE Exit
  BY <1>2, <1>5 DEF Exit, Lending
<1>6. CASE Report
  <2>1. Prompt
    BY <1>1, <1>6, PlainBuiltin, Builtin, LastReturns DEF Report
  <2> QED BY <1>1, <1>6, <2>1, PromptLends DEF Report
<1>7. CASE Bg
  <2>1. Prompt
    BY <1>1, <1>7, PlainBuiltin, Builtin, LastReturns DEF Bg, BgReturn
  <2> QED BY <1>1, <1>7, <2>1, PromptLends DEF Bg
<1>8. ~Fg
  BY <1>2 DEF Fg, NoFg, Cmd
<1>9. ~FgWait /\ ~FgDone
  BY DEF FgWait, FgDone, Lending
<1>10. CASE Fork
  <2>1. PICK p \in Children : ForkOf(p)
    BY <1>1, <1>10, ForkKept
  <2>2. /\ shellPc = "stage" /\ tty' = Shell /\ line' = line
        /\ proc'[p].line = line /\ proc'[p].life = "born"
    BY <1>2, <1>10, <2>1 DEF Fork, ForkOf
  <2>3. local \in Locals
    BY <1>1 DEF Types, TypeOK, Locals
  <2>4. CASE local.idx = Len(line.cmds)
    <3>1. /\ local' = [local EXCEPT !.pid = p]
          /\ shellPc' = IF line.amp THEN "back" ELSE "give"
      BY <2>1, <2>4 DEF ForkOf
    <3>2. local'.pid = p
      BY <2>3, <3>1 DEF Locals
    <3> QED BY <2>2, <3>1, <3>2 DEF Lending
  <2>5. CASE local.idx # Len(line.cmds)
    <3>1. shellPc' = "stage"
      BY <2>1, <2>2, <2>5 DEF ForkOf
    <3>2. /\ Last(PGs_table') \in Children
          /\ proc'[Last(PGs_table')].life # "none"
          /\ proc'[Last(PGs_table')].line = line
      <4>1. CASE local.idx = 1
        <5>1. Last(PGs_table') = p
          BY <1>1, <2>1, <2>2, <4>1, ForkTables
        <5> QED BY <2>2, <5>1
      <4>2. CASE local.idx # 1
        <5>1. PGs_table' = PGs_table /\ local.idx > 1
          BY <1>2, <2>1, <2>2, <4>2 DEF ForkOf
        <5> QED BY <1>1, <2>2, <5>1 DEF Lending, Kept
      <4> QED BY <4>1, <4>2
    <3>3. NoFg(line)'
      BY <1>2, <2>2 DEF NoFg
    <3> QED BY <2>2, <3>1, <3>2, <3>3 DEF Lending
  <2> QED BY <2>4, <2>5
<1>11. CASE Give
  <2>1. /\ shellPc = "give" /\ shellPc' = "wait" /\ UNCHANGED <<tables, proc, line, local>>
        /\ tty' \in {tty, Last(PGs_table)}
    BY <1>11 DEF Give, SetForeground, ForegroundGroup
  <2>2. Last(PGs_table) = proc[local.pid].job /\ tty = Shell /\ Started(local.pid)
    BY <1>1, <2>1 DEF Owner, Known
  <2>3. proc[local.pid].line = line /\ ~line.amp
    BY <2>1 DEF Lending
  <2>4. /\ Last(PGs_table) \in Children /\ proc[Last(PGs_table)].life # "none"
        /\ ~proc[Last(PGs_table)].line.amp
    BY <2>2, <2>3 DEF LineFamilies, Started
  <2> QED BY <2>1, <2>2, <2>3, <2>4 DEF Lending
<1>12. CASE WaitStopped \/ WaitExited
  <2>1. /\ shellPc = "wait" /\ shellPc' \in {"back", "lost"}
        /\ UNCHANGED <<stdio, tty, line, local>>
    BY <1>12 DEF WaitStopped, WaitExited, Go
  <2>2. Started(local.pid) /\ proc[local.pid].line = line /\ ~line.amp
    BY <1>1, <2>1 DEF Lending, Known
  <2>3. tty # Shell => tty = proc[local.pid].job /\ Last(PGs_table) = tty
    <3>1. stdio.in \in {"tty", "file"}
      BY <1>1, TypesOf DEF Types
    <3> QED BY <1>1, <2>1, <3>1 DEF Owner
  <2>4. proc'[local.pid].job = proc[local.pid].job
    BY <1>1, <2>2 DEF Started, Kept
  <2>5. proc'[local.pid].life = "reaped" \/ PGs_table' = PGs_table
    <3>1. CASE WaitStopped
      BY <3>1 DEF WaitStopped, tables
    <3>2. CASE WaitExited
      <4>1. Reap(local.pid) /\ proc[local.pid].life = "zombie"
        BY <3>2 DEF WaitExited
      <4> QED BY <1>1, <2>2, <4>1, ReapKept DEF Types, Started
    <3> QED BY <1>12, <3>1, <3>2
  <2>6. tty' # Shell =>
          tty' \in Children /\ proc'[tty'].life # "none" /\ ~proc'[tty'].line.amp
    BY <1>1, <2>1 DEF Lending, Kept
  <2> QED BY <2>1, <2>3, <2>4, <2>5, <2>6 DEF Lending
<1>13. CASE TakeBack
  <2>1. shellPc = "back" /\ Prompt /\ SetForeground(stdio, ShellEntry)
    BY <1>13 DEF TakeBack
  <2>2. ShellEntry = Shell
    BY <1>1, <2>1 DEF Types, Place, ShellEntry
  <2> QED BY <1>1, <2>1, <2>2, PromptLends DEF SetForeground
<1>14. CASE Elsewhere /\ Settled
  <2>1. UNCHANGED <<PGs_table, tty, shellPc, line, local>>
    BY <1>14 DEF Elsewhere, tables
  <2>2. shellPc = "stage" /\ local.idx > 1 =>
          /\ proc'[Last(PGs_table)].life # "none"
          /\ proc'[Last(PGs_table)].line = line
    BY <1>1 DEF Lending, Kept
  <2>3. shellPc \in {"give", "wait", "back"} =>
          /\ local.pid \in Children
          /\ proc'[local.pid].job = proc[local.pid].job
          /\ proc'[local.pid].line = proc[local.pid].line
    BY <1>1 DEF Known, Started, Kept
  <2>4. tty # Shell => proc'[tty].life # "none" /\ ~proc'[tty].line.amp
    BY <1>1 DEF Lending, Kept
  <2>5. shellPc = "back" /\ proc[local.pid].life = "reaped" =>
          proc'[local.pid].life = "reaped"
    BY <1>14, <2>3 DEF Settled
  <2>6. NoFg(line)' <=> NoFg(line)
    BY <2>1 DEF NoFg
  <2> QED BY <2>1, <2>2, <2>3, <2>4, <2>5, <2>6 DEF Lending
<1>15. (\E p \in Children : ChildRun(p) \/ ChildExit(p)) => Elsewhere /\ Settled
  <2>1. SUFFICES ASSUME NEW p \in Children, ChildRun(p) \/ ChildExit(p)
                 PROVE  Elsewhere /\ Settled
    OBVIOUS
  <2> QED BY <1>1, <2>1, ChildSteps DEF Types, Quiet, Settled
<1>16. PressInt \/ PressStop \/ UNCHANGED vars => Elsewhere /\ Settled
  <2>1. PressInt \/ PressStop \/ UNCHANGED vars => Elsewhere
    BY DEF PressInt, PressStop, vars, Elsewhere
  <2>2. PressInt \/ PressStop => Settled
    BY <1>1, KeyKept DEF Types, Settled
  <2>3. UNCHANGED vars => Settled
    BY DEF vars, Settled
  <2> QED BY <2>1, <2>2, <2>3
<1> QED
  BY <1>3, <1>4, <1>5, <1>6, <1>7, <1>8, <1>9, <1>10, <1>11, <1>12, <1>13,
     <1>14, <1>15, <1>16 DEF Next, ShellRun

\* A single command that is stopped in its own group.
Suspended(p) ==
  /\ proc[p].stopped /\ proc[p].pgid = proc[p].job
  /\ ~proc[p].line.amp /\ Len(proc[p].line.cmds) = 1

StoppedListed ==
  shellPc # "lost" => \A p \in Children :
    Suspended(p) => \E i \in 1 .. Len(PGs_table) : PGs_table[i] = p

LEMMA LostStays ==
  ASSUME Types, StoppedLive, [Next]_vars, shellPc = "lost"
  PROVE  shellPc' = "lost"
<1>1. /\ ~ReadLine /\ ~NullCommand /\ ~Exit /\ ~Report /\ ~Bg /\ ~Fg /\ ~FgWait
      /\ ~FgDone /\ ~Fork /\ ~Give /\ ~WaitStopped /\ ~WaitExited /\ ~TakeBack
  BY DEF ReadLine, NullCommand, Exit, Report, Bg, Fg, FgWait, FgDone, Fork, Give,
         WaitStopped, WaitExited, TakeBack
<1>2. (\E p \in Children : ChildRun(p) \/ ChildExit(p)) => Elsewhere
  BY ChildSteps DEF Types
<1>3. PressInt \/ PressStop \/ UNCHANGED vars => Elsewhere
  BY DEF PressInt, PressStop, vars, Elsewhere
<1> QED BY <1>1, <1>2, <1>3 DEF Next, ShellRun, Elsewhere

\* A single command is the process that its group and its job are named after.
LEMMA SingleLeads ==
  ASSUME LineFamilies, NEW p \in Children, proc[p].life # "none",
         Len(proc[p].line.cmds) = 1
  PROVE  /\ proc[p].job = p
         /\ \A q \in Children : proc[q].life # "none" /\ proc[q].job = p => q = p
BY DEF LineFamilies

LEMMA StoppedListedNext ==
  ASSUME Plain, JobInv, LineFamilies, Lending, StoppedListed, [Next]_vars
  PROVE  StoppedListed'
<1>1. Types /\ StoppedLive /\ Known /\ Owner /\ Kept
  BY StepKept DEF JobInv
<1>2. SUFFICES ASSUME shellPc' # "lost", shellPc # "lost", NEW p \in Children, Suspended(p)'
               PROVE  \E i \in 1 .. Len(PGs_table') : PGs_table'[i] = p
  BY <1>1, LostStays DEF StoppedListed
<1>3. /\ PGs_table \in Tables /\ Len(PGs_table) \in Nat /\ Len(PGs_table) > 0
      /\ Last(PGs_table) = PGs_table[Len(PGs_table)]
  <2>1. PGs_table # <<>>
    BY <1>1, <1>2 DEF Types, Place
  <2> QED BY <1>1, <2>1, TypesOf, NotEmpty DEF Types, Tables, Last
<1>4. Suspended(p) => \E i \in 1 .. Len(PGs_table) : PGs_table[i] = p
  BY <1>2 DEF StoppedListed
<1>5. Suspended(p) => /\ proc[p].life # "none" /\ Live(p)
                      /\ proc[p].job = p /\ proc[p].pgid = p
                      /\ \A q \in Children : proc[q].life # "none" /\ proc[q].job = p => q = p
  BY <1>1, SingleLeads DEF Suspended, StoppedLive, Live
<1>6. ASSUME UNCHANGED <<PGs_table, proc>>
      PROVE  \E i \in 1 .. Len(PGs_table') : PGs_table'[i] = p
  BY <1>2, <1>4, <1>6 DEF Suspended
<1>7. CASE Bg
  <2>1. shellPc = "stage" /\ PopJob /\ proc' = Continue(Last(PGs_table))
    BY <1>7 DEF Bg
  <2>2. Last(PGs_table) \in Group
    BY <1>3, LastIs, NotEmpty, ElementOfSeq DEF Tables
  <2>3. /\ proc'[p].life = proc[p].life /\ proc'[p].pgid = proc[p].pgid
        /\ proc'[p].stopped = (proc[p].stopped /\ p \notin Members(Last(PGs_table)))
    BY <1>1, <2>1, <2>2, ContinueKept DEF Types
  <2>4. proc[p].stopped /\ p \notin Members(Last(PGs_table))
    BY <1>2, <2>3 DEF Suspended
  <2>5. proc[p].life # "none"
    BY <1>1, <2>4 DEF StoppedLive, Live
  <2>6. Suspended(p)
    BY <1>1, <1>2, <2>3, <2>4, <2>5 DEF Suspended, Kept
  <2>7. PICK i \in 1 .. Len(PGs_table) : PGs_table[i] = p
    BY <1>4, <2>6
  <2>8. Last(PGs_table) # p
    BY <1>5, <2>4, <2>6 DEF Members
  <2>9. i \in 1 .. Len(PGs_table) - 1
    BY <1>3, <2>7, <2>8
  <2> QED BY <1>1, <1>3, <2>1, <2>7, <2>9, PopJobIs DEF Types
<1>8. CASE WaitExited
  <2>1. /\ shellPc = "wait" /\ PopJob /\ Reap(local.pid)
        /\ proc[local.pid].life = "zombie"
    BY <1>8 DEF WaitExited
  <2>2. /\ local.pid \in Children /\ Last(PGs_table) = proc[local.pid].job
    BY <1>1, <2>1 DEF Types, Place, Owner
  <2>3. /\ proc'[local.pid].pgid = 0
        /\ \A q \in Children : q # local.pid => proc'[q] = proc[q]
    BY <1>1, <2>1, <2>2, ReapKept DEF Types
  <2>4. ~proc[local.pid].stopped
    BY <1>1, <2>1, <2>2 DEF StoppedLive, Live
  <2>5. p # local.pid
    <3>1. proc'[local.pid].job = proc[local.pid].job /\ proc[local.pid].job \in Children
      BY <1>1, <2>1, <2>2 DEF Kept, LineFamilies
    <3> QED BY <1>2, <2>3, <3>1, PidFacts DEF Suspended
  <2>6. Suspended(p)
    BY <1>2, <2>3, <2>5 DEF Suspended
  <2>7. PICK i \in 1 .. Len(PGs_table) : PGs_table[i] = p
    BY <1>4, <2>6
  <2>8. Last(PGs_table) # p
    BY <1>5, <2>1, <2>2, <2>5, <2>6
  <2>9. i \in 1 .. Len(PGs_table) - 1
    BY <1>3, <2>7, <2>8
  <2> QED BY <1>1, <1>3, <2>1, <2>7, <2>9, PopJobIs DEF Types
<1>9. CASE Fork
  <2>1. PICK q \in Children : ForkOf(q)
    BY <1>1, <1>9, ForkKept
  <2>2. /\ proc'[q].stopped = FALSE
        /\ \A r \in Children : r # q => proc'[r] = proc[r]
    BY <2>1 DEF ForkOf
  <2>3. p # q /\ Suspended(p)
    BY <1>2, <2>2 DEF Suspended
  <2>4. PICK i \in 1 .. Len(PGs_table) : PGs_table[i] = p
    BY <1>4, <2>3
  <2>5. CASE local.idx = 1
    <3>1. PGs_table' = Append(PGs_table, q) /\ q \in Group
      BY <2>1, <2>5 DEF ForkOf, Group
    <3> QED BY <1>3, <2>4, <3>1, AppendIs DEF Tables
  <2>6. CASE local.idx # 1
    BY <2>1, <2>4, <2>6 DEF ForkOf
  <2> QED BY <2>5, <2>6
<1>10. ASSUME NEW q \in Children, ChildRun(q) \/ ChildExit(q)
       PROVE  \E i \in 1 .. Len(PGs_table') : PGs_table'[i] = p
  <2>1. Quiet /\ Elsewhere
    BY <1>1, <1>10, ChildSteps DEF Types
  <2>2. proc[p].stopped /\ proc'[p].pgid = proc[p].pgid
    BY <1>2, <2>1 DEF Quiet, Suspended
  <2>3. proc'[p].job = proc[p].job /\ proc'[p].line = proc[p].line
    BY <1>1, <2>2 DEF StoppedLive, Live, Kept
  <2>4. Suspended(p)
    BY <1>2, <2>2, <2>3 DEF Suspended
  <2> QED BY <1>4, <2>1, <2>4 DEF Elsewhere, tables
<1>11. CASE PressInt \/ PressStop
  <2>1. /\ proc'[p].life = proc[p].life /\ proc'[p].pgid = proc[p].pgid
        /\ proc'[p].stopped => proc[p].stopped \/ p \in Members(tty)
    BY <1>1, <1>11, KeyKept DEF Types
  <2>2. PGs_table' = PGs_table /\ shellPc' = shellPc
    BY <1>11 DEF PressInt, PressStop, tables
  <2>3. proc[p].stopped \/ p \in Members(tty)
    BY <1>2, <2>1 DEF Suspended
  <2>4. Live(p) /\ proc[p].life # "none"
    BY <1>1, <2>3 DEF StoppedLive, Live, Members
  <2>5. proc'[p].job = proc[p].job /\ proc'[p].line = proc[p].line
    BY <1>1, <2>4 DEF Kept
  <2>6. CASE proc[p].stopped
    <3>1. Suspended(p)
      BY <1>2, <2>1, <2>5, <2>6 DEF Suspended
    <3> QED BY <1>4, <2>2, <3>1
  <2>7. CASE p \in Members(tty)
    <3>1. proc[p].pgid = proc[p].job /\ Len(proc[p].line.cmds) = 1
      BY <1>2, <2>1, <2>5 DEF Suspended
    <3>2. /\ tty = p
          /\ \A q \in Children : proc[q].life # "none" /\ proc[q].job = p => q = p
      BY <2>4, <2>7, <3>1, SingleLeads DEF Members
    <3>3. tty # Shell
      BY <3>2, PidFacts
    <3>4. stdio.in \in {"tty", "file"}
      BY <1>1, TypesOf DEF Types
    <3>5. shellPc \in {"wait", "back"}
      <4>1. shellPc \in {"prompt", "stage", "give", "wait", "back", "fgwait", "exited"}
        BY <1>1, <1>2 DEF Types, TypeOK
      <4>2. shellPc # "fgwait"
        BY DEF Lending
      <4> QED BY <1>1, <3>3, <4>1, <4>2 DEF Owner
    <3>6. CASE shellPc = "wait"
      BY <1>1, <1>3, <2>2, <3>2, <3>3, <3>4, <3>6 DEF Owner
    <3>7. CASE shellPc = "back"
      <4>1. /\ tty = proc[local.pid].job
            /\ proc[local.pid].life = "reaped" \/ Last(PGs_table) = tty
        BY <3>3, <3>7 DEF Lending
      <4>2. local.pid \in Children /\ proc[local.pid].life # "none"
        BY <1>1, <3>7 DEF Known, Started
      <4>3. local.pid = p
        BY <3>2, <4>1, <4>2
      <4>4. Last(PGs_table) = p
        BY <2>4, <3>2, <4>1, <4>3 DEF Live
      <4>5. Len(PGs_table) \in 1 .. Len(PGs_table) /\ PGs_table[Len(PGs_table)] = p
        BY <1>3, <4>4
      <4> QED BY <2>2, <4>5
    <3> QED BY <3>5, <3>6, <3>7
  <2> QED BY <2>3, <2>6, <2>7
<1>12. ~FgWait /\ ~FgDone
  BY DEF FgWait, FgDone, Lending
<1>13. CASE Fg
  <2>1. PGs_table' = PGs_table /\ proc' = Continue(Last(PGs_table))
    BY <1>13 DEF Fg, tables
  <2>2. Last(PGs_table) \in Group
    BY <1>3, ElementOfSeq DEF Tables
  <2>3. proc[p].stopped /\ proc'[p].pgid = proc[p].pgid
    BY <1>1, <1>2, <2>1, <2>2, ContinueKept DEF Types, Suspended
  <2>4. Suspended(p)
    BY <1>1, <1>2, <2>3 DEF Suspended, Kept, StoppedLive, Live
  <2> QED BY <1>4, <2>1, <2>4
<1>14. ReadLine \/ NullCommand \/ Exit \/ Report \/ Give \/ WaitStopped
         \/ TakeBack \/ UNCHANGED vars
       => UNCHANGED <<PGs_table, proc>>
  BY DEF ReadLine, NullCommand, Exit, Report, Give, WaitStopped, TakeBack, vars, tables
<1> QED
  BY <1>6, <1>7, <1>8, <1>9, <1>10, <1>11, <1>12, <1>13, <1>14 DEF Next, ShellRun

JobsInv == JobInv /\ OwnGroups /\ LineFamilies /\ Lending /\ StoppedListed

LEMMA JobsInvariant ==
  ASSUME Plain, \A l \in Lines : NoFg(l)
  PROVE  Spec => []JobsInv
<1>1. Init => JobsInv
  <2>1. SUFFICES ASSUME Init
                 PROVE  JobsInv
    OBVIOUS
  <2>2. JobInv
    BY <2>1, JobInit
  <2>3. \A p \in Children : proc[p] = NoProc
    BY <2>1 DEF Init
  <2>4. shellPc = "prompt" /\ tty = Shell
    BY <2>1 DEF Init
  <2>5. OwnGroups /\ LineFamilies
    BY <2>3 DEF OwnGroups, LineFamilies, NoProc
  <2>6. Lending
    BY <2>4 DEF Lending
  <2>7. StoppedListed
    BY <2>3 DEF StoppedListed, Suspended, NoProc
  <2> QED BY <2>2, <2>5, <2>6, <2>7 DEF JobsInv
<1>2. JobsInv /\ [Next]_vars => JobsInv'
  <2>1. SUFFICES ASSUME JobsInv, [Next]_vars
                 PROVE  JobsInv'
    OBVIOUS
  <2>2. JobInv /\ OwnGroups /\ LineFamilies /\ Lending /\ StoppedListed
    BY <2>1 DEF JobsInv
  <2>3. Types /\ StoppedLive
    BY <2>2 DEF JobInv
  <2>4. JobInv' /\ OwnGroups'
    BY <2>1, <2>2, <2>3, JobNext, StepKept
  <2>5. LineFamilies'
    BY <2>1, <2>2, <2>3, LineFamiliesNext DEF Lending
  <2>6. Lending' /\ StoppedListed'
    BY <2>1, <2>2, LendingNext, StoppedListedNext
  <2> QED BY <2>4, <2>5, <2>6 DEF JobsInv
<1> QED BY <1>1, <1>2, PTL DEF Spec

\* A single command that Ctrl-Z has stopped in its own group is still in the
\* list that jobs, fg and bg use when the prompt is back, if fg is never typed.
THEOREM StoppedJobsAreListed ==
  ASSUME Plain, \A l \in Lines : NoFg(l)
  PROVE  Spec => []StoppedJobsListed
<1>1. JobsInv => StoppedJobsListed
  <2>1. SUFFICES ASSUME JobsInv, shellPc = "prompt", NEW p \in Children, Suspended(p)
                 PROVE  \E i \in DOMAIN PGs_table : PGs_table[i] = proc[p].job
    BY DEF StoppedJobsListed, Suspended
  <2>2. PICK i \in 1 .. Len(PGs_table) : PGs_table[i] = p
    BY <2>1 DEF JobsInv, StoppedListed
  <2>3. proc[p].life # "none"
    BY <2>1 DEF JobsInv, JobInv, StoppedLive, Suspended, Live
  <2>4. proc[p].job = p
    BY <2>1, <2>3, SingleLeads DEF JobsInv, Suspended
  <2>5. PGs_table \in Tables
    BY <2>1, TypesOf DEF JobsInv, JobInv, Types
  <2>6. DOMAIN PGs_table = 1 .. Len(PGs_table)
    BY <2>5, LenProperties DEF Tables
  <2> QED BY <2>2, <2>4, <2>6
<1>2. Spec => []JobsInv
  BY JobsInvariant
<1> QED BY <1>1, <1>2, PTL

\* The terminal is never given to the group of a program started alone with
\* "&" and running in it, so no key is sent to that group, if fg is never typed.
THEOREM BackgroundIsOutOfReach ==
  ASSUME Plain, \A l \in Lines : NoFg(l),
         \A l \in Lines : l.amp => Len(l.cmds) = 1
  PROVE  Spec => []BackgroundOutOfReach
<1>1. JobsInv => BackgroundOutOfReach
  <2>1. SUFFICES ASSUME JobsInv, NEW p \in Children,
                        proc[p].line.amp, proc[p].life = "run", proc[p].pgid = tty
                 PROVE  FALSE
    BY DEF BackgroundOutOfReach
  <2>2. proc \in [Children -> Proc]
    BY <2>1, TypesOf DEF JobsInv, JobInv, Types
  <2>3. proc[p].line \in Typed
    BY <2>2, ProcFields
  <2>4. Len(proc[p].line.cmds) = 1
    BY <2>1, <2>3, EmptyLine DEF Typed
  <2>5. proc[p].job = p
    BY <2>1, <2>4, SingleLeads DEF JobsInv
  <2>6. proc[p].pgid = p
    BY <2>1, <2>5 DEF JobsInv, OwnGroups
  <2>7. tty = p /\ tty # Shell
    BY <2>1, <2>6, PidFacts
  <2> QED BY <2>1, <2>7 DEF JobsInv, Lending
<1>2. Spec => []JobsInv
  BY JobsInvariant
<1> QED BY <1>1, <1>2, PTL
=============================================================================
