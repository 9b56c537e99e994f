-------------------------- MODULE ShellWordsProofs ---------------------------
(***************************************************************************)
(* Proofs about ShellWords.tla: what the parser makes of a line, for every  *)
(* set of words and every size of the arrays.                               *)
(***************************************************************************)
EXTENDS ShellWords, SequenceTheorems, FiniteSetTheorems, TLAPS

-----------------------------------------------------------------------------
(* Induction, and the recursive definitions the properties are made of.     *)

LEMMA LeastExists ==
  ASSUME NEW S, S \subseteq Nat, S # {}
  PROVE  \E m \in S : \A k \in S : m <= k
<1> DEFINE R == {ss \in Nat \X Nat : ss[1] < ss[2]}
<1>1. IsWellFoundedOn(R, Nat)
  BY NatLessThanWellFounded DEF OpToRel
<1>2. \A k, m \in Nat : k < m => <<k, m>> \in R
  OBVIOUS
<1> HIDE DEF R
<1>3. PICK m \in S : \A k \in S : ~ (<<k, m>> \in R)
  BY <1>1, WFMin
<1>4. \A k \in S : ~(k < m)
  BY <1>2, <1>3
<1> QED BY <1>4

\* A set of numbers with 0 and the successor of each of its numbers has all.
LEMMA Induction ==
  ASSUME NEW S, 0 \in S, \A n \in Nat : n \in S => n + 1 \in S
  PROVE  \A n \in Nat : n \in S
<1> DEFINE T == Nat \ S
<1> SUFFICES ASSUME T # {}
             PROVE  FALSE
  OBVIOUS
<1>1. PICK m \in T : \A k \in T : m <= k
  BY LeastExists
<1>2. m # 0 /\ m \in Nat
  OBVIOUS
<1>3. m - 1 \in Nat /\ m - 1 < m
  BY <1>2
<1>4. m - 1 \notin T
  BY <1>1, <1>2, <1>3
<1> QED BY <1>3, <1>4

\* FlattenSeq takes the sequences in turn.
FlatTo(s, f) ==
  f = [i \in 1 .. Len(s) |-> IF i = 1 THEN s[i] ELSE f[i - 1] \o s[i]]

LEMMA FlattenIs ==
  ASSUME NEW s, Len(s) # 0
  PROVE  FlattenSeq(s) = (CHOOSE f : FlatTo(s, f))[Len(s)]
BY DEF FlattenSeq, FlatTo

\* The value of Roles for a line.
RolesOf(line) ==
  CHOOSE role : role = [k \in 1 .. Len(line) |->
        IF k = 1 THEN "name"
        ELSE CASE role[k - 1] = "pipe" -> "name"
               [] role[k - 1] \in {"in", "out"} -> "file"
               [] role[k - 1] \in {"amp", "rest"} -> "rest"
               [] OTHER -> Operator(line[k])]

LEMMA RolesIs == Roles = RolesOf(text)
BY DEF Roles, RolesOf

\* f[i] is what the first i sequences of s give, for i up to n.
Flat(s, n, f) == \A i \in 1 .. n : f[i] = IF i = 1 THEN s[i] ELSE f[i - 1] \o s[i]

LEMMA FlatExists ==
  ASSUME NEW X, NEW s \in Seq(Seq(X))
  PROVE  \E f \in [1 .. Len(s) -> Seq(X)] : Flat(s, Len(s), f)
<1> DEFINE T == {n \in Nat : n <= Len(s) => \E f \in [1 .. n -> Seq(X)] : Flat(s, n, f)}
<1>1. 0 \in T
  <2> DEFINE f == [i \in 1 .. 0 |-> << >>]
  <2>1. f \in [1 .. 0 -> Seq(X)] /\ \A i : i \notin 1 .. 0
    OBVIOUS
  <2> HIDE DEF f
  <2>2. Flat(s, 0, f)
    BY <2>1 DEF Flat
  <2> QED BY <2>1, <2>2
<1>2. ASSUME NEW n \in Nat, n \in T
      PROVE  n + 1 \in T
  <2> SUFFICES ASSUME n + 1 <= Len(s)
               PROVE  \E f \in [1 .. n + 1 -> Seq(X)] : Flat(s, n + 1, f)
    OBVIOUS
  <2>1. PICK g \in [1 .. n -> Seq(X)] : Flat(s, n, g)
    BY <1>2
  <2>2. s[n + 1] \in Seq(X)
    BY ElementOfSeq
  <2> DEFINE new == IF n + 1 = 1 THEN s[n + 1] ELSE g[n] \o s[n + 1]
             f == [i \in 1 .. n + 1 |-> IF i <= n THEN g[i] ELSE new]
  <2>3. new \in Seq(X)
    <3>1. n # 0 => g[n] \in Seq(X)
      OBVIOUS
    <3>2. n # 0 => g[n] \o s[n + 1] \in Seq(X)
      BY <2>2, <3>1, ConcatProperties
    <3> QED BY <2>2, <3>2
  <2> HIDE DEF new
  <2>4. f \in [1 .. n + 1 -> Seq(X)]
    BY <2>3
  <2>5. \A i \in 1 .. n : f[i] = g[i]
    OBVIOUS
  <2>6. f[n + 1] = new
    OBVIOUS
  <2>7. ASSUME NEW i \in 1 .. n + 1
        PROVE  f[i] = IF i = 1 THEN s[i] ELSE f[i - 1] \o s[i]
    <3>1. CASE i <= n
      <4>1. i \in 1 .. n /\ (i # 1 => i - 1 \in 1 .. n)
        BY <3>1
      <4>2. g[i] = IF i = 1 THEN s[i] ELSE g[i - 1] \o s[i]
        BY <2>1, <4>1 DEF Flat
      <4> HIDE DEF f
      <4> QED BY <2>5, <4>1, <4>2
    <3>2. CASE ~(i <= n)
      <4>1. i = n + 1 /\ i - 1 = n
        BY <3>2
      <4>2. n # 0 => n \in 1 .. n
        OBVIOUS
      <4> HIDE DEF f
      <4> QED BY <2>5, <2>6, <4>1, <4>2 DEF new
    <3> QED BY <3>1, <3>2
  <2> HIDE DEF f
  <2> QED BY <2>4, <2>7 DEF Flat
<1> HIDE DEF T
<1>3. Len(s) \in T
  <2>1. Len(s) \in Nat
    OBVIOUS
  <2> QED BY <1>1, <1>2, <2>1, Induction
<1> QED BY <1>3 DEF T

LEMMA FlatUnique ==
  ASSUME NEW s, NEW n \in Nat, NEW f, NEW g, Flat(s, n, f), Flat(s, n, g)
  PROVE  \A i \in 1 .. n : f[i] = g[i]
<1> DEFINE T == {i \in Nat : i \in 1 .. n => f[i] = g[i]}
<1>1. 0 \in T
  OBVIOUS
<1>2. ASSUME NEW i \in Nat, i \in T
      PROVE  i + 1 \in T
  <2> SUFFICES ASSUME i + 1 \in 1 .. n
               PROVE  f[i + 1] = g[i + 1]
    OBVIOUS
  <2>1. CASE i = 0
    BY <2>1 DEF Flat
  <2>2. CASE i # 0
    <3>1. i \in 1 .. n /\ (i + 1) - 1 = i /\ i + 1 # 1
      BY <2>2
    <3>2. f[i] = g[i]
      BY <1>2, <3>1
    <3>3. f[i + 1] = f[i] \o s[i + 1] /\ g[i + 1] = g[i] \o s[i + 1]
      BY <3>1 DEF Flat
    <3> QED BY <3>2, <3>3
  <2> QED BY <2>1, <2>2
<1> HIDE DEF T
<1>3. \A i \in Nat : i \in T
  BY <1>1, <1>2, Induction
<1> QED BY <1>3 DEF T

LEMMA FlattenAt ==
  ASSUME NEW X, NEW s \in Seq(Seq(X)), Len(s) # 0
  PROVE  \E f \in [1 .. Len(s) -> Seq(X)] :
           Flat(s, Len(s), f) /\ FlattenSeq(s) = f[Len(s)]
<1>1. PICK g \in [1 .. Len(s) -> Seq(X)] : Flat(s, Len(s), g)
  BY FlatExists
<1>2. FlatTo(s, g)
  <2>1. g = [i \in 1 .. Len(s) |-> g[i]]
    OBVIOUS
  <2>2. \A i \in 1 .. Len(s) : g[i] = IF i = 1 THEN s[i] ELSE g[i - 1] \o s[i]
    BY <1>1 DEF Flat
  <2> QED BY <2>1, <2>2 DEF FlatTo
<1> DEFINE f == CHOOSE h : FlatTo(s, h)
<1>3. FlatTo(s, f)
  BY <1>2
<1> HIDE DEF f
<1>4. Flat(s, Len(s), f)
  BY <1>3 DEF FlatTo, Flat
<1>5. Len(s) \in Nat /\ Len(s) \in 1 .. Len(s)
  OBVIOUS
<1>6. f[Len(s)] = g[Len(s)]
  BY <1>1, <1>4, <1>5, FlatUnique
<1> QED BY <1>1, <1>6, FlattenIs DEF f

LEMMA FlattenProperties ==
  ASSUME NEW X
  PROVE  /\ FlattenSeq(<< >>) = << >>
         /\ \A s \in Seq(Seq(X)) : FlattenSeq(s) \in Seq(X)
         /\ \A s \in Seq(Seq(X)), e \in Seq(X) :
              FlattenSeq(Append(s, e)) = FlattenSeq(s) \o e
<1>1. FlattenSeq(<< >>) = << >>
  BY DEF FlattenSeq
<1>2. ASSUME NEW s \in Seq(Seq(X))
      PROVE  FlattenSeq(s) \in Seq(X)
  <2>1. CASE Len(s) = 0
    <3>1. s = << >> /\ << >> \in Seq(X)
      BY <2>1, EmptySeq
    <3> QED BY <1>1, <3>1
  <2>2. CASE Len(s) # 0
    <3>1. PICK f \in [1 .. Len(s) -> Seq(X)] : FlattenSeq(s) = f[Len(s)]
      BY <2>2, FlattenAt
    <3>2. Len(s) \in Nat
      OBVIOUS
    <3>3. Len(s) \in 1 .. Len(s)
      BY <2>2, <3>2
    <3> QED BY <3>1, <3>3
  <2> QED BY <2>1, <2>2
<1>3. ASSUME NEW s \in Seq(Seq(X)), NEW e \in Seq(X)
      PROVE  FlattenSeq(Append(s, e)) = FlattenSeq(s) \o e
  <2> DEFINE t == Append(s, e)
  <2>1. /\ t \in Seq(Seq(X)) /\ Len(t) = Len(s) + 1 /\ Len(s) \in Nat
        /\ \A i \in 1 .. Len(s) : t[i] = s[i]
        /\ t[Len(s) + 1] = e
    BY AppendProperties
  <2> HIDE DEF t
  <2>2. PICK f \in [1 .. Len(t) -> Seq(X)] : Flat(t, Len(t), f) /\ FlattenSeq(t) = f[Len(t)]
    <3>1. Len(t) # 0
      BY <2>1
    <3> QED BY <2>1, <3>1, FlattenAt
  <2>3. CASE Len(s) = 0
    <3>1. s = << >>
      BY <2>3, EmptySeq
    <3>2. f[1] = t[1] /\ t[1] = e /\ Len(t) = 1
      BY <2>1, <2>2, <2>3 DEF Flat
    <3>3. << >> \o e = e
      BY ConcatEmptySeq
    <3> QED BY <1>1, <2>2, <3>1, <3>2, <3>3 DEF t
  <2>4. CASE Len(s) # 0
    <3>1. PICK g \in [1 .. Len(s) -> Seq(X)] :
                 Flat(s, Len(s), g) /\ FlattenSeq(s) = g[Len(s)]
      BY <2>4, FlattenAt
    <3>2. Flat(s, Len(s), f)
      <4> SUFFICES ASSUME NEW i \in 1 .. Len(s)
                   PROVE  f[i] = IF i = 1 THEN s[i] ELSE f[i - 1] \o s[i]
        BY DEF Flat
      <4>1. i \in 1 .. Len(t) /\ t[i] = s[i]
        BY <2>1
      <4> QED BY <2>2, <4>1 DEF Flat
    <3>3. f[Len(s)] = g[Len(s)]
      <4>1. Len(s) \in 1 .. Len(s)
        BY <2>1, <2>4
      <4> QED BY <2>1, <3>1, <3>2, <4>1, FlatUnique
    <3>4. f[Len(s) + 1] = f[Len(s)] \o e
      <4>1. Len(s) + 1 \in 1 .. Len(t) /\ Len(s) + 1 # 1 /\ (Len(s) + 1) - 1 = Len(s)
        BY <2>1, <2>4
      <4> QED BY <2>1, <2>2, <4>1 DEF Flat
    <3> QED BY <2>1, <2>2, <3>1, <3>3, <3>4 DEF t
  <2> QED BY <2>3, <2>4
<1> QED BY <1>1, <1>2, <1>3

-----------------------------------------------------------------------------
(* Types, and what holds at each place in the program.                      *)

Rows == [0 .. MAX_PIPE_NUM - 1 -> [0 .. MAX_ARGC - 1 -> Args]]
Texts == Words \cup UNION {Range(Matches[p]) : p \in Patterns}

LEMMA Sizes == MAX_ARGC \in Nat \ {0} /\ MAX_PIPE_NUM \in Nat \ {0} /\ MaxWords \in Nat
BY SizeAssumption

LEMMA Found ==
  /\ Operators \subseteq Words
  /\ \A p \in Patterns : Matches[p] \in Seq(Texts) /\ Range(Matches[p]) \subseteq Texts
  /\ \A p \in Patterns : \A i \in 1 .. Len(Matches[p]) :
       Matches[p][i] \in Texts \ (Operators \cup Marks)
  /\ Texts \cap Marks = {}
<1>1. ASSUME NEW p \in Patterns
      PROVE  /\ Matches[p] \in Seq(Texts) /\ Range(Matches[p]) \subseteq Texts
             /\ \A i \in 1 .. Len(Matches[p]) :
                  Matches[p][i] \in Texts \ (Operators \cup Marks)
             /\ Range(Matches[p]) \cap Marks = {}
  <2> DEFINE m == Matches[p]
             R == Range(Matches[p]) \ (Operators \cup Marks)
  <2>1. m \in Seq(R)
    BY WordsAssumption
  <2>2. Range(m) \subseteq Texts
    BY DEF Texts
  <2> HIDE DEF m
  <2>3. \A i \in 1 .. Len(m) : m[i] \in R
    BY <2>1, ElementOfSeq
  <2>4. DOMAIN m = 1 .. Len(m)
    BY <2>1, LenProperties
  <2>5. Range(m) \subseteq R
    <3> HIDE DEF R
    <3> QED BY <2>3, <2>4 DEF Range
  <2>6. R \subseteq Texts
    BY <2>2 DEF m
  <2>7. m \in Seq(Texts)
    <3> HIDE DEF R
    <3> QED BY <2>1, <2>6, SeqMonotonic
  <2> QED BY <2>2, <2>3, <2>5, <2>6, <2>7 DEF m
<1>2. Operators \subseteq Words /\ Words \cap Marks = {}
  BY WordsAssumption DEF Words
<1>3. Texts \cap Marks = {}
  BY <1>1, <1>2 DEF Texts
<1> QED BY <1>1, <1>2, <1>3

\* The sets of words are apart, and none holds a mark.
LEMMA Kinds ==
  /\ "NULL" \notin Texts /\ "junk" \notin Texts /\ "none" \notin Texts /\ "end" \notin Texts
  /\ \A w \in Programs \cup Builtins : w \notin Patterns /\ w \notin Operators
  /\ \A w \in Patterns : w \notin Operators
  /\ Words \subseteq Texts
  /\ \A w \in Words : w \in Programs \cup Builtins \/ w \in Patterns \/ w \in Operators
BY Found, WordsAssumption DEF Marks, Words, Texts

LEMMA ArgsHave ==
  /\ Null \in Args /\ Junk \in Args
  /\ \A w \in Texts, g \in 0 .. MaxWords : Arg(w, g) \in Args
  /\ \A x \in Args : x.word \in Texts \cup {"NULL", "junk"}
BY DEF Args, Texts, Null, Junk, Arg

LEMMA PutIs ==
  ASSUME argv_store \in Rows, cmd_idx \in 0 .. MAX_PIPE_NUM - 1,
         NEW a \in Nat, NEW args \in Seq(Args), a + Len(args) <= MAX_ARGC, Put(a, args)
  PROVE  /\ argv_store' \in Rows
         /\ \A c \in 0 .. MAX_PIPE_NUM - 1 : c # cmd_idx => argv_store'[c] = argv_store[c]
         /\ \A b \in 0 .. MAX_ARGC - 1 :
              argv_store'[cmd_idx][b] =
                IF b \in a .. a + Len(args) - 1 THEN args[b - a + 1]
                ELSE argv_store[cmd_idx][b]
<1> DEFINE old == argv_store[cmd_idx]
           row == [b \in DOMAIN old |->
                    IF b \in a .. a + Len(args) - 1 THEN args[b - a + 1] ELSE old[b]]
<1>1. old \in [0 .. MAX_ARGC - 1 -> Args]
  BY DEF Rows
<1>2. argv_store' = [argv_store EXCEPT ![cmd_idx] = row]
  BY DEF Put
<1> HIDE DEF old
<1>3. \A b \in 0 .. MAX_ARGC - 1 :
        row[b] = IF b \in a .. a + Len(args) - 1 THEN args[b - a + 1] ELSE old[b]
  BY <1>1
<1>4. row \in [0 .. MAX_ARGC - 1 -> Args]
  <2>1. Len(args) \in Nat
    OBVIOUS
  <2>2. ASSUME NEW b \in 0 .. MAX_ARGC - 1, b \in a .. a + Len(args) - 1
        PROVE  args[b - a + 1] \in Args
    <3>1. b - a + 1 \in 1 .. Len(args)
      BY <2>1, <2>2, Sizes
    <3> QED BY <3>1, ElementOfSeq
  <2> QED BY <1>1, <2>2
<1> HIDE DEF row
<1>5. argv_store'[cmd_idx] = row /\ argv_store' \in Rows
  BY <1>2, <1>4 DEF Rows
<1>6. \A c \in 0 .. MAX_PIPE_NUM - 1 : c # cmd_idx => argv_store'[c] = argv_store[c]
  BY <1>2 DEF Rows
<1> QED BY <1>3, <1>5, <1>6 DEF old

Place ==
  /\ pc \in {"prompt", "first", "word"} => ret = 0
  /\ pc = "prompt" =>
       text = << >> /\ next = 1 /\ cmd_idx = 0 /\ cmd_offset = 0 /\ argc = 0 /\ freed = {}
  /\ pc = "first" => next <= Len(text) + 1 /\ freed = {}
  /\ pc = "word" =>
       /\ cmd_idx < MAX_PIPE_NUM /\ argc > 0 /\ freed = {}
       /\ cmd_offset + 1 < next /\ next <= Len(text) + 1
  /\ pc = "loop" =>
       /\ cmd_idx < MAX_PIPE_NUM /\ freed = {}
       /\ cmd_offset + ret <= Len(text) /\ next <= Len(text) + 1
  /\ pc = "stage" =>
       argc <= cmd_idx /\ cmd_idx < MAX_PIPE_NUM /\ (freed # {} => ForkedBefore(argc))

TypeInv == TypeOK /\ Place

LEMMA TypeInit == Init => TypeInv
<1> SUFFICES ASSUME Init
             PROVE  TypeInv
  OBVIOUS
<1>1. text \in Seq(Words) /\ Len(text) = 0
  BY EmptySeq DEF Init
<1>2. argv_store \in Rows
  BY ArgsHave DEF Init, Fresh, Rows
<1> QED BY <1>1, <1>2, Sizes DEF Init, TypeInv, TypeOK, Place, Rows, Files

LEMMA TypeReadLine == TypeInv /\ ReadLine => TypeInv'
<1> SUFFICES ASSUME TypeInv, ReadLine
             PROVE  TypeInv'
  OBVIOUS
<1> USE DEF TypeInv, TypeOK, Place
<1>1. PICK n \in 0 .. MaxWords : text' \in [1 .. n -> Words]
  BY DEF ReadLine
<1>2. text' \in Seq(Words) /\ Len(text') = n
  BY <1>1
<1>3. UNCHANGED <<next, ret, argv_store, cmd_idx, cmd_offset, argc, glob_result, freed>>
  BY DEF ReadLine, locals, heap
<1>4. pc' = "first" /\ parse_end' = 0
  BY DEF ReadLine
<1>5. {REDIRECT_IN, REDIRECT_OUT}' \subseteq Files /\ BACKGROUND_MODE' \in BOOLEAN
  BY DEF ReadLine, Files
<1>6. pc = "prompt"
  BY DEF ReadLine
<1>7. TypeOK'
  BY <1>1, <1>2, <1>3, <1>4, <1>5, <1>6, Sizes
<1>8. Place'
  BY <1>2, <1>3, <1>4, <1>6
<1> QED BY <1>7, <1>8

\* The word the parser is at.
LEMMA HereIs ==
  ASSUME TypeInv, pc = "word"
  PROVE  /\ next \in Nat \ {0} /\ Len(text) \in Nat
         /\ Here # "end" <=> next <= Len(text)
         /\ next <= Len(text) =>
              Here = text[next] /\ text[next] \in Words /\ next \in 1 .. Len(text)
<1>1. Len(text) \in Nat /\ next \in Nat \ {0}
  BY DEF TypeInv, TypeOK
<1>2. next <= Len(text) => text[next] \in Words /\ next \in 1 .. Len(text)
  <2> SUFFICES ASSUME next <= Len(text)
               PROVE  text[next] \in Words /\ next \in 1 .. Len(text)
    OBVIOUS
  <2>1. next \in 1 .. Len(text) /\ text \in Seq(Words)
    BY <1>1 DEF TypeInv, TypeOK
  <2> QED BY <2>1, ElementOfSeq
<1>3. "end" \notin Words
  BY Kinds
<1> QED BY <1>1, <1>2, <1>3 DEF Here

LEMMA TypeParseFirst == TypeInv /\ ParseFirst => TypeInv'
<1> SUFFICES ASSUME TypeInv, ParseFirst
             PROVE  TypeInv'
  OBVIOUS
<1> USE DEF TypeInv, TypeOK, Place
<1>1. argv_store \in Rows /\ cmd_idx \in 0 .. MAX_PIPE_NUM - 1 /\ Len(text) \in Nat
  <2>1. cmd_idx < MAX_PIPE_NUM
    BY DEF ParseFirst
  <2> QED BY <2>1, Sizes DEF Rows
<1> DEFINE first == cmd_offset + 1
<1>2. CASE first > Len(text)
  <2>1. Put(0, <<Null>>) /\ Return(0) /\ UNCHANGED next
    BY <1>2 DEF ParseFirst
  <2>2. <<Null>> \in Seq(Args) /\ 0 + Len(<<Null>>) <= MAX_ARGC
    BY ArgsHave, Sizes
  <2>3. argv_store' \in Rows
    BY <1>1, <2>1, <2>2, PutIs
  <2> QED BY <1>1, <1>2, <2>1, <2>3, Sizes DEF ParseFirst, Return, Rows, flags, heap
<1>3. CASE ~(first > Len(text))
  <2>1. /\ Put(0, <<Arg(text[first], 0)>>)
        /\ next' = first + 1 /\ pc' = "word" /\ UNCHANGED ret
    BY <1>3 DEF ParseFirst
  <2>2. first \in 1 .. Len(text)
    BY <1>1, <1>3
  <2>3. text[first] \in Texts
    <3>1. text[first] \in Words
      BY <2>2, ElementOfSeq
    <3> QED BY <3>1, Kinds
  <2>4. <<Arg(text[first], 0)>> \in Seq(Args) /\ Len(<<Arg(text[first], 0)>>) = 1
    <3>1. Arg(text[first], 0) \in Args
      BY <2>3, ArgsHave, Sizes
    <3> QED BY <3>1
  <2>5. argv_store' \in Rows
    BY <1>1, <2>1, <2>4, PutIs, Sizes
  <2> QED BY <1>1, <1>3, <2>1, <2>2, <2>5, Sizes DEF ParseFirst, Rows, flags, heap
<1> QED BY <1>2, <1>3

\* The cases of a step in parser's loop that only stores a null pointer.
LEMMA NullPut ==
  ASSUME TypeInv, InLoop, Put(argc, <<Null>>)
  PROVE  argv_store' \in Rows
<1>1. /\ argv_store \in Rows /\ cmd_idx \in 0 .. MAX_PIPE_NUM - 1
      /\ argc \in Nat /\ argc + 1 <= MAX_ARGC
  BY Sizes DEF TypeInv, TypeOK, Place, Rows, InLoop, Room
<1>2. <<Null>> \in Seq(Args) /\ Len(<<Null>>) = 1
  BY ArgsHave
<1> QED BY <1>1, <1>2, PutIs

LEMMA TypeParseEnd == TypeInv /\ ParseEnd => TypeInv'
<1> SUFFICES ASSUME TypeInv, ParseEnd
             PROVE  TypeInv'
  OBVIOUS
<1>1. argv_store' \in Rows
  BY NullPut DEF ParseEnd
<1>2. pc = "word"
  BY DEF ParseEnd, InLoop
<1> QED BY <1>1, <1>2, HereIs, Sizes
        DEF ParseEnd, Return, TypeInv, TypeOK, Place, Rows, flags, heap

LEMMA TypeParseWord == TypeInv /\ ParseWord => TypeInv'
<1> SUFFICES ASSUME TypeInv, ParseWord
             PROVE  TypeInv'
  OBVIOUS
<1>1. pc = "word" /\ Here \in Words /\ argc + 1 <= MAX_ARGC
  BY DEF ParseWord, InLoop, Words, Room
<1>2. next <= Len(text)
  BY <1>1, HereIs, Kinds
<1>3. argv_store' \in Rows
  <2>1. Arg(Here, 0) \in Args
    BY <1>1, ArgsHave, Kinds, Sizes
  <2>2. <<Arg(Here, 0)>> \in Seq(Args) /\ Len(<<Arg(Here, 0)>>) = 1
    BY <2>1
  <2>3. argv_store \in Rows /\ cmd_idx \in 0 .. MAX_PIPE_NUM - 1 /\ argc \in Nat
    BY <1>1, Sizes DEF TypeInv, TypeOK, Place, Rows
  <2> QED BY <1>1, <2>2, <2>3, PutIs DEF ParseWord
<1> QED BY <1>1, <1>2, <1>3, HereIs, Sizes
        DEF ParseWord, TypeInv, TypeOK, Place, Rows, flags, heap

\* What ParsePattern leaves alone.
LEMMA RestOfPattern ==
  ASSUME TypeInv, ParsePattern, argv_store' \in Rows, next <= Len(text),
         argc' \in 1 .. MAX_ARGC, glob_result' \in 0 .. MaxWords
  PROVE  TypeInv'
<1>1. pc = "word" /\ next' = next + 1
  BY DEF ParsePattern, InLoop
<1>2. UNCHANGED <<text, pc, cmd_idx, cmd_offset, ret, parse_end, flags, freed>>
  BY DEF ParsePattern
<1> QED BY <1>1, <1>2, HereIs, Sizes DEF TypeInv, TypeOK, Place, Rows, flags

LEMMA TypeParsePattern == TypeInv /\ ParsePattern => TypeInv'
<1> SUFFICES ASSUME TypeInv, ParsePattern
             PROVE  TypeInv'
  OBVIOUS
<1> DEFINE names == Matches[Here]
<1>1. /\ pc = "word" /\ Here \in Patterns /\ Here \in Words
      /\ argc + 1 <= MAX_ARGC /\ argc + Len(names) <= MAX_ARGC
  BY DEF ParsePattern, InLoop, Words, Room
<1>2. next <= Len(text)
  BY <1>1, HereIs, Kinds
<1>3. /\ argv_store \in Rows /\ cmd_idx \in 0 .. MAX_PIPE_NUM - 1 /\ argc \in Nat
      /\ next \in 0 .. MaxWords
  BY <1>1, <1>2, HereIs, Sizes DEF TypeInv, TypeOK, Place, Rows
<1>4. names \in Seq(Texts) /\ Len(names) \in Nat
  BY <1>1, Found
<1>5. CASE names = << >>
  <2>1. Put(argc, <<Arg(Here, 0)>>) /\ argc' = argc + 1 /\ glob_result' = 0
    BY <1>5 DEF ParsePattern
  <2>2. Arg(Here, 0) \in Args
    BY <1>1, ArgsHave, Kinds, Sizes
  <2>3. <<Arg(Here, 0)>> \in Seq(Args) /\ Len(<<Arg(Here, 0)>>) = 1
    BY <2>2
  <2>4. argv_store' \in Rows
    BY <1>1, <1>3, <2>1, <2>3, PutIs
  <2>5. argc' \in 1 .. MAX_ARGC /\ glob_result' \in 0 .. MaxWords
    BY <1>1, <1>3, <2>1, <2>4, Sizes
  <2> QED BY <1>1, <1>2, <1>3, <2>4, <2>5, RestOfPattern
<1>6. CASE names # << >>
  <2> DEFINE args == [n \in DOMAIN names |-> Arg(names[n], next)]
  <2>1. Put(argc, args) /\ argc' = argc + Len(names) /\ glob_result' = next
    BY <1>6 DEF ParsePattern
  <2>2. args \in Seq(Args) /\ Len(args) = Len(names)
    <3>1. DOMAIN names = 1 .. Len(names)
      BY <1>4, LenProperties
    <3> HIDE DEF names
    <3>2. \A n \in 1 .. Len(names) : names[n] \in Texts
      BY <1>4, ElementOfSeq
    <3>3. \A n \in 1 .. Len(names) : Arg(names[n], next) \in Args
      BY <1>3, <3>2, ArgsHave
    <3> QED BY <1>4, <3>1, <3>3
  <2>3. Len(names) # 0
    BY <1>4, <1>6, EmptySeq
  <2> HIDE DEF args
  <2>4. argv_store' \in Rows
    BY <1>1, <1>3, <2>1, <2>2, PutIs
  <2> HIDE DEF names
  <2>5. argc' \in 1 .. MAX_ARGC /\ glob_result' \in 0 .. MaxWords
    BY <1>1, <1>3, <1>4, <2>1, <2>3, Sizes
  <2> QED BY <1>1, <1>2, <1>3, <2>4, <2>5, RestOfPattern
<1> QED BY <1>5, <1>6

LEMMA TypeParsePipe == TypeInv /\ ParsePipe => TypeInv'
<1> SUFFICES ASSUME TypeInv, ParsePipe
             PROVE  TypeInv'
  OBVIOUS
<1>1. argv_store' \in Rows
  BY NullPut DEF ParsePipe
<1>2. pc = "word" /\ next <= Len(text)
  BY HereIs DEF ParsePipe, InLoop
<1> QED BY <1>1, <1>2, HereIs, Sizes
        DEF ParsePipe, Return, TypeInv, TypeOK, Place, Rows, flags, heap

LEMMA TypeParseAmp == TypeInv /\ ParseAmp => TypeInv'
<1> SUFFICES ASSUME TypeInv, ParseAmp
             PROVE  TypeInv'
  OBVIOUS
<1>1. argv_store' \in Rows
  BY NullPut DEF ParseAmp
<1>2. pc = "word" /\ next <= Len(text)
  BY HereIs DEF ParseAmp, InLoop
<1> QED BY <1>1, <1>2, HereIs, Sizes
        DEF ParseAmp, Return, TypeInv, TypeOK, Place, Rows, heap

LEMMA TypeOverflow == TypeInv /\ Overflow => TypeInv'
<1> SUFFICES ASSUME TypeInv, Overflow
             PROVE  TypeInv'
  OBVIOUS
<1>1. pc # "stage" /\ pc' = "lost"
  BY DEF Overflow
<1> QED BY <1>1 DEF Overflow, TypeInv, TypeOK, Place, Rows, flags, heap

LEMMA TypeLoop == TypeInv /\ Loop => TypeInv'
<1> SUFFICES ASSUME TypeInv, Loop
             PROVE  TypeInv'
  OBVIOUS
<1>1. pc = "loop" /\ cmd_offset + ret <= Len(text) /\ cmd_idx < MAX_PIPE_NUM
  BY DEF Loop, TypeInv, Place
<1>2. CASE cmd_offset + ret = 0 \/ argc = 0 \/ parse_end = 1
  <2>1. /\ pc' = "stage" /\ argc' = 0 /\ ret' = 0 /\ cmd_offset' = cmd_offset + ret
        /\ UNCHANGED <<cmd_idx, parse_end, text, next, argv_store, flags, heap>>
    BY <1>2 DEF Loop
  <2>2. TypeOK'
    BY <1>1, <2>1, Sizes DEF TypeInv, TypeOK, flags, heap
  <2>3. Place'
    <3>1. 0 <= cmd_idx /\ freed = {}
      BY <1>1, Sizes DEF TypeInv, TypeOK, Place
    <3> QED BY <1>1, <2>1, <3>1 DEF Place, heap
  <2> QED BY <2>2, <2>3 DEF TypeInv
<1>3. CASE ~(cmd_offset + ret = 0 \/ argc = 0 \/ parse_end = 1)
  BY <1>1, <1>3, Sizes DEF Loop, TypeInv, TypeOK, Place, flags, heap
<1> QED BY <1>2, <1>3

LEMMA TypeStage == TypeInv /\ Stage => TypeInv'
<1> SUFFICES ASSUME TypeInv, Stage
             PROVE  TypeInv'
  OBVIOUS
<1> DEFINE command == argv_store[argc][0].word
<1>1. /\ pc = "stage" /\ argc < cmd_idx /\ argc' = argc + 1 /\ argc \in Nat /\ cmd_idx \in Nat
      /\ UNCHANGED <<text, next, argv_store, cmd_idx, cmd_offset, ret, parse_end>>
      /\ UNCHANGED flags
  BY DEF Stage, TypeInv, TypeOK
<1>2. /\ pc' = IF command = "NULL" THEN "crashed" ELSE pc
      /\ freed' = IF Forks(command) THEN freed \cup ({glob_result} \ {0}) ELSE freed
      /\ glob_result' = IF Forks(command) THEN 0 ELSE glob_result
  BY DEF Stage
<1>3. freed' # {} => ForkedBefore(argc)'
  <2> SUFFICES ASSUME freed' # {}
               PROVE  \E b \in 0 .. argc' - 1 : argv_store'[b][0].word \notin Builtins
    BY DEF ForkedBefore
  <2>1. CASE Forks(command)
    <3>1. argc \in 0 .. argc' - 1
      BY <1>1
    <3> QED BY <1>1, <2>1, <3>1 DEF Forks
  <2>2. CASE ~Forks(command)
    <3>1. PICK b \in 0 .. argc - 1 : argv_store[b][0].word \notin Builtins
      BY <1>1, <1>2, <2>2 DEF TypeInv, Place, ForkedBefore
    <3>2. b \in 0 .. argc' - 1
      BY <1>1
    <3> QED BY <1>1, <3>1, <3>2
  <2> QED BY <2>1, <2>2
<1>4. glob_result' \in 0 .. MaxWords /\ freed' \subseteq 1 .. MaxWords
  BY <1>2, Sizes DEF TypeInv, TypeOK
<1> HIDE DEF command
<1>5. TypeOK'
  <2>1. argc' \in 0 .. MAX_ARGC + MAX_PIPE_NUM
    BY <1>1, Sizes DEF TypeInv, Place
  <2>2. pc' \in {"stage", "crashed"}
    BY <1>1, <1>2
  <2> QED BY <1>1, <1>4, <2>1, <2>2 DEF TypeInv, TypeOK, flags
<1>6. Place'
  BY <1>1, <1>2, <1>3 DEF TypeInv, Place
<1> QED BY <1>5, <1>6 DEF TypeInv

LEMMA TypeLastStage == TypeInv /\ LastStage => TypeInv'
<1> SUFFICES ASSUME TypeInv, LastStage
             PROVE  TypeInv'
  OBVIOUS
<1>1. text' \in Seq(Words) /\ Len(text') = 0
  BY EmptySeq DEF LastStage
<1>2. argv_store' \in Rows
  BY ArgsHave DEF LastStage, Fresh, Rows
<1> QED BY <1>1, <1>2, Sizes DEF LastStage, TypeInv, TypeOK, Place, Rows, flags

FileHere == IF next < Len(text) THEN text[next + 1] ELSE "none"

LEMMA FileHereIs ==
  ASSUME TypeInv, pc = "word"
  PROVE  /\ FileHere \in Files
         /\ FileHere # "none" <=> next < Len(text)
<1>1. Len(text) \in Nat /\ next \in Nat \ {0} /\ text \in Seq(Words)
  BY DEF TypeInv, TypeOK
<1>2. next < Len(text) => text[next + 1] \in Words
  <2> SUFFICES ASSUME next < Len(text)
               PROVE  text[next + 1] \in Words
    OBVIOUS
  <2>1. next + 1 \in 1 .. Len(text)
    BY <1>1
  <2> QED BY <1>1, <2>1, ElementOfSeq
<1>3. "none" \notin Words
  BY Kinds
<1> QED BY <1>1, <1>2, <1>3 DEF FileHere, Files

\* The three ways through a redirection.
LEMMA RedirectionIs ==
  ASSUME TypeInv, ParseRedirection
  PROVE  /\ pc = "word" /\ next <= Len(text) /\ Here \in {"<", ">"}
         /\ argc \in 1 .. MAX_ARGC - 1
         /\ IF Here = "<" THEN REDIRECT_IN' = FileHere /\ UNCHANGED REDIRECT_OUT
                          ELSE REDIRECT_OUT' = FileHere /\ UNCHANGED REDIRECT_IN
         /\ next' = next + 2
         /\ UNCHANGED <<text, cmd_idx, cmd_offset, heap>>
         /\ \/ /\ next = Len(text) /\ pc' = "crashed"
               /\ UNCHANGED <<argv_store, argc, ret, parse_end, BACKGROUND_MODE>>
            \/ /\ next < Len(text)
               /\ argv_store[cmd_idx][argc - 1].word \in Operators
               /\ Put(argc - 1, <<Null, Null>>) /\ argc' = argc - 1
               /\ pc' \in {"loop", "lost"} /\ ret' \in {0, 1}
               /\ parse_end' \in {0, parse_end} /\ BACKGROUND_MODE' \in BOOLEAN
            \/ /\ next < Len(text) /\ Put(argc, <<Null>>)
               /\ UNCHANGED <<pc, argc, ret, parse_end, BACKGROUND_MODE>>
<1> DEFINE before == argv_store[cmd_idx][argc - 1].word
           file == IF next < Len(text) THEN text[next + 1] ELSE "none"
<1>1. pc = "word" /\ Here \in {"<", ">"} /\ argc + 1 <= MAX_ARGC
  BY DEF ParseRedirection, InLoop, Room
<1>2. argc \in 1 .. MAX_ARGC - 1
  BY <1>1, Sizes DEF TypeInv, TypeOK, Place
<1>3. Here # "end"
  BY <1>1
<1>4. next <= Len(text) /\ next \in Nat /\ Len(text) \in Nat
  BY <1>1, <1>3, HereIs
<1>5. file = FileHere
  BY DEF FileHere
<1>6. /\ IF Here = "<" THEN REDIRECT_IN' = file /\ UNCHANGED REDIRECT_OUT
                       ELSE REDIRECT_OUT' = file /\ UNCHANGED REDIRECT_IN
      /\ next' = next + 2
      /\ UNCHANGED <<text, cmd_idx, cmd_offset, heap>>
  BY DEF ParseRedirection
<1>7. (CASE file = "none" ->
             /\ pc' = "crashed"
             /\ UNCHANGED <<argv_store, argc, ret, parse_end, BACKGROUND_MODE>>
        [] file # "none" /\ before \in Tested(Here) ->
             /\ Put(argc - 1, <<Null, Null>>) /\ argc' = argc - 1
             /\ IF before = ">" THEN pc' = "lost" /\ UNCHANGED ret
                ELSE Return(IF before = "|" THEN 1 ELSE 0)
             /\ parse_end' = IF before = "|" THEN 0 ELSE parse_end
             /\ BACKGROUND_MODE' = (BACKGROUND_MODE \/ before = "&")
        [] OTHER ->
             Put(argc, <<Null>>) /\ UNCHANGED <<pc, argc, ret, parse_end, BACKGROUND_MODE>>)
  BY DEF ParseRedirection
<1>8. file = "none" <=> ~(next < Len(text))
  BY <1>1, <1>5, FileHereIs
<1> HIDE DEF file
<1>9. CASE file = "none"
  <2>1. pc' = "crashed" /\ UNCHANGED <<argv_store, argc, ret, parse_end, BACKGROUND_MODE>>
    BY <1>7, <1>9
  <2>2. next = Len(text)
    BY <1>4, <1>8, <1>9
  <2> QED BY <1>1, <1>2, <1>4, <1>5, <1>6, <2>1, <2>2
<1>10. CASE file # "none" /\ before \in Tested(Here)
  <2>1. /\ Put(argc - 1, <<Null, Null>>) /\ argc' = argc - 1
        /\ IF before = ">" THEN pc' = "lost" /\ UNCHANGED ret
           ELSE Return(IF before = "|" THEN 1 ELSE 0)
        /\ parse_end' = IF before = "|" THEN 0 ELSE parse_end
        /\ BACKGROUND_MODE' = (BACKGROUND_MODE \/ before = "&")
    <3> HIDE DEF before
    <3> QED BY <1>7, <1>10
  <2>2. before \in Operators
    BY <1>10 DEF Tested, Operators
  <2>3. ret = 0
    BY <1>1 DEF TypeInv, Place
  <2>4. pc' \in {"loop", "lost"} /\ ret' \in {0, 1}
    <3> HIDE DEF before
    <3> QED BY <2>1, <2>3 DEF Return
  <2>5. parse_end' \in {0, parse_end} /\ BACKGROUND_MODE' \in BOOLEAN
    <3> HIDE DEF before
    <3>1. BACKGROUND_MODE \in BOOLEAN
      BY DEF TypeInv, TypeOK
    <3>2. (BACKGROUND_MODE \/ before = "&") \in BOOLEAN
      BY <3>1
    <3> QED BY <2>1, <3>2
  <2>6. next < Len(text)
    BY <1>8, <1>10
  <2> QED BY <1>1, <1>2, <1>4, <1>5, <1>6, <2>1, <2>2, <2>4, <2>5, <2>6
<1>11. CASE file # "none" /\ before \notin Tested(Here)
  <2>1. Put(argc, <<Null>>) /\ UNCHANGED <<pc, argc, ret, parse_end, BACKGROUND_MODE>>
    <3> HIDE DEF before
    <3> QED BY <1>7, <1>11
  <2>2. next < Len(text)
    BY <1>8, <1>11
  <2> QED BY <1>1, <1>2, <1>4, <1>5, <1>6, <2>1, <2>2
<1> QED BY <1>9, <1>10, <1>11

LEMMA TypeParseRedirection == TypeInv /\ ParseRedirection => TypeInv'
<1> SUFFICES ASSUME TypeInv, ParseRedirection
             PROVE  TypeInv'
  OBVIOUS
<1>1. /\ pc = "word" /\ next <= Len(text) /\ argc \in 1 .. MAX_ARGC - 1 /\ next' = next + 2
      /\ UNCHANGED <<text, cmd_idx, cmd_offset, heap>>
  BY RedirectionIs
<1>2. {REDIRECT_IN, REDIRECT_OUT}' \subseteq Files
  BY <1>1, RedirectionIs, FileHereIs DEF TypeInv, TypeOK
<1>3. argv_store \in Rows /\ cmd_idx \in 0 .. MAX_PIPE_NUM - 1
  BY <1>1, Sizes DEF TypeInv, TypeOK, Place, Rows
<1>4. Len(text) \in Nat /\ next \in Nat /\ cmd_offset + 1 < next /\ cmd_offset \in Nat
  BY <1>1, HereIs DEF TypeInv, TypeOK, Place
<1>5. CASE /\ pc' = "crashed"
           /\ UNCHANGED <<argv_store, argc, ret, parse_end, BACKGROUND_MODE>>
  BY <1>1, <1>2, <1>4, <1>5, Sizes DEF TypeInv, TypeOK, Place, heap
<1>6. CASE /\ next < Len(text)
           /\ Put(argc - 1, <<Null, Null>>) /\ argc' = argc - 1
           /\ pc' \in {"loop", "lost"} /\ ret' \in {0, 1}
           /\ parse_end' \in {0, parse_end} /\ BACKGROUND_MODE' \in BOOLEAN
  <2>1. argc - 1 \in Nat /\ argc' \in 0 .. MAX_ARGC
    BY <1>1, <1>6, Sizes
  <2>2. <<Null, Null>> \in Seq(Args) /\ Len(<<Null, Null>>) = 2
    BY ArgsHave
  <2>3. argc - 1 + Len(<<Null, Null>>) <= MAX_ARGC
    BY <1>1, <2>2, Sizes
  <2>4. argv_store' \in Rows
    BY <1>3, <1>6, <2>1, <2>2, <2>3, PutIs
  <2>5. cmd_offset + ret' <= Len(text) /\ ret' \in 0 .. Len(text) /\ next' <= Len(text) + 1
    BY <1>1, <1>4, <1>6
  <2>6. parse_end' \in {0, 1}
    BY <1>6 DEF TypeInv, TypeOK
  <2>7. TypeOK'
    BY <1>1, <1>2, <1>4, <1>6, <2>1, <2>4, <2>5, <2>6, Sizes DEF TypeInv, TypeOK, Rows, heap
  <2>8. Place'
    BY <1>1, <1>3, <1>4, <1>6, <2>5 DEF TypeInv, Place, heap
  <2> QED BY <2>7, <2>8 DEF TypeInv
<1>7. CASE /\ next < Len(text) /\ Put(argc, <<Null>>)
           /\ UNCHANGED <<pc, argc, ret, parse_end, BACKGROUND_MODE>>
  <2>1. InLoop
    BY DEF ParseRedirection
  <2>2. argv_store' \in Rows
    BY <1>7, <2>1, NullPut
  <2>3. next' <= Len(text) + 1 /\ next' \in 1 .. MaxWords + 2
    BY <1>1, <1>4, <1>7, Sizes DEF TypeInv, TypeOK
  <2> QED BY <1>1, <1>2, <1>4, <1>7, <2>2, <2>3, Sizes DEF TypeInv, TypeOK, Place, Rows, heap
<1> QED BY <1>5, <1>6, <1>7, RedirectionIs

LEMMA TypeStep == TypeInv /\ [Next]_vars => TypeInv'
<1> SUFFICES ASSUME TypeInv, [Next]_vars
             PROVE  TypeInv'
  OBVIOUS
<1>1. CASE UNCHANGED vars
  BY <1>1 DEF TypeInv, TypeOK, Place, ForkedBefore, vars, locals, flags, heap
<1> QED BY <1>1, TypeReadLine, TypeParseFirst, TypeParseEnd, TypeParseWord, TypeParsePattern,
           TypeParseRedirection, TypeParsePipe, TypeParseAmp, TypeOverflow, TypeLoop, TypeStage,
           TypeLastStage DEF Next, Parser

LEMMA TypeHolds == Spec => []TypeInv
BY TypeInit, TypeStep, PTL DEF Spec

(* Words are stored in rows that have room for them, and what parser        *)
(* returns leads no further than the end of the line.                       *)
THEOREM TypeCorrect == Spec => []TypeOK
<1>1. TypeInv => TypeOK
  BY DEF TypeInv
<1> QED BY <1>1, TypeHolds, PTL

(* The names a command is run with are there as long as nothing was forked  *)
(* for a command before it: only the parent of a fork calls globfree.       *)
THEOREM NamesStayAlive == Spec => []NamesAlive
<1>1. TypeInv => NamesAlive
  <2> SUFFICES ASSUME TypeInv, pc = "stage", ~ForkedBefore(argc)
               PROVE  NamesAlive
    BY DEF NamesAlive
  <2>1. freed = {}
    BY DEF TypeInv, Place
  <2> QED BY <2>1 DEF NamesAlive
<1> QED BY <1>1, TypeHolds, PTL

-----------------------------------------------------------------------------
(* What a line means.                                                       *)

RoleNames == {"name", "file", "rest", "in", "out", "pipe", "amp", "arg"}

\* The role of a word behind one with the role before.
After(before, word) ==
  CASE before = "pipe" -> "name"
    [] before \in {"in", "out"} -> "file"
    [] before \in {"amp", "rest"} -> "rest"
    [] OTHER -> Operator(word)

Cast(line, n, r) == \A k \in 1 .. n : r[k] = IF k = 1 THEN "name" ELSE After(r[k - 1], line[k])

LEMMA AfterIs ==
  ASSUME NEW before, NEW word
  PROVE  After(before, word) \in RoleNames
BY DEF After, Operator, RoleNames

LEMMA CastExists ==
  ASSUME NEW line \in Seq(Words)
  PROVE  \E r \in [1 .. Len(line) -> RoleNames] : Cast(line, Len(line), r)
<1> DEFINE T == {n \in Nat : \E r \in [1 .. n -> RoleNames] : Cast(line, n, r)}
<1>1. 0 \in T
  <2> DEFINE r == [k \in 1 .. 0 |-> "name"]
  <2>1. r \in [1 .. 0 -> RoleNames] /\ \A k : k \notin 1 .. 0
    OBVIOUS
  <2> HIDE DEF r
  <2>2. Cast(line, 0, r)
    BY <2>1 DEF Cast
  <2> QED BY <2>1, <2>2
<1>2. ASSUME NEW n \in Nat, n \in T
      PROVE  n + 1 \in T
  <2>1. PICK q \in [1 .. n -> RoleNames] : Cast(line, n, q)
    BY <1>2
  <2> DEFINE new == IF n + 1 = 1 THEN "name" ELSE After(q[n], line[n + 1])
             r == [k \in 1 .. n + 1 |-> IF k <= n THEN q[k] ELSE new]
  <2>2. new \in RoleNames
    <3>1. "name" \in RoleNames
      BY DEF RoleNames
    <3> QED BY <3>1, AfterIs
  <2> HIDE DEF new
  <2>3. r \in [1 .. n + 1 -> RoleNames]
    BY <2>2
  <2>4. \A k \in 1 .. n : r[k] = q[k]
    OBVIOUS
  <2>5. r[n + 1] = new
    OBVIOUS
  <2> HIDE DEF r
  <2>6. ASSUME NEW k \in 1 .. n + 1
        PROVE  r[k] = IF k = 1 THEN "name" ELSE After(r[k - 1], line[k])
    <3>1. CASE k <= n
      <4>1. k \in 1 .. n /\ (k # 1 => k - 1 \in 1 .. n)
        BY <3>1
      <4>2. q[k] = IF k = 1 THEN "name" ELSE After(q[k - 1], line[k])
        BY <2>1, <4>1 DEF Cast
      <4> QED BY <2>4, <4>1, <4>2
    <3>2. CASE ~(k <= n)
      <4>1. k = n + 1 /\ k - 1 = n
        BY <3>2
      <4>2. n # 0 => n \in 1 .. n
        OBVIOUS
      <4> QED BY <2>4, <2>5, <4>1, <4>2 DEF new
    <3> QED BY <3>1, <3>2
  <2>7. Cast(line, n + 1, r)
    BY <2>6 DEF Cast
  <2> QED BY <2>3, <2>7
<1> HIDE DEF T
<1>3. Len(line) \in T
  <2>1. Len(line) \in Nat
    OBVIOUS
  <2> QED BY <1>1, <1>2, <2>1, Induction
<1> QED BY <1>3 DEF T

LEMMA RolesAre ==
  ASSUME NEW line \in Seq(Words)
  PROVE  /\ RolesOf(line) \in [1 .. Len(line) -> RoleNames]
         /\ Cast(line, Len(line), RolesOf(line))
<1> DEFINE Is(r) == r = [k \in 1 .. Len(line) |->
        IF k = 1 THEN "name"
        ELSE CASE r[k - 1] = "pipe" -> "name"
               [] r[k - 1] \in {"in", "out"} -> "file"
               [] r[k - 1] \in {"amp", "rest"} -> "rest"
               [] OTHER -> Operator(line[k])]
           Ought(r, k) == IF k = 1 THEN "name" ELSE After(r[k - 1], line[k])
<1>1. \A r : Is(r) <=> r = [k \in 1 .. Len(line) |-> Ought(r, k)]
  BY DEF After
<1>2. RolesOf(line) = CHOOSE r : Is(r)
  BY DEF RolesOf
<1>3. PICK q \in [1 .. Len(line) -> RoleNames] : Cast(line, Len(line), q)
  BY CastExists
<1> HIDE DEF Is
<1>4. Is(q)
  <2>1. q = [k \in 1 .. Len(line) |-> q[k]]
    OBVIOUS
  <2>2. \A k \in 1 .. Len(line) : q[k] = Ought(q, k)
    BY <1>3 DEF Cast
  <2> HIDE DEF Ought
  <2>3. q = [k \in 1 .. Len(line) |-> Ought(q, k)]
    BY <2>1, <2>2
  <2> QED BY <1>1, <2>3
<1> DEFINE r == RolesOf(line)
<1>5. Is(r)
  BY <1>2, <1>4
<1>6. r = [k \in 1 .. Len(line) |-> Ought(r, k)]
  BY <1>1, <1>5
<1> HIDE DEF r
<1>7. \A k \in 1 .. Len(line) : Ought(r, k) \in RoleNames
  <2>1. "name" \in RoleNames
    BY DEF RoleNames
  <2> QED BY <2>1, AfterIs
<1>8. \A k \in 1 .. Len(line) : r[k] = Ought(r, k)
  <2> HIDE DEF Ought
  <2> QED BY <1>6
<1>9. r \in [1 .. Len(line) -> RoleNames]
  <2> HIDE DEF Ought
  <2> QED BY <1>6, <1>7
<1>10. Cast(line, Len(line), r)
  BY <1>8 DEF Cast
<1> QED BY <1>9, <1>10 DEF r

LEMMA FirstRole ==
  ASSUME NEW line \in Seq(Words), Len(line) # 0
  PROVE  RolesOf(line)[1] = "name"
<1>1. 1 \in 1 .. Len(line)
  OBVIOUS
<1> QED BY <1>1, RolesAre DEF Cast

LEMMA NextRole ==
  ASSUME NEW line \in Seq(Words), NEW k \in Nat \ {0}, k + 1 <= Len(line)
  PROVE  RolesOf(line)[k + 1] = After(RolesOf(line)[k], line[k + 1])
<1>1. k + 1 \in 1 .. Len(line) /\ k + 1 # 1 /\ (k + 1) - 1 = k
  OBVIOUS
<1> QED BY <1>1, RolesAre DEF Cast

\* Behind "&" there is nothing but the rest.
LEMMA RestStays ==
  ASSUME NEW line \in Seq(Words), NEW n \in 1 .. Len(line), RolesOf(line)[n] = "amp"
  PROVE  \A k \in n + 1 .. Len(line) : RolesOf(line)[k] = "rest"
<1> DEFINE r == RolesOf(line)
           T == {i \in Nat : n + 1 + i <= Len(line) => r[n + 1 + i] = "rest"}
<1>1. Len(line) \in Nat /\ n \in Nat \ {0}
  OBVIOUS
<1>2. 0 \in T
  <2> SUFFICES ASSUME n + 1 <= Len(line)
               PROVE  r[n + 1] = "rest"
    BY <1>1
  <2>1. r[n + 1] = After(r[n], line[n + 1])
    BY <1>1, NextRole
  <2> QED BY <2>1 DEF After
<1>3. ASSUME NEW i \in Nat, i \in T
      PROVE  i + 1 \in T
  <2> SUFFICES ASSUME n + 1 + (i + 1) <= Len(line)
               PROVE  r[n + 1 + (i + 1)] = "rest"
    OBVIOUS
  <2>1. n + 1 + (i + 1) = (n + 1 + i) + 1 /\ n + 1 + i \in Nat \ {0} /\ n + 1 + i <= Len(line)
    BY <1>1
  <2>2. r[n + 1 + i] = "rest"
    BY <1>3, <2>1
  <2>3. r[(n + 1 + i) + 1] = After(r[n + 1 + i], line[(n + 1 + i) + 1])
    BY <2>1, NextRole
  <2> QED BY <2>1, <2>2, <2>3 DEF After
<1> HIDE DEF T
<1>4. \A i \in Nat : i \in T
  BY <1>2, <1>3, Induction
<1>5. ASSUME NEW k \in n + 1 .. Len(line)
      PROVE  r[k] = "rest"
  <2>1. k - (n + 1) \in Nat /\ n + 1 + (k - (n + 1)) = k
    BY <1>1
  <2>2. k - (n + 1) \in T
    BY <1>4, <2>1
  <2> QED BY <1>1, <2>1, <2>2 DEF T
<1> QED BY <1>5

PipesBefore(line, k) == {j \in {i \in 1 .. Len(line) : RolesOf(line)[i] \in {"pipe"}} : j < k}
CommandAt(line, k) == Cardinality(PipesBefore(line, k))

LEMMA PipesFinite ==
  ASSUME NEW line \in Seq(Words), NEW k
  PROVE  IsFiniteSet(PipesBefore(line, k)) /\ CommandAt(line, k) \in Nat
<1>1. IsFiniteSet(1 .. Len(line))
  BY FS_Interval
<1>2. PipesBefore(line, k) \subseteq 1 .. Len(line)
  BY DEF PipesBefore
<1>3. IsFiniteSet(PipesBefore(line, k))
  BY <1>1, <1>2, FS_Subset
<1> QED BY <1>3, FS_CardinalityType DEF CommandAt

LEMMA CommandStep ==
  ASSUME NEW line \in Seq(Words), NEW k \in 1 .. Len(line)
  PROVE  CommandAt(line, k + 1)
           = CommandAt(line, k) + (IF RolesOf(line)[k] = "pipe" THEN 1 ELSE 0)
<1> DEFINE P == PipesBefore(line, k)
           Q == PipesBefore(line, k + 1)
<1>1. IsFiniteSet(P) /\ Cardinality(P) \in Nat
  BY PipesFinite DEF CommandAt
<1>2. CASE RolesOf(line)[k] = "pipe"
  <2>1. Q = P \cup {k} /\ k \notin P
    <3>1. ASSUME NEW j
          PROVE  j \in Q <=> j \in P \cup {k}
      BY <1>2 DEF PipesBefore
    <3>2. k \notin P
      BY DEF PipesBefore
    <3> HIDE DEF P, Q
    <3> QED BY <3>1, <3>2
  <2>2. Cardinality(P \cup {k}) = Cardinality(P) + 1
    <3> HIDE DEF P
    <3> QED BY <1>1, <2>1, FS_AddElement
  <2> QED BY <1>2, <2>1, <2>2 DEF CommandAt
<1>3. CASE RolesOf(line)[k] # "pipe"
  <2>1. Q = P
    <3>1. ASSUME NEW j
          PROVE  j \in Q <=> j \in P
      BY <1>3 DEF PipesBefore
    <3> HIDE DEF P, Q
    <3> QED BY <3>1
  <2> QED BY <1>1, <1>3, <2>1 DEF CommandAt
<1> QED BY <1>2, <1>3

LEMMA CommandGrows ==
  ASSUME NEW line \in Seq(Words), NEW j \in Nat, NEW k \in Nat, j <= k
  PROVE  CommandAt(line, j) <= CommandAt(line, k)
<1>1. PipesBefore(line, j) \subseteq PipesBefore(line, k)
  BY DEF PipesBefore
<1> QED BY <1>1, PipesFinite, FS_Subset DEF CommandAt

LEMMA CommandFirst ==
  ASSUME NEW line \in Seq(Words)
  PROVE  /\ CommandAt(line, 1) = 0
         /\ CommandAt(line, Len(line) + 1)
              = Cardinality({i \in 1 .. Len(line) : RolesOf(line)[i] \in {"pipe"}})
<1>1. PipesBefore(line, 1) = {}
  BY DEF PipesBefore
<1>2. PipesBefore(line, Len(line) + 1)
        = {i \in 1 .. Len(line) : RolesOf(line)[i] \in {"pipe"}}
  <2>1. \A i \in 1 .. Len(line) : i < Len(line) + 1
    OBVIOUS
  <2> QED BY <2>1 DEF PipesBefore
<1> QED BY <1>1, <1>2, FS_EmptySet DEF CommandAt

\* The words of a command up to a place in the line.
ExpandedAt(line, k) ==
  IF RolesOf(line)[k] = "arg" /\ line[k] \in Patterns /\ Matches[line[k]] # << >>
  THEN Matches[line[k]] ELSE <<line[k]>>

Piece(line, c, k) ==
  IF RolesOf(line)[k] \in {"name", "arg"} /\ CommandAt(line, k) = c
  THEN ExpandedAt(line, k) ELSE << >>

Said(line, c, n) == FlattenSeq([k \in 1 .. n |-> Piece(line, c, k)])

LEMMA PieceType ==
  ASSUME NEW line \in Seq(Words), NEW c, NEW k \in 1 .. Len(line)
  PROVE  Piece(line, c, k) \in Seq(Texts)
<1>1. line[k] \in Texts
  BY ElementOfSeq, Kinds
<1>2. <<line[k]>> \in Seq(Texts)
  BY <1>1
<1>3. << >> \in Seq(Texts)
  BY EmptySeq
<1>4. line[k] \in Patterns => Matches[line[k]] \in Seq(Texts)
  BY Found
<1> QED BY <1>2, <1>3, <1>4 DEF Piece, ExpandedAt

LEMMA SaidStep ==
  ASSUME NEW line \in Seq(Words), NEW c
  PROVE  /\ Said(line, c, 0) = << >>
         /\ \A n \in 0 .. Len(line) : Said(line, c, n) \in Seq(Texts)
         /\ \A n \in Nat : n + 1 <= Len(line) =>
              Said(line, c, n + 1) = Said(line, c, n) \o Piece(line, c, n + 1)
<1> DEFINE p(k) == Piece(line, c, k)
           s(n) == [k \in 1 .. n |-> p(k)]
<1>1. \A k \in 1 .. Len(line) : p(k) \in Seq(Texts)
  BY PieceType
<1> HIDE DEF p
<1>2. \A n \in 0 .. Len(line) : s(n) \in Seq(Seq(Texts)) /\ Len(s(n)) = n
  <2> SUFFICES ASSUME NEW n \in 0 .. Len(line)
               PROVE  s(n) \in Seq(Seq(Texts)) /\ Len(s(n)) = n
    OBVIOUS
  <2>1. \A k \in 1 .. n : p(k) \in Seq(Texts)
    BY <1>1
  <2> QED BY <2>1
<1>3. s(0) = << >>
  <2>1. s(0) \in Seq(Seq(Texts)) /\ Len(s(0)) = 0
    BY <1>2
  <2> HIDE DEF s
  <2> QED BY <2>1, EmptySeq
<1>4. Said(line, c, 0) = << >>
  BY <1>3, FlattenProperties DEF Said, p
<1>5. ASSUME NEW n \in 0 .. Len(line)
      PROVE  Said(line, c, n) \in Seq(Texts)
  <2>1. s(n) \in Seq(Seq(Texts))
    BY <1>2
  <2>2. Said(line, c, n) = FlattenSeq(s(n))
    BY DEF Said, p
  <2> HIDE DEF s
  <2> QED BY <2>1, <2>2, FlattenProperties
<1>6. ASSUME NEW n \in Nat, n + 1 <= Len(line)
      PROVE  Said(line, c, n + 1) = Said(line, c, n) \o Piece(line, c, n + 1)
  <2>1. /\ s(n) \in Seq(Seq(Texts)) /\ Len(s(n)) = n
        /\ s(n + 1) \in Seq(Seq(Texts)) /\ Len(s(n + 1)) = n + 1
        /\ p(n + 1) \in Seq(Texts)
    BY <1>1, <1>2, <1>6
  <2>2. \A k \in 1 .. n : s(n)[k] = p(k)
    OBVIOUS
  <2>3. \A k \in 1 .. n + 1 : s(n + 1)[k] = p(k)
    OBVIOUS
  <2> DEFINE t == Append(s(n), p(n + 1))
  <2> HIDE DEF s
  <2>4. /\ t \in Seq(Seq(Texts)) /\ Len(t) = n + 1
        /\ \A k \in 1 .. n : t[k] = s(n)[k]
        /\ t[n + 1] = p(n + 1)
    BY <2>1, AppendProperties
  <2> HIDE DEF t
  <2>5. \A k \in 1 .. n + 1 : s(n + 1)[k] = t[k]
    <3>1. \A k \in 1 .. n + 1 : k \in 1 .. n \/ k = n + 1
      OBVIOUS
    <3>2. n + 1 \in 1 .. n + 1
      OBVIOUS
    <3> QED BY <2>2, <2>3, <2>4, <3>1, <3>2
  <2>6. s(n + 1) = t
    BY <2>1, <2>4, <2>5, SeqEqual
  <2>7. FlattenSeq(t) = FlattenSeq(s(n)) \o p(n + 1)
    BY <2>1, FlattenProperties DEF t
  <2>8. Said(line, c, n) = FlattenSeq(s(n)) /\ Said(line, c, n + 1) = FlattenSeq(s(n + 1))
    BY DEF Said, s, p
  <2> QED BY <2>6, <2>7, <2>8 DEF p
<1> QED BY <1>4, <1>5, <1>6

\* A word of no command, or of another, adds nothing; the others, what they expand to.
LEMMA SaidNext ==
  ASSUME NEW line \in Seq(Words), NEW c, NEW n \in Nat, n + 1 <= Len(line)
  PROVE  /\ n \in 0 .. Len(line) /\ n + 1 \in 0 .. Len(line)
         /\ Piece(line, c, n + 1) = << >> => Said(line, c, n + 1) = Said(line, c, n)
         /\ Said(line, c, n + 1) = Said(line, c, n) \o Piece(line, c, n + 1)
         /\ Len(Said(line, c, n)) \in Nat
         /\ Len(Piece(line, c, n + 1)) \in Nat
         /\ Len(Said(line, c, n + 1)) = Len(Said(line, c, n)) + Len(Piece(line, c, n + 1))
<1>1. n \in 0 .. Len(line) /\ n + 1 \in 0 .. Len(line) /\ n + 1 \in 1 .. Len(line)
  OBVIOUS
<1>2. Said(line, c, n) \in Seq(Texts) /\ Piece(line, c, n + 1) \in Seq(Texts)
  BY <1>1, SaidStep, PieceType
<1>3. Said(line, c, n + 1) = Said(line, c, n) \o Piece(line, c, n + 1)
  BY SaidStep
<1>4. Said(line, c, n) \o << >> = Said(line, c, n)
  BY <1>2, ConcatEmptySeq
<1>5. Len(Said(line, c, n) \o Piece(line, c, n + 1))
        = Len(Said(line, c, n)) + Len(Piece(line, c, n + 1))
  BY <1>2, ConcatProperties
<1>6. Len(Said(line, c, n)) \in Nat /\ Len(Piece(line, c, n + 1)) \in Nat
  BY <1>2, LenProperties
<1> QED BY <1>1, <1>3, <1>4, <1>5, <1>6

LEMMA SaidGrows ==
  ASSUME NEW line \in Seq(Words), NEW c, NEW n \in Nat, NEW m \in Nat,
         n <= m, m <= Len(line)
  PROVE  /\ Len(Said(line, c, n)) <= Len(Said(line, c, m))
         /\ (\A k \in n + 1 .. m : Piece(line, c, k) = << >>)
              => Said(line, c, m) = Said(line, c, n)
<1> DEFINE Quiet(i) == \A k \in n + 1 .. n + i : Piece(line, c, k) = << >>
           T == {i \in Nat : n + i <= Len(line) =>
                   /\ Len(Said(line, c, n)) <= Len(Said(line, c, n + i))
                   /\ Quiet(i) => Said(line, c, n + i) = Said(line, c, n)}
<1>1. Len(line) \in Nat
  OBVIOUS
<1>2. \A k \in 0 .. Len(line) : Len(Said(line, c, k)) \in Nat
  <2>1. \A k \in 0 .. Len(line) : Said(line, c, k) \in Seq(Texts)
    BY SaidStep
  <2> QED BY <2>1
<1>3. 0 \in T
  <2>1. n \in 0 .. Len(line) /\ n + 0 = n
    BY <1>1
  <2>2. Len(Said(line, c, n)) <= Len(Said(line, c, n))
    BY <1>2, <2>1
  <2> QED BY <2>1, <2>2
<1>4. ASSUME NEW i \in Nat, i \in T
      PROVE  i + 1 \in T
  <2> SUFFICES ASSUME n + (i + 1) <= Len(line)
               PROVE  /\ Len(Said(line, c, n)) <= Len(Said(line, c, n + (i + 1)))
                      /\ Quiet(i + 1) => Said(line, c, n + (i + 1)) = Said(line, c, n)
    OBVIOUS
  <2> DEFINE j == n + i
  <2>1. j \in Nat /\ n + (i + 1) = j + 1 /\ j + 1 <= Len(line) /\ j <= Len(line)
    BY <1>1
  <2>2. /\ Len(Said(line, c, n)) <= Len(Said(line, c, j))
        /\ Quiet(i) => Said(line, c, j) = Said(line, c, n)
    BY <1>4, <2>1
  <2>3. Quiet(i + 1) => Quiet(i) /\ Piece(line, c, j + 1) = << >>
    OBVIOUS
  <2> HIDE DEF Quiet, j
  <2>4. /\ Len(Said(line, c, j)) \in Nat /\ Len(Piece(line, c, j + 1)) \in Nat
        /\ Len(Said(line, c, j + 1)) = Len(Said(line, c, j)) + Len(Piece(line, c, j + 1))
        /\ Piece(line, c, j + 1) = << >> => Said(line, c, j + 1) = Said(line, c, j)
    BY <2>1, SaidNext
  <2>5. Len(Said(line, c, n)) \in Nat
    BY <1>1, <1>2
  <2> QED BY <2>1, <2>2, <2>3, <2>4, <2>5
<1> HIDE DEF T
<1>5. \A i \in Nat : i \in T
  BY <1>3, <1>4, Induction
<1>6. m - n \in Nat /\ n + (m - n) = m
  OBVIOUS
<1>7. m - n \in T
  BY <1>5, <1>6
<1> QED BY <1>6, <1>7 DEF T

\* A command that has not begun has said nothing.
LEMMA SaidNothing ==
  ASSUME NEW line \in Seq(Words), NEW n \in 1 .. Len(line), NEW c \in Nat,
         CommandAt(line, n) < c
  PROVE  Said(line, c, n) = << >>
<1>1. ASSUME NEW k \in 0 + 1 .. n
      PROVE  Piece(line, c, k) = << >>
  <2>1. CommandAt(line, k) <= CommandAt(line, n)
    BY CommandGrows
  <2>2. CommandAt(line, k) \in Nat /\ CommandAt(line, n) \in Nat
    BY PipesFinite
  <2>3. CommandAt(line, k) # c
    BY <2>1, <2>2
  <2> QED BY <2>3 DEF Piece
<1>2. 0 <= n /\ n <= Len(line) /\ n \in Nat
  OBVIOUS
<1>3. Said(line, c, n) = Said(line, c, 0)
  <2>1. \A k \in 0 + 1 .. n : Piece(line, c, k) = << >>
    BY <1>1
  <2> QED BY <1>2, <2>1, SaidGrows
<1> QED BY <1>3, SaidStep

-----------------------------------------------------------------------------
(* What has been stored of the first n words of a line, by command c.       *)

IsRow(row, words) ==
  Len(words) <= MAX_ARGC /\ \A a \in 1 .. Len(words) : row[a - 1].word = words[a]

EndedRow(row, words) ==
  IsRow(row, words) /\ Len(words) < MAX_ARGC /\ row[Len(words)] = Null

FilesOf(line, role, n) ==
  {k \in 1 .. Len(line) : RolesOf(line)[k] = "file" /\ k <= n /\ RolesOf(line)[k - 1] = role}

LastFile(line, role, n, name) ==
  \/ name = "none" /\ FilesOf(line, role, n) = {}
  \/ \E k \in FilesOf(line, role, n) :
       name = line[k] /\ \A j \in FilesOf(line, role, n) : j <= k

Before(line, store, n, c) ==
  \A b \in 0 .. c - 1 : EndedRow(store[b], Said(line, b, n)) /\ store[b][0] # Null

Scanned(line, store, in, out, back, n, c) ==
  /\ n <= Len(line) /\ CommandAt(line, n + 1) = c
  /\ LastFile(line, "in", n, in) /\ LastFile(line, "out", n, out)
  /\ back = FALSE /\ \A k \in 1 .. n : RolesOf(line)[k] \notin {"amp", "rest"}
  /\ Before(line, store, n, c)

Complete(line, store, in, out, back, c) ==
  /\ CommandAt(line, Len(line) + 1) = c
  /\ LastFile(line, "in", Len(line), in) /\ LastFile(line, "out", Len(line), out)
  /\ back = (\E k \in 1 .. Len(line) : RolesOf(line)[k] = "amp")
  /\ Before(line, store, Len(line), c)
  /\ EndedRow(store[c], Said(line, c, Len(line)))

LEMMA LastFileStays ==
  ASSUME NEW line \in Seq(Words), NEW role, NEW n \in Nat, NEW m \in Nat, n <= m, NEW name,
         LastFile(line, role, n, name),
         \A k \in n + 1 .. m : k \in 1 .. Len(line) =>
           ~(RolesOf(line)[k] = "file" /\ RolesOf(line)[k - 1] = role)
  PROVE  LastFile(line, role, m, name)
<1>1. ASSUME NEW k \in 1 .. Len(line)
      PROVE  k \in FilesOf(line, role, m) <=> k \in FilesOf(line, role, n)
  <2>1. k <= m => k <= n \/ k \in n + 1 .. m
    OBVIOUS
  <2>2. k <= n => k <= m
    OBVIOUS
  <2> QED BY <2>1, <2>2 DEF FilesOf
<1>2. \A k : k \in FilesOf(line, role, m) \/ k \in FilesOf(line, role, n)
        => k \in 1 .. Len(line)
  BY DEF FilesOf
<1>3. FilesOf(line, role, m) = FilesOf(line, role, n)
  BY <1>1, <1>2
<1> QED BY <1>3 DEF LastFile

\* The commands before c have no words from c on.
LEMMA BeforeStays ==
  ASSUME NEW line \in Seq(Words), NEW n \in Nat, NEW m \in Nat, n <= m, m <= Len(line),
         NEW c \in Nat, NEW store, NEW store2, Before(line, store, n, c),
         \A b \in 0 .. c - 1 : store2[b] = store[b],
         \A k \in n + 1 .. m : CommandAt(line, k) \notin 0 .. c - 1
  PROVE  Before(line, store2, m, c)
<1> SUFFICES ASSUME NEW b \in 0 .. c - 1
             PROVE  EndedRow(store2[b], Said(line, b, m)) /\ store2[b][0] # Null
  BY DEF Before
<1>1. EndedRow(store[b], Said(line, b, n)) /\ store[b][0] # Null
  BY DEF Before
<1>2. \A k \in n + 1 .. m : Piece(line, b, k) = << >>
  BY DEF Piece
<1>3. Said(line, b, m) = Said(line, b, n)
  BY <1>2, SaidGrows
<1> QED BY <1>1, <1>3

LEMMA ScanWord ==
  ASSUME NEW line \in Seq(Words), NEW n \in Nat, NEW c \in Nat, n + 1 <= Len(line),
         NEW store, NEW store2, NEW in, NEW out, NEW back,
         Scanned(line, store, in, out, back, n, c),
         \A b \in 0 .. c - 1 : store2[b] = store[b],
         RolesOf(line)[n + 1] \in {"name", "arg"}
  PROVE  /\ Scanned(line, store2, in, out, back, n + 1, c)
         /\ Said(line, c, n + 1) = Said(line, c, n) \o ExpandedAt(line, n + 1)
<1>1. n + 1 \in 1 .. Len(line)
  OBVIOUS
<1>2. CommandAt(line, n + 1) = c /\ CommandAt(line, (n + 1) + 1) = c
  <2>1. CommandAt(line, n + 1) = c /\ RolesOf(line)[n + 1] # "pipe"
    BY DEF Scanned
  <2> QED BY <1>1, <2>1, CommandStep
<1>3. \A role : \A k \in n + 1 .. n + 1 : k \in 1 .. Len(line) =>
        ~(RolesOf(line)[k] = "file" /\ RolesOf(line)[k - 1] = role)
  <2>1. \A k \in n + 1 .. n + 1 : k = n + 1
    OBVIOUS
  <2> QED BY <2>1
<1>4. n <= n + 1 /\ n + 1 \in Nat
  OBVIOUS
<1>5. LastFile(line, "in", n + 1, in) /\ LastFile(line, "out", n + 1, out)
  BY <1>3, <1>4, LastFileStays DEF Scanned
<1>6. \A k \in 1 .. n + 1 : RolesOf(line)[k] \notin {"amp", "rest"}
  <2>1. \A k \in 1 .. n + 1 : k \in 1 .. n \/ k = n + 1
    OBVIOUS
  <2> QED BY <2>1 DEF Scanned
<1>7. \A k \in n + 1 .. n + 1 : CommandAt(line, k) \notin 0 .. c - 1
  <2>1. \A k \in n + 1 .. n + 1 : k = n + 1
    OBVIOUS
  <2> QED BY <1>2, <2>1
<1>8. Before(line, store2, n + 1, c)
  <2>1. Before(line, store, n, c)
    BY DEF Scanned
  <2> QED BY <1>4, <1>7, <2>1, BeforeStays
<1>9. Piece(line, c, n + 1) = ExpandedAt(line, n + 1)
  BY <1>2 DEF Piece
<1>10. Said(line, c, n + 1) = Said(line, c, n) \o Piece(line, c, n + 1)
  BY SaidNext
<1> QED BY <1>2, <1>5, <1>6, <1>8, <1>9, <1>10 DEF Scanned

\* A redirection and its file.
LEMMA ScanFile ==
  ASSUME NEW line \in Seq(Words), NEW n \in Nat, NEW c \in Nat, n + 2 <= Len(line),
         NEW store, NEW store2, NEW in, NEW out, NEW in2, NEW out2, NEW back,
         Scanned(line, store, in, out, back, n, c),
         \A b \in 0 .. c - 1 : store2[b] = store[b],
         RolesOf(line)[n + 1] \in {"in", "out"},
         IF RolesOf(line)[n + 1] = "in" THEN in2 = line[n + 2] /\ out2 = out
                                        ELSE out2 = line[n + 2] /\ in2 = in
  PROVE  /\ Scanned(line, store2, in2, out2, back, n + 2, c)
         /\ Said(line, c, n + 2) = Said(line, c, n)
         /\ RolesOf(line)[n + 2] = "file"
<1> DEFINE r == RolesOf(line)
<1>1. /\ n + 1 \in 1 .. Len(line) /\ n + 2 \in 1 .. Len(line) /\ (n + 1) + 1 = n + 2
      /\ n + 1 \in Nat \ {0} /\ (n + 2) - 1 = n + 1 /\ (n + 2) + 1 = n + 3
      /\ n <= n + 2 /\ n + 2 \in Nat
  OBVIOUS
<1>2. r[n + 2] = "file"
  <2>1. r[(n + 1) + 1] = After(r[n + 1], line[(n + 1) + 1])
    BY <1>1, NextRole
  <2> QED BY <1>1, <2>1 DEF After
<1>3. CommandAt(line, n + 1) = c /\ CommandAt(line, n + 2) = c /\ CommandAt(line, (n + 2) + 1) = c
  <2>1. CommandAt(line, n + 1) = c
    BY DEF Scanned
  <2>2. CommandAt(line, (n + 1) + 1) = c
    BY <1>1, <2>1, CommandStep
  <2> QED BY <1>1, <1>2, <2>1, <2>2, CommandStep
<1>4. \A k \in n + 1 .. n + 2 : k = n + 1 \/ k = n + 2
  OBVIOUS
<1>5. ASSUME NEW role, NEW name, LastFile(line, role, n, name), role # r[n + 1]
      PROVE  LastFile(line, role, n + 2, name)
  <2>1. \A k \in n + 1 .. n + 2 : k \in 1 .. Len(line) => ~(r[k] = "file" /\ r[k - 1] = role)
    BY <1>1, <1>4, <1>5
  <2> QED BY <1>1, <1>5, <2>1, LastFileStays
<1>6. LastFile(line, r[n + 1], n + 2, line[n + 2])
  <2>1. n + 2 \in FilesOf(line, r[n + 1], n + 2)
    BY <1>1, <1>2 DEF FilesOf
  <2>2. \A j \in FilesOf(line, r[n + 1], n + 2) : j <= n + 2
    BY DEF FilesOf
  <2> QED BY <2>1, <2>2 DEF LastFile
<1>7. LastFile(line, "in", n + 2, in2) /\ LastFile(line, "out", n + 2, out2)
  <2>1. LastFile(line, "in", n, in) /\ LastFile(line, "out", n, out)
    BY DEF Scanned
  <2> QED BY <1>5, <1>6, <2>1
<1>8. \A k \in 1 .. n + 2 : r[k] \notin {"amp", "rest"}
  <2>1. \A k \in 1 .. n + 2 : k \in 1 .. n \/ k = n + 1 \/ k = n + 2
    OBVIOUS
  <2> QED BY <1>2, <2>1 DEF Scanned
<1>9. Before(line, store2, n + 2, c)
  <2>1. \A k \in n + 1 .. n + 2 : CommandAt(line, k) \notin 0 .. c - 1
    BY <1>3, <1>4
  <2>2. Before(line, store, n, c)
    BY DEF Scanned
  <2> QED BY <1>1, <2>1, <2>2, BeforeStays
<1>10. Said(line, c, n + 2) = Said(line, c, n)
  <2>1. \A k \in n + 1 .. n + 2 : Piece(line, c, k) = << >>
    BY <1>2, <1>4 DEF Piece
  <2> QED BY <1>1, <2>1, SaidGrows
<1> QED BY <1>2, <1>3, <1>7, <1>8, <1>9, <1>10 DEF Scanned

LEMMA ScanPipe ==
  ASSUME NEW line \in Seq(Words), NEW n \in Nat, NEW c \in Nat, n + 1 <= Len(line),
         NEW store, NEW store2, NEW in, NEW out, NEW back,
         Scanned(line, store, in, out, back, n, c),
         \A b \in 0 .. c - 1 : store2[b] = store[b],
         EndedRow(store2[c], Said(line, c, n)), store2[c][0] # Null,
         RolesOf(line)[n + 1] = "pipe"
  PROVE  /\ Scanned(line, store2, in, out, back, n + 1, c + 1)
         /\ Said(line, c + 1, n + 1) = << >>
<1> DEFINE r == RolesOf(line)
<1>1. n + 1 \in 1 .. Len(line) /\ n <= n + 1 /\ n + 1 \in Nat /\ c + 1 \in Nat
  OBVIOUS
<1>2. CommandAt(line, n + 1) = c /\ CommandAt(line, (n + 1) + 1) = c + 1
  <2>1. CommandAt(line, n + 1) = c
    BY DEF Scanned
  <2> QED BY <1>1, <2>1, CommandStep
<1>3. \A k \in n + 1 .. n + 1 : k = n + 1
  OBVIOUS
<1>4. LastFile(line, "in", n + 1, in) /\ LastFile(line, "out", n + 1, out)
  <2>1. \A role : \A k \in n + 1 .. n + 1 : k \in 1 .. Len(line) =>
          ~(r[k] = "file" /\ r[k - 1] = role)
    BY <1>3
  <2> QED BY <1>1, <2>1, LastFileStays DEF Scanned
<1>5. \A k \in 1 .. n + 1 : r[k] \notin {"amp", "rest"}
  <2>1. \A k \in 1 .. n + 1 : k \in 1 .. n \/ k = n + 1
    OBVIOUS
  <2> QED BY <2>1 DEF Scanned
<1>6. Before(line, store2, n + 1, c)
  <2>1. \A k \in n + 1 .. n + 1 : CommandAt(line, k) \notin 0 .. c - 1
    BY <1>2, <1>3
  <2>2. Before(line, store, n, c)
    BY DEF Scanned
  <2> QED BY <1>1, <2>1, <2>2, BeforeStays
<1>7. Said(line, c, n + 1) = Said(line, c, n)
  <2>1. Piece(line, c, n + 1) = << >>
    BY DEF Piece
  <2> QED BY <2>1, SaidNext
<1>8. Before(line, store2, n + 1, c + 1)
  <2>1. \A b \in 0 .. (c + 1) - 1 : b \in 0 .. c - 1 \/ b = c
    OBVIOUS
  <2> QED BY <1>6, <1>7, <2>1 DEF Before
<1>9. Said(line, c + 1, n + 1) = << >>
  <2>1. CommandAt(line, n + 1) < c + 1
    BY <1>2
  <2> QED BY <1>1, <2>1, SaidNothing
<1> QED BY <1>1, <1>2, <1>4, <1>5, <1>8, <1>9 DEF Scanned

LEMMA ScanEnd ==
  ASSUME NEW line \in Seq(Words), NEW c \in Nat,
         NEW store, NEW store2, NEW in, NEW out, NEW back,
         Scanned(line, store, in, out, back, Len(line), c),
         \A b \in 0 .. c - 1 : store2[b] = store[b],
         EndedRow(store2[c], Said(line, c, Len(line)))
  PROVE  Complete(line, store2, in, out, back, c)
<1>1. Before(line, store2, Len(line), c)
  <2>1. \A b \in 0 .. c - 1 : EndedRow(store[b], Said(line, b, Len(line))) /\ store[b][0] # Null
    BY DEF Scanned, Before
  <2> QED BY <2>1 DEF Before
<1>2. back = (\E k \in 1 .. Len(line) : RolesOf(line)[k] = "amp")
  <2>1. back = FALSE /\ \A k \in 1 .. Len(line) : RolesOf(line)[k] # "amp"
    BY DEF Scanned
  <2>2. (\E k \in 1 .. Len(line) : RolesOf(line)[k] = "amp") = FALSE
    BY <2>1
  <2> QED BY <2>1, <2>2
<1> QED BY <1>1, <1>2 DEF Scanned, Complete

LEMMA ScanAmp ==
  ASSUME NEW line \in Seq(Words), NEW n \in Nat, NEW c \in Nat, n + 1 <= Len(line),
         NEW store, NEW store2, NEW in, NEW out, NEW back,
         Scanned(line, store, in, out, back, n, c),
         \A b \in 0 .. c - 1 : store2[b] = store[b],
         EndedRow(store2[c], Said(line, c, n)),
         RolesOf(line)[n + 1] = "amp"
  PROVE  Complete(line, store2, in, out, TRUE, c)
<1> DEFINE r == RolesOf(line)
<1>1. n + 1 \in 1 .. Len(line) /\ n <= Len(line) /\ Len(line) \in Nat
  OBVIOUS
<1>2. \A k \in n + 1 .. Len(line) : k = n + 1 \/ k \in (n + 1) + 1 .. Len(line)
  OBVIOUS
<1>3. \A k \in n + 1 .. Len(line) : r[k] \in {"amp", "rest"}
  <2>1. \A k \in (n + 1) + 1 .. Len(line) : r[k] = "rest"
    BY <1>1, RestStays
  <2> QED BY <1>2, <2>1
<1>4. LastFile(line, "in", Len(line), in) /\ LastFile(line, "out", Len(line), out)
  <2>1. \A role : \A k \in n + 1 .. Len(line) : k \in 1 .. Len(line) =>
          ~(r[k] = "file" /\ r[k - 1] = role)
    BY <1>3
  <2> QED BY <1>1, <2>1, LastFileStays DEF Scanned
<1>5. \A b : Said(line, b, Len(line)) = Said(line, b, n)
  <2>1. \A b : \A k \in n + 1 .. Len(line) : Piece(line, b, k) = << >>
    BY <1>3 DEF Piece
  <2> QED BY <1>1, <2>1, SaidGrows
<1>6. Before(line, store2, Len(line), c)
  <2>1. \A b \in 0 .. c - 1 : EndedRow(store[b], Said(line, b, n)) /\ store[b][0] # Null
    BY DEF Scanned, Before
  <2> QED BY <1>5, <2>1 DEF Before
<1>7. CommandAt(line, Len(line) + 1) = c
  <2> DEFINE T == {i \in Nat : n + 1 + i <= Len(line) + 1 => CommandAt(line, n + 1 + i) = c}
  <2>1. 0 \in T
    <3>1. CommandAt(line, n + 1) = c
      BY DEF Scanned
    <3> QED BY <3>1
  <2>2. ASSUME NEW i \in Nat, i \in T
        PROVE  i + 1 \in T
    <3> SUFFICES ASSUME n + 1 + (i + 1) <= Len(line) + 1
                 PROVE  CommandAt(line, n + 1 + (i + 1)) = c
      OBVIOUS
    <3> DEFINE k == n + 1 + i
    <3>1. /\ k \in n + 1 .. Len(line) /\ k \in 1 .. Len(line) /\ k + 1 = n + 1 + (i + 1)
          /\ k <= Len(line) + 1
      BY <1>1
    <3>2. CommandAt(line, k) = c /\ r[k] # "pipe"
      BY <1>3, <2>2, <3>1
    <3> HIDE DEF k
    <3>3. CommandAt(line, k + 1) = c
      BY <3>1, <3>2, CommandStep
    <3> QED BY <3>1, <3>3
  <2> HIDE DEF T
  <2>3. \A i \in Nat : i \in T
    BY <2>1, <2>2, Induction
  <2>4. Len(line) - n \in Nat /\ n + 1 + (Len(line) - n) = Len(line) + 1
    BY <1>1
  <2>5. Len(line) - n \in T
    BY <2>3, <2>4
  <2> QED BY <1>1, <2>4, <2>5 DEF T
<1>8. (\E k \in 1 .. Len(line) : r[k] = "amp") = TRUE
  BY <1>1
<1> QED BY <1>4, <1>5, <1>6, <1>7, <1>8 DEF Complete

-----------------------------------------------------------------------------
(* The parser stores what the line means.                                   *)

PlainLine(line) ==
  \A k \in {i \in 1 .. Len(line) : RolesOf(line)[i] \in {"name"}} : line[k] \notin Operators

Odd(line, c) ==
  \/ ~PlainLine(line)
  \/ line # << >> /\ RolesOf(line)[Len(line)] \in {"in", "out"}
  \/ CommandAt(line, Len(line) + 1) >= MAX_PIPE_NUM
  \/ \E b \in 0 .. c : Len(Said(line, b, Len(line))) >= MAX_ARGC

\* The place of the first word of a command, or of one behind it.
AtFirst(line, offset, n) ==
  n = offset /\ (n = 0 \/ RolesOf(line)[n] = "pipe")

AtWord(line, row, argcount, words, n) ==
  /\ n > 0 /\ RolesOf(line)[n] \in {"name", "arg", "file"}
  /\ IsRow(row, words) /\ argcount = Len(words)

LastOne(c, offset, end) == IF c = 0 THEN offset = 0 ELSE end = 1

LineInv ==
  PlainLine(text) =>
    /\ pc \in {"first", "word"} =>
         /\ Scanned(text, argv_store, REDIRECT_IN, REDIRECT_OUT, BACKGROUND_MODE,
                    next - 1, cmd_idx)
         /\ LastOne(cmd_idx, cmd_offset, parse_end)
    /\ pc = "first" =>
         AtFirst(text, cmd_offset, next - 1) /\ Said(text, cmd_idx, next - 1) = << >>
    /\ pc = "word" =>
         AtWord(text, argv_store[cmd_idx], argc, Said(text, cmd_idx, next - 1), next - 1)
    /\ pc = "loop" =>
         \/ /\ Scanned(text, argv_store, REDIRECT_IN, REDIRECT_OUT, BACKGROUND_MODE,
                       next - 1, cmd_idx + 1)
            /\ Said(text, cmd_idx + 1, next - 1) = << >>
            /\ AtFirst(text, cmd_offset + ret, next - 1)
            /\ next > 1 /\ argc > 0 /\ parse_end = 0
         \/ /\ ret = 0 /\ LastOne(cmd_idx, cmd_offset, parse_end)
            /\ Complete(text, argv_store, REDIRECT_IN, REDIRECT_OUT, BACKGROUND_MODE, cmd_idx)
    /\ pc = "stage" =>
         Complete(text, argv_store, REDIRECT_IN, REDIRECT_OUT, BACKGROUND_MODE, cmd_idx)
    /\ pc \in {"crashed", "lost"} => Odd(text, cmd_idx)

LEMMA IsRowAppend ==
  ASSUME NEW row, NEW row2, NEW words \in Seq(Texts), NEW more \in Seq(Texts),
         IsRow(row, words), Len(words) + Len(more) <= MAX_ARGC,
         \A a \in 0 .. Len(words) - 1 : row2[a] = row[a],
         \A i \in 1 .. Len(more) : row2[Len(words) + i - 1].word = more[i]
  PROVE  IsRow(row2, words \o more)
<1>1. Len(words) \in Nat /\ Len(more) \in Nat
  BY LenProperties
<1>2. Len(words \o more) = Len(words) + Len(more)
  BY ConcatProperties
<1>3. ASSUME NEW a \in 1 .. Len(words) + Len(more)
      PROVE  row2[a - 1].word = (words \o more)[a]
  <2>1. (words \o more)[a] = IF a <= Len(words) THEN words[a] ELSE more[a - Len(words)]
    BY ConcatProperties
  <2>2. CASE a <= Len(words)
    <3>1. a \in 1 .. Len(words) /\ a - 1 \in 0 .. Len(words) - 1
      BY <1>1, <2>2
    <3> QED BY <2>1, <2>2, <3>1 DEF IsRow
  <2>3. CASE ~(a <= Len(words))
    <3>1. a - Len(words) \in 1 .. Len(more) /\ Len(words) + (a - Len(words)) - 1 = a - 1
      BY <1>1, <2>3
    <3> QED BY <2>1, <2>3, <3>1
  <2> QED BY <2>2, <2>3
<1> QED BY <1>2, <1>3 DEF IsRow

\* The words of a plain line's commands are no operators.
LEMMA SaidPlain ==
  ASSUME NEW line \in Seq(Words), PlainLine(line), NEW c, NEW n \in 0 .. Len(line)
  PROVE  \A a \in 1 .. Len(Said(line, c, n)) : Said(line, c, n)[a] \in Texts \ Operators
<1>1. ASSUME NEW k \in 1 .. Len(line)
      PROVE  \A i \in 1 .. Len(Piece(line, c, k)) : Piece(line, c, k)[i] \notin Operators
  <2>1. CASE RolesOf(line)[k] \notin {"name", "arg"} \/ CommandAt(line, k) # c
    <3>1. Piece(line, c, k) = << >> /\ Len(<< >>) = 0
      BY <2>1, EmptySeq DEF Piece
    <3> QED BY <3>1
  <2>2. CASE RolesOf(line)[k] \in {"name", "arg"} /\ CommandAt(line, k) = c
    <3>1. line[k] \notin Operators
      <4>1. CASE RolesOf(line)[k] = "name"
        BY <4>1 DEF PlainLine
      <4>2. CASE RolesOf(line)[k] = "arg"
        <5>1. RolesOf(line)[k] = IF k = 1 THEN "name" ELSE After(RolesOf(line)[k - 1], line[k])
          BY RolesAre DEF Cast
        <5>2. After(RolesOf(line)[k - 1], line[k]) = "arg"
          BY <4>2, <5>1
        <5>3. Operator(line[k]) = "arg"
          BY <5>2 DEF After
        <5> QED BY <5>3 DEF Operator, Operators
      <4> QED BY <2>2, <4>1, <4>2
    <3>2. Piece(line, c, k) = ExpandedAt(line, k)
      BY <2>2 DEF Piece
    <3>3. CASE line[k] \in Patterns /\ ExpandedAt(line, k) = Matches[line[k]]
      <4>1. \A i \in 1 .. Len(Matches[line[k]]) : Matches[line[k]][i] \notin Operators
        BY <3>3, Found
      <4> QED BY <3>2, <3>3, <4>1
    <3>4. CASE ExpandedAt(line, k) = <<line[k]>>
      BY <3>1, <3>2, <3>4
    <3> QED BY <3>3, <3>4 DEF ExpandedAt
  <2> QED BY <2>1, <2>2
<1> DEFINE T == {m \in Nat : m <= Len(line) =>
                   \A a \in 1 .. Len(Said(line, c, m)) : Said(line, c, m)[a] \notin Operators}
<1>2. 0 \in T
  <2>1. Said(line, c, 0) = << >> /\ Len(<< >>) = 0
    BY SaidStep, EmptySeq
  <2> QED BY <2>1
<1>3. ASSUME NEW m \in Nat, m \in T
      PROVE  m + 1 \in T
  <2> SUFFICES ASSUME m + 1 <= Len(line), NEW a \in 1 .. Len(Said(line, c, m + 1))
               PROVE  Said(line, c, m + 1)[a] \notin Operators
    OBVIOUS
  <2> DEFINE s == Said(line, c, m)
             p == Piece(line, c, m + 1)
  <2>1. m \in 0 .. Len(line) /\ m + 1 \in 1 .. Len(line)
    OBVIOUS
  <2>2. s \in Seq(Texts) /\ p \in Seq(Texts)
    BY <2>1, SaidStep, PieceType
  <2>3. Said(line, c, m + 1) = s \o p
    BY SaidNext
  <2>4. /\ \A i \in 1 .. Len(s) : s[i] \notin Operators
        /\ \A i \in 1 .. Len(p) : p[i] \notin Operators
    BY <1>1, <1>3, <2>1
  <2> HIDE DEF s, p
  <2>5. Len(s \o p) = Len(s) + Len(p) /\ Len(s) \in Nat /\ Len(p) \in Nat
    BY <2>2, ConcatProperties, LenProperties
  <2>6. (s \o p)[a] = IF a <= Len(s) THEN s[a] ELSE p[a - Len(s)]
    BY <2>2, <2>3, <2>5, ConcatProperties
  <2>7. a <= Len(s) => a \in 1 .. Len(s)
    BY <2>3, <2>5
  <2>8. ~(a <= Len(s)) => a - Len(s) \in 1 .. Len(p)
    BY <2>3, <2>5
  <2> QED BY <2>3, <2>4, <2>6, <2>7, <2>8
<1> HIDE DEF T
<1>4. n \in T
  BY <1>2, <1>3, Induction
<1>5. Said(line, c, n) \in Seq(Texts)
  BY SaidStep
<1>6. \A a \in 1 .. Len(Said(line, c, n)) : Said(line, c, n)[a] \in Texts
  BY <1>5, ElementOfSeq
<1> QED BY <1>4, <1>6 DEF T

LEMMA LineInit == Init => LineInv
BY DEF Init, LineInv

LEMMA LineReadLine == TypeInv /\ LineInv /\ ReadLine /\ TypeInv' => LineInv'
<1> SUFFICES ASSUME TypeInv, ReadLine, TypeInv', PlainLine(text)'
             PROVE  LineInv'
  BY DEF LineInv
<1>1. /\ pc' = "first" /\ REDIRECT_IN' = "none" /\ REDIRECT_OUT' = "none"
      /\ BACKGROUND_MODE' = FALSE
      /\ UNCHANGED <<next, cmd_idx, cmd_offset>> /\ pc = "prompt"
  BY DEF ReadLine, locals
<1>2. next' = 1 /\ cmd_idx' = 0 /\ cmd_offset' = 0 /\ next' - 1 = 0
  BY <1>1 DEF TypeInv, Place
<1>3. text' \in Seq(Words) /\ Len(text') \in Nat
  BY DEF TypeInv, TypeOK
<1>4. Scanned(text', argv_store', "none", "none", FALSE, 0, 0)
  <2>1. CommandAt(text', 0 + 1) = 0
    <3>1. CommandAt(text', 1) = 0
      BY <1>3, CommandFirst
    <3> QED BY <3>1
  <2>2. \A role : FilesOf(text', role, 0) = {}
    BY <1>3 DEF FilesOf
  <2>3. \A k : k \notin 1 .. 0 /\ k \notin 0 .. 0 - 1
    OBVIOUS
  <2> QED BY <1>3, <2>1, <2>2, <2>3 DEF Scanned, LastFile, Before
<1>5. Said(text', 0, 0) = << >>
  BY <1>3, SaidStep
<1> QED BY <1>1, <1>2, <1>4, <1>5 DEF LineInv, LastOne, AtFirst

\* What a step of parser's loop finds.
LEMMA AtWordIs ==
  ASSUME TypeInv, LineInv, pc = "word", PlainLine(text)
  PROVE  /\ text \in Seq(Words) /\ Len(text) \in Nat /\ next - 1 \in Nat \ {0}
         /\ next - 1 <= Len(text) /\ next - 1 \in 0 .. Len(text) /\ (next - 1) + 1 = next
         /\ cmd_idx \in Nat /\ cmd_idx \in 0 .. MAX_PIPE_NUM - 1
         /\ argc \in Nat \ {0} /\ argv_store \in Rows
         /\ Scanned(text, argv_store, REDIRECT_IN, REDIRECT_OUT, BACKGROUND_MODE,
                    next - 1, cmd_idx)
         /\ Said(text, cmd_idx, next - 1) \in Seq(Texts)
         /\ argc = Len(Said(text, cmd_idx, next - 1))
         /\ IsRow(argv_store[cmd_idx], Said(text, cmd_idx, next - 1))
         /\ RolesOf(text)[next - 1] \in {"name", "arg", "file"}
         /\ LastOne(cmd_idx, cmd_offset, parse_end)
<1>1. /\ text \in Seq(Words) /\ Len(text) \in Nat /\ next \in Nat /\ next <= Len(text) + 1
      /\ cmd_idx \in Nat /\ cmd_idx \in 0 .. MAX_PIPE_NUM - 1
      /\ argc \in Nat \ {0} /\ argv_store \in Rows
  BY Sizes DEF TypeInv, TypeOK, Place, Rows
<1>2. /\ Scanned(text, argv_store, REDIRECT_IN, REDIRECT_OUT, BACKGROUND_MODE,
                 next - 1, cmd_idx)
      /\ LastOne(cmd_idx, cmd_offset, parse_end)
      /\ AtWord(text, argv_store[cmd_idx], argc, Said(text, cmd_idx, next - 1), next - 1)
  BY DEF LineInv
<1>3. /\ next - 1 \in Nat \ {0} /\ next - 1 <= Len(text) /\ next - 1 \in 0 .. Len(text)
      /\ (next - 1) + 1 = next
  BY <1>1, <1>2 DEF AtWord
<1>4. Said(text, cmd_idx, next - 1) \in Seq(Texts)
  BY <1>1, <1>3, SaidStep
<1> QED BY <1>1, <1>2, <1>3, <1>4 DEF AtWord

LEMMA StoreIs ==
  ASSUME TypeInv, pc = "word", NEW args \in Seq(Args), argc + Len(args) <= MAX_ARGC,
         Put(argc, args)
  PROVE  /\ \A b \in 0 .. cmd_idx - 1 : argv_store'[b] = argv_store[b]
         /\ \A a \in 0 .. argc - 1 : argv_store'[cmd_idx][a] = argv_store[cmd_idx][a]
         /\ \A i \in 1 .. Len(args) : argv_store'[cmd_idx][argc + i - 1] = args[i]
<1>1. /\ argv_store \in Rows /\ cmd_idx \in 0 .. MAX_PIPE_NUM - 1
      /\ argc \in Nat /\ Len(args) \in Nat
  BY Sizes, LenProperties DEF TypeInv, TypeOK, Place, Rows
<1>2. \A c \in 0 .. MAX_PIPE_NUM - 1 : c # cmd_idx => argv_store'[c] = argv_store[c]
  BY <1>1, PutIs
<1>3. \A b \in 0 .. MAX_ARGC - 1 :
        argv_store'[cmd_idx][b] =
          IF b \in argc .. argc + Len(args) - 1 THEN args[b - argc + 1]
          ELSE argv_store[cmd_idx][b]
  BY <1>1, PutIs
<1>4. \A b \in 0 .. cmd_idx - 1 : argv_store'[b] = argv_store[b]
  <2>1. \A b \in 0 .. cmd_idx - 1 : b \in 0 .. MAX_PIPE_NUM - 1 /\ b # cmd_idx
    BY <1>1, Sizes
  <2> QED BY <1>2, <2>1
<1>5. \A a \in 0 .. argc - 1 : argv_store'[cmd_idx][a] = argv_store[cmd_idx][a]
  <2>1. \A a \in 0 .. argc - 1 : a \in 0 .. MAX_ARGC - 1 /\ a \notin argc .. argc + Len(args) - 1
    BY <1>1, Sizes
  <2> QED BY <1>3, <2>1
<1>6. ASSUME NEW i \in 1 .. Len(args)
      PROVE  argv_store'[cmd_idx][argc + i - 1] = args[i]
  <2> DEFINE b == argc + i - 1
  <2>1. b \in 0 .. MAX_ARGC - 1 /\ b \in argc .. argc + Len(args) - 1 /\ b - argc + 1 = i
    BY <1>1, Sizes
  <2> HIDE DEF b
  <2>2. argv_store'[cmd_idx][b] = args[i]
    BY <1>3, <2>1
  <2> QED BY <2>2 DEF b
<1> QED BY <1>4, <1>5, <1>6

\* The command is ended by a null pointer behind its words.
LEMMA NullEnds ==
  ASSUME TypeInv, LineInv, InLoop, PlainLine(text), Put(argc, <<Null>>)
  PROVE  /\ \A b \in 0 .. cmd_idx - 1 : argv_store'[b] = argv_store[b]
         /\ EndedRow(argv_store'[cmd_idx], Said(text, cmd_idx, next - 1))
         /\ argv_store'[cmd_idx][0] # Null
<1> DEFINE s == Said(text, cmd_idx, next - 1)
<1>1. /\ pc = "word" /\ argc + 1 <= MAX_ARGC
  BY DEF InLoop, Room
<1>2. /\ argc = Len(s) /\ argc \in Nat \ {0} /\ IsRow(argv_store[cmd_idx], s)
      /\ s \in Seq(Texts)
  BY <1>1, AtWordIs
<1>3. <<Null>> \in Seq(Args) /\ Len(<<Null>>) = 1
  BY ArgsHave
<1>4. /\ \A b \in 0 .. cmd_idx - 1 : argv_store'[b] = argv_store[b]
      /\ \A a \in 0 .. argc - 1 : argv_store'[cmd_idx][a] = argv_store[cmd_idx][a]
      /\ \A i \in 1 .. Len(<<Null>>) : argv_store'[cmd_idx][argc + i - 1] = <<Null>>[i]
  BY <1>1, <1>3, StoreIs
<1>5. argv_store'[cmd_idx][argc] = Null
  <2>1. 1 \in 1 .. Len(<<Null>>) /\ argc + 1 - 1 = argc
    BY <1>2, <1>3
  <2> QED BY <1>4, <2>1
<1> HIDE DEF s
<1>6. EndedRow(argv_store'[cmd_idx], s)
  <2>1. \A a \in 1 .. Len(s) : a - 1 \in 0 .. argc - 1
    BY <1>2
  <2>2. Len(s) < MAX_ARGC
    BY <1>1, <1>2, Sizes
  <2> QED BY <1>2, <1>4, <1>5, <2>1, <2>2 DEF EndedRow, IsRow
<1>7. argv_store'[cmd_idx][0] # Null
  <2>1. 1 \in 1 .. Len(s) /\ 1 - 1 = 0 /\ 0 \in 0 .. argc - 1
    BY <1>2
  <2>2. argv_store'[cmd_idx][0].word = s[1]
    BY <1>2, <1>4, <2>1 DEF IsRow
  <2>3. s[1] \in Texts
    BY <1>2, <2>1, ElementOfSeq
  <2>4. Null.word = "NULL" /\ "NULL" \notin Texts
    BY Kinds DEF Null, Arg
  <2> QED BY <2>2, <2>3, <2>4
<1> QED BY <1>4, <1>6, <1>7 DEF s

LEMMA LineParseEnd == TypeInv /\ LineInv /\ ParseEnd => LineInv'
<1> SUFFICES ASSUME TypeInv, LineInv, ParseEnd, PlainLine(text)'
             PROVE  LineInv'
  BY DEF LineInv
<1>1. /\ InLoop /\ pc = "word" /\ Here = "end" /\ Put(argc, <<Null>>)
      /\ pc' = "loop" /\ ret' = 0
      /\ UNCHANGED <<text, next, cmd_idx, cmd_offset, argc, parse_end>>
      /\ UNCHANGED <<REDIRECT_IN, REDIRECT_OUT, BACKGROUND_MODE>>
  BY DEF ParseEnd, InLoop, Return, flags
<1>2. PlainLine(text)
  BY <1>1
<1>3. next - 1 = Len(text)
  BY <1>1, <1>2, HereIs, AtWordIs
<1>4. Complete(text, argv_store', REDIRECT_IN, REDIRECT_OUT, BACKGROUND_MODE, cmd_idx)
  <2>1. /\ \A b \in 0 .. cmd_idx - 1 : argv_store'[b] = argv_store[b]
        /\ EndedRow(argv_store'[cmd_idx], Said(text, cmd_idx, Len(text)))
    BY <1>1, <1>2, <1>3, NullEnds
  <2>2. /\ text \in Seq(Words) /\ cmd_idx \in Nat
        /\ Scanned(text, argv_store, REDIRECT_IN, REDIRECT_OUT, BACKGROUND_MODE,
                   Len(text), cmd_idx)
    BY <1>1, <1>2, <1>3, AtWordIs
  <2> QED BY <2>1, <2>2, ScanEnd
<1>5. LastOne(cmd_idx, cmd_offset, parse_end)
  BY <1>1, <1>2, AtWordIs
<1> QED BY <1>1, <1>4, <1>5 DEF LineInv

LEMMA LineParsePipe == TypeInv /\ LineInv /\ ParsePipe => LineInv'
<1> SUFFICES ASSUME TypeInv, LineInv, ParsePipe, PlainLine(text)'
             PROVE  LineInv'
  BY DEF LineInv
<1>1. /\ InLoop /\ pc = "word" /\ Here = "|" /\ Put(argc, <<Null>>)
      /\ pc' = "loop" /\ ret' = next - cmd_offset /\ parse_end' = 0 /\ next' = next + 1
      /\ UNCHANGED <<text, cmd_idx, cmd_offset, argc>>
      /\ UNCHANGED <<REDIRECT_IN, REDIRECT_OUT, BACKGROUND_MODE>>
  BY DEF ParsePipe, InLoop, Return, flags
<1>2. PlainLine(text)
  BY <1>1
<1> DEFINE n == next - 1
<1>3. /\ text \in Seq(Words) /\ n \in Nat \ {0} /\ n + 1 = next /\ cmd_idx \in Nat
      /\ argc \in Nat \ {0}
      /\ Scanned(text, argv_store, REDIRECT_IN, REDIRECT_OUT, BACKGROUND_MODE, n, cmd_idx)
      /\ RolesOf(text)[n] \in {"name", "arg", "file"}
  BY <1>1, <1>2, AtWordIs
<1>4. n + 1 <= Len(text) /\ text[n + 1] = "|"
  BY <1>1, <1>3, HereIs
<1>5. /\ \A b \in 0 .. cmd_idx - 1 : argv_store'[b] = argv_store[b]
      /\ EndedRow(argv_store'[cmd_idx], Said(text, cmd_idx, n))
      /\ argv_store'[cmd_idx][0] # Null
  BY <1>1, <1>2, NullEnds
<1>6. RolesOf(text)[n + 1] = "pipe"
  <2>1. RolesOf(text)[n + 1] = After(RolesOf(text)[n], text[n + 1])
    BY <1>3, <1>4, NextRole
  <2> QED BY <1>3, <1>4, <2>1 DEF After, Operator
<1>7. cmd_offset \in Nat /\ next \in Nat
  BY DEF TypeInv, TypeOK
<1> HIDE DEF n
<1>8. /\ Scanned(text, argv_store', REDIRECT_IN, REDIRECT_OUT, BACKGROUND_MODE,
                 n + 1, cmd_idx + 1)
      /\ Said(text, cmd_idx + 1, n + 1) = << >>
  BY <1>3, <1>4, <1>5, <1>6, ScanPipe
<1>9. /\ next' - 1 = n + 1 /\ next' > 1 /\ n + 1 # 0
      /\ cmd_offset' + ret' = n + 1
  BY <1>1, <1>3, <1>7
<1>10. AtFirst(text, cmd_offset' + ret', n + 1)
  BY <1>6, <1>9 DEF AtFirst
<1> QED BY <1>1, <1>3, <1>8, <1>9, <1>10 DEF LineInv

LEMMA LineParseAmp == TypeInv /\ LineInv /\ ParseAmp => LineInv'
<1> SUFFICES ASSUME TypeInv, LineInv, ParseAmp, PlainLine(text)'
             PROVE  LineInv'
  BY DEF LineInv
<1>1. /\ InLoop /\ pc = "word" /\ Here = "&" /\ Put(argc, <<Null>>)
      /\ pc' = "loop" /\ ret' = 0 /\ BACKGROUND_MODE' = TRUE /\ next' = next + 1
      /\ UNCHANGED <<text, cmd_idx, cmd_offset, argc, parse_end, REDIRECT_IN, REDIRECT_OUT>>
  BY DEF ParseAmp, InLoop, Return
<1>2. PlainLine(text)
  BY <1>1
<1> DEFINE n == next - 1
<1>3. /\ text \in Seq(Words) /\ n \in Nat \ {0} /\ n + 1 = next /\ cmd_idx \in Nat
      /\ Scanned(text, argv_store, REDIRECT_IN, REDIRECT_OUT, BACKGROUND_MODE, n, cmd_idx)
      /\ RolesOf(text)[n] \in {"name", "arg", "file"}
      /\ LastOne(cmd_idx, cmd_offset, parse_end)
  BY <1>1, <1>2, AtWordIs
<1>4. n + 1 <= Len(text) /\ text[n + 1] = "&"
  BY <1>1, <1>3, HereIs
<1>5. /\ \A b \in 0 .. cmd_idx - 1 : argv_store'[b] = argv_store[b]
      /\ EndedRow(argv_store'[cmd_idx], Said(text, cmd_idx, n))
  BY <1>1, <1>2, NullEnds
<1>6. RolesOf(text)[n + 1] = "amp"
  <2>1. RolesOf(text)[n + 1] = After(RolesOf(text)[n], text[n + 1])
    BY <1>3, <1>4, NextRole
  <2> QED BY <1>3, <1>4, <2>1 DEF After, Operator
<1> HIDE DEF n
<1>7. Complete(text, argv_store', REDIRECT_IN, REDIRECT_OUT, TRUE, cmd_idx)
  BY <1>3, <1>4, <1>5, <1>6, ScanAmp
<1> QED BY <1>1, <1>3, <1>7 DEF LineInv

LEMMA LineParseFirst == TypeInv /\ LineInv /\ ParseFirst => LineInv'
<1> SUFFICES ASSUME TypeInv, LineInv, ParseFirst, PlainLine(text)'
             PROVE  LineInv'
  BY DEF LineInv
<1> DEFINE first == cmd_offset + 1
<1>1. /\ pc = "first" /\ cmd_idx < MAX_PIPE_NUM /\ argc' = 1
      /\ UNCHANGED <<text, cmd_idx, cmd_offset, parse_end>>
      /\ UNCHANGED <<REDIRECT_IN, REDIRECT_OUT, BACKGROUND_MODE>>
  BY DEF ParseFirst, flags
<1>2. PlainLine(text)
  BY <1>1
<1>3. /\ text \in Seq(Words) /\ Len(text) \in Nat /\ next \in Nat /\ next <= Len(text) + 1
      /\ cmd_idx \in Nat /\ cmd_idx \in 0 .. MAX_PIPE_NUM - 1 /\ argv_store \in Rows
      /\ cmd_offset \in Nat /\ ret = 0
  BY <1>1, Sizes DEF TypeInv, TypeOK, Place, Rows
<1>4. /\ Scanned(text, argv_store, REDIRECT_IN, REDIRECT_OUT, BACKGROUND_MODE,
                 next - 1, cmd_idx)
      /\ LastOne(cmd_idx, cmd_offset, parse_end)
      /\ AtFirst(text, cmd_offset, next - 1) /\ Said(text, cmd_idx, next - 1) = << >>
  BY <1>1, <1>2 DEF LineInv
<1> DEFINE n == cmd_offset
<1>5. next - 1 = n /\ first = n + 1 /\ n \in Nat /\ n <= Len(text) /\ next = n + 1
  BY <1>3, <1>4 DEF AtFirst
<1>6. /\ Scanned(text, argv_store, REDIRECT_IN, REDIRECT_OUT, BACKGROUND_MODE, n, cmd_idx)
      /\ Said(text, cmd_idx, n) = << >>
      /\ n = 0 \/ RolesOf(text)[n] = "pipe"
  BY <1>4, <1>5 DEF AtFirst
<1>7. CASE first > Len(text)
  <2>1. Put(0, <<Null>>) /\ pc' = "loop" /\ ret' = 0
    BY <1>7 DEF ParseFirst, Return
  <2>2. <<Null>> \in Seq(Args) /\ Len(<<Null>>) = 1 /\ 0 + Len(<<Null>>) <= MAX_ARGC
    BY ArgsHave, Sizes
  <2>3. /\ \A c \in 0 .. MAX_PIPE_NUM - 1 : c # cmd_idx => argv_store'[c] = argv_store[c]
        /\ \A b \in 0 .. MAX_ARGC - 1 :
             argv_store'[cmd_idx][b] =
               IF b \in 0 .. 0 + Len(<<Null>>) - 1 THEN <<Null>>[b - 0 + 1]
               ELSE argv_store[cmd_idx][b]
    BY <1>3, <2>1, <2>2, PutIs
  <2>4. argv_store'[cmd_idx][0] = Null
    <3>1. 0 \in 0 .. MAX_ARGC - 1 /\ 0 \in 0 .. 0 + Len(<<Null>>) - 1 /\ 0 - 0 + 1 = 1
      BY <2>2, Sizes
    <3> QED BY <2>3, <3>1
  <2>5. \A b \in 0 .. cmd_idx - 1 : argv_store'[b] = argv_store[b]
    <3>1. \A b \in 0 .. cmd_idx - 1 : b \in 0 .. MAX_PIPE_NUM - 1 /\ b # cmd_idx
      BY <1>3, Sizes
    <3> QED BY <2>3, <3>1
  <2>6. n = Len(text)
    BY <1>3, <1>5, <1>7
  <2>7. EndedRow(argv_store'[cmd_idx], Said(text, cmd_idx, Len(text)))
    <3>1. Len(<< >>) = 0 /\ \A a : a \notin 1 .. 0
      BY EmptySeq
    <3> QED BY <1>6, <2>4, <2>6, <3>1, Sizes DEF EndedRow, IsRow
  <2> HIDE DEF n, first
  <2>8. Complete(text, argv_store', REDIRECT_IN, REDIRECT_OUT, BACKGROUND_MODE, cmd_idx)
    BY <1>3, <1>6, <2>5, <2>6, <2>7, ScanEnd
  <2> QED BY <1>1, <1>4, <2>1, <2>8 DEF LineInv
<1>8. CASE ~(first > Len(text))
  <2> DEFINE word == text[n + 1]
  <2>1. Put(0, <<Arg(word, 0)>>) /\ next' = n + 2 /\ pc' = "word"
    BY <1>5, <1>8 DEF ParseFirst
  <2>2. n + 1 <= Len(text) /\ n + 1 \in 1 .. Len(text)
    BY <1>3, <1>5, <1>8
  <2>3. word \in Texts
    BY <1>3, <2>2, ElementOfSeq, Kinds
  <2> HIDE DEF word
  <2>4. /\ <<Arg(word, 0)>> \in Seq(Args) /\ Len(<<Arg(word, 0)>>) = 1
        /\ 0 + Len(<<Arg(word, 0)>>) <= MAX_ARGC
    <3>1. Arg(word, 0) \in Args
      BY <2>3, ArgsHave, Sizes
    <3> QED BY <3>1, Sizes
  <2>5. /\ \A c \in 0 .. MAX_PIPE_NUM - 1 : c # cmd_idx => argv_store'[c] = argv_store[c]
        /\ \A b \in 0 .. MAX_ARGC - 1 :
             argv_store'[cmd_idx][b] =
               IF b \in 0 .. 0 + Len(<<Arg(word, 0)>>) - 1 THEN <<Arg(word, 0)>>[b - 0 + 1]
               ELSE argv_store[cmd_idx][b]
    BY <1>3, <2>1, <2>4, PutIs
  <2>6. argv_store'[cmd_idx][0] = Arg(word, 0)
    <3>1. 0 \in 0 .. MAX_ARGC - 1 /\ 0 \in 0 .. 0 + Len(<<Arg(word, 0)>>) - 1 /\ 0 - 0 + 1 = 1
      BY <2>4, Sizes
    <3> QED BY <2>5, <3>1
  <2>7. \A b \in 0 .. cmd_idx - 1 : argv_store'[b] = argv_store[b]
    <3>1. \A b \in 0 .. cmd_idx - 1 : b \in 0 .. MAX_PIPE_NUM - 1 /\ b # cmd_idx
      BY <1>3, Sizes
    <3> QED BY <2>5, <3>1
  <2>8. RolesOf(text)[n + 1] = "name"
    <3>1. CASE n = 0
      <4>1. Len(text) # 0
        BY <2>2, <3>1
      <4> QED BY <1>3, <3>1, <4>1, FirstRole
    <3>2. CASE n # 0
      <4>1. RolesOf(text)[n + 1] = After(RolesOf(text)[n], text[n + 1])
        BY <1>3, <1>5, <2>2, <3>2, NextRole
      <4> QED BY <1>6, <3>2, <4>1 DEF After
    <3> QED BY <3>1, <3>2
  <2> HIDE DEF n, first
  <2>9. /\ Scanned(text, argv_store', REDIRECT_IN, REDIRECT_OUT, BACKGROUND_MODE,
                   n + 1, cmd_idx)
        /\ Said(text, cmd_idx, n + 1) = Said(text, cmd_idx, n) \o ExpandedAt(text, n + 1)
    BY <1>3, <1>5, <1>6, <2>2, <2>7, <2>8, ScanWord
  <2>10. Said(text, cmd_idx, n + 1) = <<word>>
    <3>1. ExpandedAt(text, n + 1) = <<word>>
      BY <2>8 DEF ExpandedAt, word
    <3>2. << >> \o <<word>> = <<word>>
      BY <2>3, ConcatEmptySeq
    <3> QED BY <1>6, <2>9, <3>1, <3>2
  <2>11. IsRow(argv_store'[cmd_idx], <<word>>) /\ Len(<<word>>) = 1
    <3>1. \A a \in 1 .. 1 : a = 1 /\ a - 1 = 0
      OBVIOUS
    <3>2. Len(<<word>>) = 1 /\ <<word>>[1] = word /\ Arg(word, 0).word = word
      BY DEF Arg
    <3> QED BY <2>6, <3>1, <3>2, Sizes DEF IsRow
  <2>12. AtWord(text, argv_store'[cmd_idx], 1, <<word>>, n + 1)
    BY <1>5, <2>8, <2>11 DEF AtWord
  <2>13. next' - 1 = n + 1
    BY <1>5, <2>1
  <2> QED BY <1>1, <1>4, <2>1, <2>9, <2>10, <2>12, <2>13 DEF LineInv
<1> QED BY <1>7, <1>8

\* An argument: its words are stored behind those of the command.
LEMMA ArgumentStored ==
  ASSUME TypeInv, LineInv, PlainLine(text), pc = "word", next <= Len(text),
         text[next] \notin Operators,
         NEW args \in Seq(Args), argc + Len(args) <= MAX_ARGC, Put(argc, args),
         ExpandedAt(text, next) \in Seq(Texts),
         IF text[next] \in Patterns /\ Matches[text[next]] # << >>
         THEN Len(args) = Len(Matches[text[next]])
              /\ \A i \in 1 .. Len(args) : args[i].word = Matches[text[next]][i]
         ELSE Len(args) = 1 /\ args[1].word = text[next],
         argc' = argc + Len(args), next' = next + 1, pc' = "word",
         UNCHANGED <<text, cmd_idx, cmd_offset, parse_end>>,
         UNCHANGED <<REDIRECT_IN, REDIRECT_OUT, BACKGROUND_MODE>>
  PROVE  LineInv'
<1> DEFINE n == next - 1
           s == Said(text, cmd_idx, n)
           e == ExpandedAt(text, next)
<1>1. /\ text \in Seq(Words) /\ n \in Nat \ {0} /\ n + 1 = next /\ cmd_idx \in Nat
      /\ n + 1 <= Len(text)
      /\ Scanned(text, argv_store, REDIRECT_IN, REDIRECT_OUT, BACKGROUND_MODE, n, cmd_idx)
      /\ s \in Seq(Texts) /\ argc = Len(s) /\ IsRow(argv_store[cmd_idx], s)
      /\ RolesOf(text)[n] \in {"name", "arg", "file"}
      /\ LastOne(cmd_idx, cmd_offset, parse_end)
  BY AtWordIs
<1>2. /\ \A b \in 0 .. cmd_idx - 1 : argv_store'[b] = argv_store[b]
      /\ \A a \in 0 .. argc - 1 : argv_store'[cmd_idx][a] = argv_store[cmd_idx][a]
      /\ \A i \in 1 .. Len(args) : argv_store'[cmd_idx][argc + i - 1] = args[i]
  BY StoreIs
<1>3. RolesOf(text)[n + 1] = "arg"
  <2>1. RolesOf(text)[n + 1] = After(RolesOf(text)[n], text[n + 1])
    BY <1>1, NextRole
  <2>2. Operator(text[n + 1]) = "arg"
    BY <1>1 DEF Operator, Operators
  <2> QED BY <1>1, <2>1, <2>2 DEF After
<1>4. Len(e) = Len(args) /\ \A i \in 1 .. Len(args) : args[i].word = e[i]
  <2>1. CASE text[next] \in Patterns /\ Matches[text[next]] # << >>
    BY <1>1, <1>3, <2>1 DEF ExpandedAt
  <2>2. CASE ~(text[next] \in Patterns /\ Matches[text[next]] # << >>)
    <3>1. e = <<text[next]>>
      BY <2>2 DEF ExpandedAt
    <3>2. Len(args) = 1 /\ args[1].word = text[next]
      BY <2>2
    <3>3. \A i \in 1 .. 1 : i = 1
      OBVIOUS
    <3> HIDE DEF e
    <3> QED BY <3>1, <3>2, <3>3
  <2> QED BY <2>1, <2>2
<1>5. e \in Seq(Texts)
  OBVIOUS
<1> HIDE DEF n, s, e
<1>6. IsRow(argv_store'[cmd_idx], s \o e) /\ Len(s \o e) = argc'
  <2>1. \A i \in 1 .. Len(e) : argv_store'[cmd_idx][Len(s) + i - 1].word = e[i]
    BY <1>1, <1>2, <1>4
  <2>2. \A a \in 0 .. Len(s) - 1 : argv_store'[cmd_idx][a] = argv_store[cmd_idx][a]
    BY <1>1, <1>2
  <2>3. Len(s) + Len(e) <= MAX_ARGC
    BY <1>1, <1>4
  <2>4. Len(s \o e) = argc'
    <3>1. Len(s \o e) = Len(s) + Len(e)
      BY <1>1, <1>5, ConcatProperties
    <3> QED BY <1>1, <1>4, <3>1
  <2> QED BY <1>1, <1>5, <2>1, <2>2, <2>3, <2>4, IsRowAppend
<1>7. /\ Scanned(text, argv_store', REDIRECT_IN, REDIRECT_OUT, BACKGROUND_MODE,
                 n + 1, cmd_idx)
      /\ Said(text, cmd_idx, n + 1) = Said(text, cmd_idx, n) \o ExpandedAt(text, n + 1)
  BY <1>1, <1>2, <1>3, ScanWord
<1>8. Said(text, cmd_idx, n + 1) = s \o e
  BY <1>1, <1>7 DEF s, e
<1>9. AtWord(text, argv_store'[cmd_idx], argc', s \o e, n + 1)
  <2>1. n + 1 > 0
    BY <1>1
  <2> QED BY <1>3, <1>6, <2>1 DEF AtWord
<1>10. next' - 1 = n + 1
  BY <1>1
<1> QED BY <1>1, <1>7, <1>8, <1>9, <1>10 DEF LineInv

LEMMA LineParseWord == TypeInv /\ LineInv /\ ParseWord => LineInv'
<1> SUFFICES ASSUME TypeInv, LineInv, ParseWord, PlainLine(text)'
             PROVE  LineInv'
  BY DEF LineInv
<1>1. /\ pc = "word" /\ argc + 1 <= MAX_ARGC /\ Here \in Programs \cup Builtins
      /\ Put(argc, <<Arg(Here, 0)>>) /\ argc' = argc + 1 /\ next' = next + 1 /\ pc' = "word"
      /\ UNCHANGED <<text, cmd_idx, cmd_offset, parse_end>>
      /\ UNCHANGED <<REDIRECT_IN, REDIRECT_OUT, BACKGROUND_MODE>>
  BY DEF ParseWord, InLoop, Room, flags
<1>2. PlainLine(text)
  BY <1>1
<1>3. Here \in Texts /\ Here \notin Patterns /\ Here \notin Operators /\ Here # "end"
  BY <1>1, Kinds DEF Words
<1>4. next <= Len(text) /\ Here = text[next]
  BY <1>1, <1>3, HereIs
<1> DEFINE args == <<Arg(Here, 0)>>
<1>5. args \in Seq(Args) /\ Len(args) = 1 /\ args[1].word = Here
  <2>1. Arg(Here, 0) \in Args /\ Arg(Here, 0).word = Here
    BY <1>3, ArgsHave, Sizes DEF Arg
  <2> QED BY <2>1
<1>6. ExpandedAt(text, next) \in Seq(Texts)
  <2>1. ExpandedAt(text, next) = <<text[next]>>
    BY <1>3, <1>4 DEF ExpandedAt
  <2> QED BY <1>3, <1>4, <2>1
<1>7. Put(argc, args)
  BY <1>1
<1> HIDE DEF args
<1>8. argc + Len(args) <= MAX_ARGC /\ argc' = argc + Len(args)
  BY <1>1, <1>5
<1> QED BY <1>1, <1>2, <1>3, <1>4, <1>5, <1>6, <1>7, <1>8, ArgumentStored

LEMMA LineParsePattern == TypeInv /\ LineInv /\ ParsePattern => LineInv'
<1> SUFFICES ASSUME TypeInv, LineInv, ParsePattern, PlainLine(text)'
             PROVE  LineInv'
  BY DEF LineInv
<1> DEFINE names == Matches[Here]
<1>1. /\ pc = "word" /\ argc + 1 <= MAX_ARGC /\ Here \in Patterns
      /\ argc + Len(names) <= MAX_ARGC /\ next' = next + 1 /\ pc' = "word"
      /\ UNCHANGED <<text, cmd_idx, cmd_offset, parse_end>>
      /\ UNCHANGED <<REDIRECT_IN, REDIRECT_OUT, BACKGROUND_MODE>>
  BY DEF ParsePattern, InLoop, Room, flags
<1>2. PlainLine(text)
  BY <1>1
<1>3. Here \in Texts /\ Here \notin Operators /\ Here # "end"
  BY <1>1, Kinds DEF Words
<1>4. next <= Len(text) /\ Here = text[next] /\ next \in 0 .. MaxWords
  BY <1>1, <1>3, HereIs, Sizes DEF TypeInv, TypeOK
<1>5. names \in Seq(Texts) /\ Len(names) \in Nat
  BY <1>1, Found
<1>6. ExpandedAt(text, next) \in Seq(Texts)
  <2>1. <<text[next]>> \in Seq(Texts)
    BY <1>3, <1>4
  <2> QED BY <1>4, <1>5, <2>1 DEF ExpandedAt
<1>7. CASE names = << >>
  <2> DEFINE args == <<Arg(Here, 0)>>
  <2>1. Put(argc, args) /\ argc' = argc + 1
    BY <1>7 DEF ParsePattern
  <2>2. args \in Seq(Args) /\ Len(args) = 1 /\ args[1].word = Here
    <3>1. Arg(Here, 0) \in Args /\ Arg(Here, 0).word = Here
      BY <1>3, ArgsHave, Sizes DEF Arg
    <3> QED BY <3>1
  <2> HIDE DEF args
  <2>3. argc + Len(args) <= MAX_ARGC /\ argc' = argc + Len(args)
    BY <1>1, <2>1, <2>2
  <2> QED BY <1>1, <1>2, <1>3, <1>4, <1>6, <1>7, <2>1, <2>2, <2>3, ArgumentStored
<1>8. CASE names # << >>
  <2> DEFINE args == [i \in DOMAIN names |-> Arg(names[i], next)]
  <2>1. Put(argc, args) /\ argc' = argc + Len(names)
    BY <1>8 DEF ParsePattern
  <2>2. /\ args \in Seq(Args) /\ Len(args) = Len(names)
        /\ \A i \in 1 .. Len(args) : args[i].word = names[i]
    <3>1. DOMAIN names = 1 .. Len(names)
      BY <1>5, LenProperties
    <3> HIDE DEF names
    <3>2. \A i \in 1 .. Len(names) : names[i] \in Texts
      BY <1>5, ElementOfSeq
    <3>3. \A i \in 1 .. Len(names) :
            Arg(names[i], next) \in Args /\ Arg(names[i], next).word = names[i]
      BY <1>4, <3>2, ArgsHave DEF Arg
    <3> QED BY <1>5, <3>1, <3>3
  <2> HIDE DEF args
  <2>3. argc + Len(args) <= MAX_ARGC /\ argc' = argc + Len(args)
    BY <1>1, <2>1, <2>2
  <2>4. /\ Len(args) = Len(Matches[text[next]])
        /\ \A i \in 1 .. Len(args) : args[i].word = Matches[text[next]][i]
        /\ Matches[text[next]] # << >>
    BY <1>4, <1>8, <2>2
  <2> HIDE DEF names
  <2> QED BY <1>1, <1>2, <1>3, <1>4, <1>6, <2>1, <2>2, <2>3, <2>4, ArgumentStored
<1> QED BY <1>7, <1>8

LEMMA LineParseRedirection == TypeInv /\ LineInv /\ ParseRedirection => LineInv'
<1> SUFFICES ASSUME TypeInv, LineInv, ParseRedirection, PlainLine(text)'
             PROVE  LineInv'
  BY DEF LineInv
<1>1. /\ pc = "word" /\ next <= Len(text) /\ Here \in {"<", ">"}
      /\ argc \in 1 .. MAX_ARGC - 1
      /\ IF Here = "<" THEN REDIRECT_IN' = FileHere /\ UNCHANGED REDIRECT_OUT
                       ELSE REDIRECT_OUT' = FileHere /\ UNCHANGED REDIRECT_IN
      /\ next' = next + 2 /\ UNCHANGED <<text, cmd_idx, cmd_offset>>
  BY RedirectionIs
<1>2. PlainLine(text)
  BY <1>1
<1> DEFINE n == next - 1
           s == Said(text, cmd_idx, n)
<1>3. /\ text \in Seq(Words) /\ Len(text) \in Nat /\ n \in Nat \ {0} /\ n + 1 = next
      /\ cmd_idx \in Nat /\ n \in 0 .. Len(text)
      /\ Scanned(text, argv_store, REDIRECT_IN, REDIRECT_OUT, BACKGROUND_MODE, n, cmd_idx)
      /\ s \in Seq(Texts) /\ argc = Len(s) /\ IsRow(argv_store[cmd_idx], s)
      /\ RolesOf(text)[n] \in {"name", "arg", "file"}
      /\ LastOne(cmd_idx, cmd_offset, parse_end)
  BY <1>1, <1>2, AtWordIs
<1>4. n + 1 <= Len(text) /\ text[n + 1] = Here
  BY <1>1, <1>3, HereIs
<1>5. RolesOf(text)[n + 1] = IF Here = "<" THEN "in" ELSE "out"
  <2>1. RolesOf(text)[n + 1] = After(RolesOf(text)[n], text[n + 1])
    BY <1>3, <1>4, NextRole
  <2>2. Operator(text[n + 1]) = IF Here = "<" THEN "in" ELSE "out"
    BY <1>1, <1>4 DEF Operator
  <2> QED BY <1>3, <2>1, <2>2 DEF After
<1>6. argv_store[cmd_idx][argc - 1].word \notin Operators
  <2>1. argc \in 1 .. Len(s)
    BY <1>1, <1>3
  <2>2. s[argc] \notin Operators
    BY <1>2, <1>3, <2>1, SaidPlain
  <2> HIDE DEF s
  <2> QED BY <1>3, <2>1, <2>2 DEF IsRow
<1> HIDE DEF n, s
<1>7. CASE next = Len(text) /\ pc' = "crashed"
  <2>1. n + 1 = Len(text)
    BY <1>3, <1>7
  <2>2. RolesOf(text)[Len(text)] \in {"in", "out"}
    BY <1>5, <2>1
  <2>3. text # << >>
    BY <1>3, <2>1, EmptySeq
  <2> QED BY <1>1, <1>7, <2>2, <2>3 DEF LineInv, Odd
<1>8. CASE /\ next < Len(text) /\ Put(argc, <<Null>>)
           /\ UNCHANGED <<pc, argc, ret, parse_end, BACKGROUND_MODE>>
  <2>1. n + 2 <= Len(text) /\ FileHere = text[n + 2]
    <3>1. next + 1 = n + 2
      BY <1>3
    <3> QED BY <1>3, <1>8, <3>1 DEF FileHere
  <2>2. <<Null>> \in Seq(Args) /\ Len(<<Null>>) = 1 /\ argc + Len(<<Null>>) <= MAX_ARGC
    BY <1>1, ArgsHave, Sizes
  <2>3. /\ \A b \in 0 .. cmd_idx - 1 : argv_store'[b] = argv_store[b]
        /\ \A a \in 0 .. argc - 1 : argv_store'[cmd_idx][a] = argv_store[cmd_idx][a]
    BY <1>1, <1>8, <2>2, StoreIs
  <2>4. IsRow(argv_store'[cmd_idx], s)
    <3>1. \A a \in 1 .. Len(s) : a - 1 \in 0 .. argc - 1
      BY <1>1, <1>3
    <3> QED BY <1>3, <2>3, <3>1 DEF IsRow
  <2>5. IF RolesOf(text)[n + 1] = "in"
        THEN REDIRECT_IN' = text[n + 2] /\ REDIRECT_OUT' = REDIRECT_OUT
        ELSE REDIRECT_OUT' = text[n + 2] /\ REDIRECT_IN' = REDIRECT_IN
    BY <1>1, <1>5, <2>1
  <2>6. RolesOf(text)[n + 1] \in {"in", "out"}
    BY <1>5
  <2>7. /\ Scanned(text, argv_store', REDIRECT_IN', REDIRECT_OUT', BACKGROUND_MODE,
                   n + 2, cmd_idx)
        /\ Said(text, cmd_idx, n + 2) = Said(text, cmd_idx, n)
        /\ RolesOf(text)[n + 2] = "file"
    BY <1>3, <2>1, <2>3, <2>5, <2>6, ScanFile
  <2>8. next' - 1 = n + 2 /\ n + 2 > 0
    BY <1>1, <1>3
  <2>9. AtWord(text, argv_store'[cmd_idx], argc, s, n + 2)
    BY <1>3, <2>4, <2>7, <2>8 DEF AtWord
  <2>10. Said(text, cmd_idx, n + 2) = s
    BY <2>7 DEF s
  <2> QED BY <1>1, <1>3, <1>8, <2>7, <2>8, <2>9, <2>10 DEF LineInv
<1> QED BY <1>6, <1>7, <1>8, RedirectionIs

\* A command that has said as much as there is room for is too long.
LEMMA TooLong ==
  ASSUME NEW line \in Seq(Words), NEW c \in Nat, NEW n \in 0 .. Len(line),
         Len(Said(line, c, n)) >= MAX_ARGC
  PROVE  Odd(line, c)
<1>1. n \in Nat /\ Len(line) \in Nat /\ n <= Len(line) /\ Len(line) <= Len(line)
      /\ Len(line) \in 0 .. Len(line)
  OBVIOUS
<1>2. Len(Said(line, c, n)) <= Len(Said(line, c, Len(line)))
  BY <1>1, SaidGrows
<1>3. Len(Said(line, c, n)) \in Nat /\ Len(Said(line, c, Len(line))) \in Nat
  <2>1. Said(line, c, n) \in Seq(Texts) /\ Said(line, c, Len(line)) \in Seq(Texts)
    BY <1>1, SaidStep
  <2> QED BY <2>1, LenProperties
<1>4. Len(Said(line, c, Len(line))) >= MAX_ARGC
  BY <1>2, <1>3, Sizes
<1>5. c \in 0 .. c
  OBVIOUS
<1> QED BY <1>4, <1>5 DEF Odd

LEMMA LineOverflow == TypeInv /\ LineInv /\ Overflow => LineInv'
<1> SUFFICES ASSUME TypeInv, LineInv, Overflow, PlainLine(text)'
             PROVE  LineInv'
  BY DEF LineInv
<1>1. pc' = "lost" /\ UNCHANGED <<text, cmd_idx>>
  BY DEF Overflow
<1>2. PlainLine(text)
  BY <1>1
<1> SUFFICES Odd(text, cmd_idx)
  BY <1>1 DEF LineInv
<1>3. CASE pc = "first" /\ cmd_idx >= MAX_PIPE_NUM
  <2>1. /\ text \in Seq(Words) /\ Len(text) \in Nat /\ next \in Nat /\ next <= Len(text) + 1
        /\ cmd_idx \in Nat
    BY <1>3 DEF TypeInv, TypeOK, Place
  <2>2. CommandAt(text, (next - 1) + 1) = cmd_idx
    BY <1>2, <1>3 DEF LineInv, Scanned
  <2>3. CommandAt(text, next) = cmd_idx
    BY <2>1, <2>2
  <2>4. CommandAt(text, next) <= CommandAt(text, Len(text) + 1)
    BY <2>1, CommandGrows
  <2>5. CommandAt(text, Len(text) + 1) \in Nat
    BY <2>1, PipesFinite
  <2>6. CommandAt(text, Len(text) + 1) >= MAX_PIPE_NUM
    BY <1>3, <2>1, <2>3, <2>4, <2>5, Sizes
  <2> QED BY <2>6 DEF Odd
<1>4. CASE pc = "word"
  <2> DEFINE n == next - 1
             s == Said(text, cmd_idx, n)
  <2>1. /\ text \in Seq(Words) /\ Len(text) \in Nat /\ n \in Nat \ {0} /\ n + 1 = next
        /\ cmd_idx \in Nat /\ n \in 0 .. Len(text)
        /\ Scanned(text, argv_store, REDIRECT_IN, REDIRECT_OUT, BACKGROUND_MODE, n, cmd_idx)
        /\ argc = Len(s) /\ argc \in Nat
        /\ RolesOf(text)[n] \in {"name", "arg", "file"}
    BY <1>2, <1>4, AtWordIs
  <2>2. CASE argc >= MAX_ARGC
    BY <2>1, <2>2, TooLong
  <2> HIDE DEF s
  <2>5. argc \in Nat /\ MAX_ARGC \in Nat
    BY <2>1, Sizes
  <2>3. CASE Here \in Patterns /\ ~Room(Len(Matches[Here])) /\ ~(argc >= MAX_ARGC)
    <3>1. Here # "end" /\ Here \notin Operators
      BY <2>3, Kinds DEF Words
    <3>2. n + 1 <= Len(text) /\ text[n + 1] = Here /\ n + 1 \in 0 .. Len(text)
      BY <1>4, <2>1, <3>1, HereIs
    <3>3. Matches[Here] \in Seq(Texts) /\ Len(Matches[Here]) \in Nat
      BY <2>3, Found
    <3> DEFINE l == Len(Matches[Here])
    <3>11. ~(argc + l <= MAX_ARGC) /\ ~(argc >= MAX_ARGC) /\ l \in Nat
      BY <2>3, <3>3 DEF Room
    <3> HIDE DEF l
    <3>12. argc + l > MAX_ARGC /\ l # 0
      BY <2>5, <3>11
    <3>4. argc + Len(Matches[Here]) > MAX_ARGC /\ Len(Matches[Here]) # 0
      BY <3>12 DEF l
    <3>5. Matches[Here] # << >>
      <4>1. Len(<< >>) = 0
        BY EmptySeq
      <4> QED BY <3>4, <4>1
    <3>6. RolesOf(text)[n + 1] = "arg"
      <4>1. RolesOf(text)[n + 1] = After(RolesOf(text)[n], text[n + 1])
        BY <2>1, <3>2, NextRole
      <4>2. Operator(text[n + 1]) = "arg"
        BY <3>1, <3>2 DEF Operator, Operators
      <4> QED BY <2>1, <4>1, <4>2 DEF After
    <3>7. CommandAt(text, n + 1) = cmd_idx
      BY <2>1 DEF Scanned
    <3>8. Piece(text, cmd_idx, n + 1) = Matches[Here]
      BY <2>3, <3>2, <3>5, <3>6, <3>7 DEF Piece, ExpandedAt
    <3> HIDE DEF n
    <3>9. Len(Said(text, cmd_idx, n + 1))
            = Len(Said(text, cmd_idx, n)) + Len(Piece(text, cmd_idx, n + 1))
      BY <2>1, <3>2, SaidNext
    <3>10. Len(Said(text, cmd_idx, n + 1)) >= MAX_ARGC
      BY <2>1, <2>5, <3>3, <3>4, <3>8, <3>9 DEF s
    <3> QED BY <2>1, <3>2, <3>10, TooLong
  <2>4. argc >= MAX_ARGC \/ (Here \in Patterns /\ ~Room(Len(Matches[Here])))
    <3>1. ~Room(1) \/ (Here \in Patterns /\ ~Room(Len(Matches[Here])))
      BY <1>4 DEF Overflow
    <3>2. ~Room(1) => argc >= MAX_ARGC
      BY <2>5 DEF Room
    <3> QED BY <3>1, <3>2
  <2> QED BY <2>2, <2>3, <2>4
<1> QED BY <1>3, <1>4 DEF Overflow

LEMMA LineLoop == TypeInv /\ LineInv /\ Loop => LineInv'
<1> SUFFICES ASSUME TypeInv, LineInv, Loop, PlainLine(text)'
             PROVE  LineInv'
  BY DEF LineInv
<1>1. /\ pc = "loop" /\ cmd_offset' = cmd_offset + ret
      /\ UNCHANGED <<text, next, argv_store, REDIRECT_IN, REDIRECT_OUT, BACKGROUND_MODE>>
      /\ IF cmd_offset + ret = 0 \/ argc = 0 \/ parse_end = 1
         THEN pc' = "stage" /\ UNCHANGED <<cmd_idx, parse_end>>
         ELSE pc' = "first" /\ parse_end' = 1 /\ cmd_idx' = cmd_idx + 1
  BY DEF Loop, flags
<1>2. PlainLine(text)
  BY <1>1
<1>3. cmd_offset \in Nat /\ ret \in Nat /\ cmd_idx \in Nat /\ next \in Nat
  BY Sizes DEF TypeInv, TypeOK
<1>4. CASE /\ Scanned(text, argv_store, REDIRECT_IN, REDIRECT_OUT, BACKGROUND_MODE,
                      next - 1, cmd_idx + 1)
           /\ Said(text, cmd_idx + 1, next - 1) = << >>
           /\ AtFirst(text, cmd_offset + ret, next - 1)
           /\ next > 1 /\ argc > 0 /\ parse_end = 0
  <2>1. cmd_offset + ret # 0 /\ argc # 0
    BY <1>3, <1>4 DEF AtFirst
  <2>2. pc' = "first" /\ parse_end' = 1 /\ cmd_idx' = cmd_idx + 1
    BY <1>1, <1>4, <2>1
  <2>3. LastOne(cmd_idx', cmd_offset', parse_end')
    BY <1>3, <2>2 DEF LastOne
  <2> QED BY <1>1, <1>4, <2>2, <2>3 DEF LineInv
<1>5. CASE /\ ret = 0 /\ LastOne(cmd_idx, cmd_offset, parse_end)
           /\ Complete(text, argv_store, REDIRECT_IN, REDIRECT_OUT, BACKGROUND_MODE, cmd_idx)
  <2>1. cmd_offset + ret = 0 \/ parse_end = 1
    BY <1>3, <1>5 DEF LastOne
  <2> QED BY <1>1, <1>5, <2>1 DEF LineInv
<1> QED BY <1>1, <1>2, <1>4, <1>5 DEF LineInv

LEMMA LineStage == TypeInv /\ LineInv /\ Stage => LineInv'
<1> SUFFICES ASSUME TypeInv, LineInv, Stage, PlainLine(text)'
             PROVE  LineInv'
  BY DEF LineInv
<1>1. /\ pc = "stage" /\ argc < cmd_idx
      /\ pc' = IF argv_store[argc][0].word = "NULL" THEN "crashed" ELSE pc
      /\ UNCHANGED <<text, argv_store, cmd_idx, REDIRECT_IN, REDIRECT_OUT, BACKGROUND_MODE>>
  BY DEF Stage, flags
<1>2. Complete(text, argv_store, REDIRECT_IN, REDIRECT_OUT, BACKGROUND_MODE, cmd_idx)
  BY <1>1 DEF LineInv
<1>3. argv_store[argc][0].word # "NULL"
  <2>1. argc \in 0 .. cmd_idx - 1 /\ argc \in 0 .. MAX_PIPE_NUM - 1 /\ 0 \in 0 .. MAX_ARGC - 1
    BY <1>1, Sizes DEF TypeInv, TypeOK, Place
  <2>2. argv_store[argc][0] # Null
    BY <1>2, <2>1 DEF Complete, Before
  <2>3. argv_store[argc][0] \in Args
    BY <2>1 DEF TypeInv, TypeOK
  <2>4. \A x \in Args : x.word = "NULL" => x = Null
    BY Kinds DEF Args, Texts, Null, Junk, Arg
  <2> QED BY <2>2, <2>3, <2>4
<1> QED BY <1>1, <1>2, <1>3 DEF LineInv

LEMMA LineLastStage == TypeInv /\ LineInv /\ LastStage => LineInv'
BY DEF LastStage, LineInv

LEMMA LineStep == TypeInv /\ LineInv /\ TypeInv' /\ [Next]_vars => LineInv'
<1> SUFFICES ASSUME TypeInv, LineInv, TypeInv', [Next]_vars
             PROVE  LineInv'
  OBVIOUS
<1>1. CASE UNCHANGED vars
  BY <1>1 DEF LineInv, vars, locals, flags
<1> QED BY <1>1, LineReadLine, LineParseFirst, LineParseEnd, LineParseWord, LineParsePattern,
           LineParseRedirection, LineParsePipe, LineParseAmp, LineOverflow, LineLoop, LineStage,
           LineLastStage DEF Next, Parser

LEMMA LineHolds == Spec => []LineInv
BY TypeHolds, LineInit, LineStep, PTL DEF Spec

\* The words of the properties, by what was proved of a line.
LEMMA MeaningIs ==
  ASSUME TypeInv
  PROVE  /\ Plain <=> PlainLine(text)
         /\ \A k : CommandOf(k) = CommandAt(text, k)
         /\ \A c : Meant(c) = Said(text, c, Len(text))
         /\ Cardinality(Having({"pipe"})) = CommandAt(text, Len(text) + 1)
         /\ Having({"amp"}) # {} <=> \E k \in 1 .. Len(text) : RolesOf(text)[k] = "amp"
         /\ \A role : {k \in Having({"file"}) : Roles[k - 1] = role}
                        = FilesOf(text, role, Len(text))
<1>1. text \in Seq(Words) /\ Len(text) \in Nat
  BY DEF TypeInv, TypeOK
<1>2. Roles = RolesOf(text)
  BY RolesIs
<1>3. Plain <=> PlainLine(text)
  BY <1>2 DEF Plain, PlainLine, Having
<1>4. \A k : CommandOf(k) = CommandAt(text, k)
  BY <1>2 DEF CommandOf, CommandAt, PipesBefore, Having
<1>5. ASSUME NEW c
      PROVE  Meant(c) = Said(text, c, Len(text))
  <2> DEFINE p(k) == IF Roles[k] \in {"name", "arg"} /\ CommandOf(k) = c
                     THEN Expanded(k) ELSE << >>
  <2>1. \A k \in 1 .. Len(text) : p(k) = Piece(text, c, k)
    BY <1>2, <1>4 DEF Piece, Expanded, ExpandedAt
  <2>2. Meant(c) = FlattenSeq([k \in 1 .. Len(text) |-> p(k)])
    BY DEF Meant
  <2> HIDE DEF p
  <2>3. [k \in 1 .. Len(text) |-> p(k)] = [k \in 1 .. Len(text) |-> Piece(text, c, k)]
    BY <2>1
  <2> QED BY <2>2, <2>3 DEF Said
<1>6. Cardinality(Having({"pipe"})) = CommandAt(text, Len(text) + 1)
  BY <1>1, <1>2, CommandFirst DEF Having
<1>7. Having({"amp"}) # {} <=> \E k \in 1 .. Len(text) : RolesOf(text)[k] = "amp"
  BY <1>2 DEF Having
<1>8. ASSUME NEW role
      PROVE  {k \in Having({"file"}) : Roles[k - 1] = role} = FilesOf(text, role, Len(text))
  <2>1. \A k \in 1 .. Len(text) : k <= Len(text)
    BY <1>1
  <2> QED BY <1>2, <2>1 DEF Having, FilesOf
<1> QED BY <1>3, <1>4, <1>5, <1>6, <1>7, <1>8

LEMMA FileIs ==
  ASSUME TypeInv, NEW role, NEW name, LastFile(text, role, Len(text), name)
  PROVE  FileMeant(role) = name
<1> DEFINE files == {k \in Having({"file"}) : Roles[k - 1] = role}
<1>1. files = FilesOf(text, role, Len(text))
  BY MeaningIs
<1>2. FileMeant(role) = IF files = {} THEN "none" ELSE text[Max(files)]
  BY DEF FileMeant
<1> HIDE DEF files
<1>3. files \subseteq Nat
  BY <1>1 DEF FilesOf
<1>4. CASE files = {}
  BY <1>1, <1>2, <1>4 DEF LastFile
<1>5. CASE files # {}
  <2>1. PICK k \in files : name = text[k] /\ \A j \in files : j <= k
    BY <1>1, <1>5 DEF LastFile
  <2>2. \A j \in files : k >= j
    BY <1>3, <2>1
  <2>3. Max(files) \in files /\ \A j \in files : Max(files) >= j
    BY <2>1, <2>2 DEF Max
  <2>4. Max(files) = k
    <3> DEFINE m == Max(files)
    <3>1. m \in files /\ m >= k
      BY <2>3
    <3> HIDE DEF m
    <3>2. m \in Nat /\ k \in Nat /\ m <= k
      BY <1>3, <2>1, <3>1
    <3>3. m = k
      BY <3>1, <3>2
    <3> QED BY <3>3 DEF m
  <2> QED BY <1>2, <1>5, <2>1, <2>4
<1> QED BY <1>4, <1>5

LEMMA StoredIs ==
  ASSUME TypeInv, NEW c \in 0 .. MAX_PIPE_NUM - 1, NEW words \in Seq(Texts),
         EndedRow(argv_store[c], words)
  PROVE  Stored(c) = words
<1> DEFINE nulls == {a \in 0 .. MAX_ARGC - 1 : argv_store[c][a] = Null}
           n == Len(words)
<1>1. n \in Nat /\ n \in 0 .. MAX_ARGC - 1
  BY LenProperties, Sizes DEF EndedRow
<1>2. n \in nulls
  BY <1>1 DEF EndedRow
<1>3. ASSUME NEW a \in nulls
      PROVE  n <= a
  <2> SUFFICES ASSUME a < n
               PROVE  FALSE
    BY <1>1
  <2>1. a + 1 \in 1 .. n /\ (a + 1) - 1 = a
    BY <1>1
  <2>2. argv_store[c][a].word = words[a + 1]
    BY <2>1 DEF EndedRow, IsRow
  <2>3. words[a + 1] \in Texts
    BY <2>1, ElementOfSeq
  <2>4. Null.word = "NULL" /\ "NULL" \notin Texts
    BY Kinds DEF Null, Arg
  <2> QED BY <2>2, <2>3, <2>4
<1>4. nulls \subseteq Nat
  OBVIOUS
<1>5. Stored(c) = [a \in 1 .. Min(nulls) |-> argv_store[c][a - 1].word]
  BY DEF Stored
<1> HIDE DEF nulls, n
<1>6. Min(nulls) \in nulls /\ \A a \in nulls : Min(nulls) <= a
  BY <1>2, <1>3 DEF Min
<1>7. Min(nulls) = n
  <2> DEFINE m == Min(nulls)
  <2>1. m \in nulls /\ m <= n
    BY <1>2, <1>6
  <2> HIDE DEF m
  <2>2. n \in Nat /\ m \in Nat /\ n <= m
    BY <1>1, <1>3, <1>4, <2>1
  <2>3. m = n
    BY <2>1, <2>2
  <2> QED BY <2>3 DEF m
<1>8. \A a \in 1 .. n : argv_store[c][a - 1].word = words[a]
  BY DEF EndedRow, IsRow, n
<1>9. words = [a \in 1 .. n |-> words[a]]
  BY LenProperties DEF n
<1> QED BY <1>5, <1>7, <1>8, <1>9

(* README:35-79 and the loops of main.cpp:92-156 and 296-305: the commands  *)
(* that are run are those of the line, with its names, files and "&", and   *)
(* with nothing of the lines before.                                        *)
THEOREM LinesMeanWhatTheySay == Spec => []LineAsWritten
<1>1. TypeInv /\ LineInv => LineAsWritten
  <2> SUFFICES ASSUME TypeInv, LineInv, pc = "stage", Plain
               PROVE  /\ cmd_idx = Cardinality(Having({"pipe"}))
                      /\ \A c \in 0 .. cmd_idx : Stored(c) = Meant(c)
                      /\ REDIRECT_IN = FileMeant("in") /\ REDIRECT_OUT = FileMeant("out")
                      /\ BACKGROUND_MODE = (Having({"amp"}) # {})
    BY DEF LineAsWritten
  <2>1. Complete(text, argv_store, REDIRECT_IN, REDIRECT_OUT, BACKGROUND_MODE, cmd_idx)
    BY MeaningIs DEF LineInv
  <2>2. cmd_idx = Cardinality(Having({"pipe"}))
    BY <2>1, MeaningIs DEF Complete
  <2>3. ASSUME NEW c \in 0 .. cmd_idx
        PROVE  Stored(c) = Meant(c)
    <3>1. cmd_idx \in Nat /\ c \in 0 .. MAX_PIPE_NUM - 1 /\ (c \in 0 .. cmd_idx - 1 \/ c = cmd_idx)
      BY Sizes DEF TypeInv, TypeOK, Place
    <3>2. EndedRow(argv_store[c], Said(text, c, Len(text)))
      BY <2>1, <3>1 DEF Complete, Before
    <3>3. Said(text, c, Len(text)) \in Seq(Texts)
      <4>1. text \in Seq(Words) /\ Len(text) \in 0 .. Len(text)
        BY DEF TypeInv, TypeOK
      <4> QED BY <4>1, SaidStep
    <3>4. Stored(c) = Said(text, c, Len(text))
      BY <3>1, <3>2, <3>3, StoredIs
    <3> QED BY <3>4, MeaningIs
  <2>4. REDIRECT_IN = FileMeant("in") /\ REDIRECT_OUT = FileMeant("out")
    BY <2>1, FileIs DEF Complete
  <2>5. BACKGROUND_MODE = (Having({"amp"}) # {})
    <3>1. BACKGROUND_MODE = (\E k \in 1 .. Len(text) : RolesOf(text)[k] = "amp")
      BY <2>1 DEF Complete
    <3>2. Having({"amp"}) # {} <=> \E k \in 1 .. Len(text) : RolesOf(text)[k] = "amp"
      BY MeaningIs
    <3> QED BY <3>1, <3>2
  <2> QED BY <2>2, <2>3, <2>4, <2>5
<1> QED BY <1>1, TypeHolds, LineHolds, PTL

(* Nothing but an odd line makes the parser write behind its arrays or read *)
(* through a null pointer: whatever is typed before it, and in whatever     *)
(* order the words, patterns and redirections of a plain line come.         *)
THEOREM HarmIsOdd == Spec => []HarmNeedsOddLine
<1>1. TypeInv /\ LineInv => HarmNeedsOddLine
  <2> SUFFICES ASSUME TypeInv, LineInv, pc \in {"crashed", "lost"}, Plain
               PROVE  \/ text # <<>> /\ Roles[Len(text)] \in {"in", "out"}
                      \/ Cardinality(Having({"pipe"})) >= MAX_PIPE_NUM
                      \/ \E c \in 0 .. cmd_idx : Len(Meant(c)) >= MAX_ARGC
    BY DEF HarmNeedsOddLine
  <2>1. Odd(text, cmd_idx) /\ PlainLine(text)
    BY MeaningIs DEF LineInv
  <2>2. Roles = RolesOf(text)
    BY RolesIs
  <2> QED BY <2>1, <2>2, MeaningIs DEF Odd
<1> QED BY <1>1, TypeHolds, LineHolds, PTL
=============================================================================
